---------------------------- MODULE TenantScope ----------------------------
(***************************************************************************)
(* The tenant of agent-studio: the context that shows it, the runtime      *)
(* tenant of lib/api.ts that every request carries, the local storage that *)
(* keeps it, and the query cache of the pages, whose keys do not name it.  *)
(*                                                                         *)
(* The cache is TanStack Query as the pages use it: a query is fetched     *)
(* when a page mounts and its data is not fresh; invalidating refetches    *)
(* the mounted ones, taking over a first fetch that is still on its way.   *)
(***************************************************************************)
EXTENDS Naturals

CONSTANTS
  Tenants,
  DefaultTenant, (* NEXT_PUBLIC_TENANT_ID                                  *)
  Keys,          (* query keys                                             *)
  MaxSwitches    (* bound: times the user picks a tenant                   *)

NoData == "no data"

ASSUME TenantScopeAssumption ==
  DefaultTenant \in Tenants /\ NoData \notin Tenants /\ MaxSwitches \in Nat

VARIABLES
  tenant,        (* shown: tenantId; runtime: _tenantId; stored:           *)
                 (* localStorage; synced: the mount effect has run         *)
  query,         (* Keys -> the cached query                               *)
  mounted,       (* keys a mounted page observes                           *)
  switches       (* tenants picked so far                                  *)

scopeVars == <<tenant, query, mounted, switches>>

(* data: the tenant it is of; asked: the tenant the fetch on its way is    *)
(* for; late (history): the fetch, or the data, was asked before the last  *)
(* switch or before the runtime tenant was set.                            *)
ScopeTypeOK ==
  /\ tenant \in [shown : Tenants, runtime : Tenants, stored : Tenants, synced : BOOLEAN]
  /\ query \in [Keys -> [data : Tenants \union {NoData}, fresh : BOOLEAN, dataLate : BOOLEAN,
                         asked : Tenants \union {NoData}, askedLate : BOOLEAN]]
  /\ mounted \subseteq Keys
  /\ switches \in 0..MaxSwitches

NoQuery == [data |-> NoData, fresh |-> FALSE, dataLate |-> FALSE,
            asked |-> NoData, askedLate |-> FALSE]

ScopeInit ==
  /\ tenant \in {[shown |-> t, runtime |-> DefaultTenant, stored |-> t, synced |-> FALSE] :
                   t \in Tenants}
  /\ query = [k \in Keys |-> NoQuery]
  /\ mounted = {}
  /\ switches = 0

Fetch(q, t) == [q EXCEPT !.asked = t, !.askedLate = ~tenant.synced]

(* A page that observes k mounts.  Its effect runs before the effect of    *)
(* the provider around it, unless it is mounted later.                     *)
MountPage(k) ==
  /\ k \notin mounted
  /\ mounted' = mounted \union {k}
  /\ query' = IF query[k].fresh \/ query[k].asked # NoData THEN query
              ELSE [query EXCEPT ![k] = Fetch(@, tenant.runtime)]
  /\ UNCHANGED <<tenant, switches>>

UnmountPage(k) ==
  /\ k \in mounted
  /\ mounted' = mounted \ {k}
  /\ UNCHANGED <<tenant, query, switches>>

(* The mount effect of the provider: setRuntimeTenant(tenantId). *)
SyncRuntimeTenant ==
  /\ ~tenant.synced
  /\ tenant' = [tenant EXCEPT !.runtime = tenant.shown, !.synced = TRUE]
  /\ UNCHANGED <<query, mounted, switches>>

(* invalidateQueries: a mounted query is fetched again; one that has no    *)
(* data yet keeps the fetch it waits for.                                  *)
Invalidated(k, t) ==
  LET q == [query[k] EXCEPT !.fresh = FALSE, !.dataLate = FALSE,
                            !.askedLate = query[k].asked # NoData]
  IN IF k \notin mounted \/ (q.asked # NoData /\ q.data = NoData) THEN q
     ELSE Fetch(q, t)

Switch(t) ==
  /\ tenant.synced
  /\ t # tenant.shown
  /\ switches < MaxSwitches
  /\ switches' = switches + 1
  /\ tenant' = [tenant EXCEPT !.shown = t, !.runtime = t, !.stored = t]

(* A mutant of SwitchTenant that refetches what is mounted only. *)
SwitchMounted(t) ==
  /\ Switch(t)
  /\ query' = [k \in Keys |-> IF k \in mounted THEN Invalidated(k, t) ELSE query[k]]
  /\ UNCHANGED mounted

(* setTenantId, from the selector. *)
SwitchTenant(t) ==
  /\ Switch(t)
  /\ query' = [k \in Keys |-> Invalidated(k, t)]
  /\ UNCHANGED mounted

(* The answer of req, which throws on any error status: data, one retry,   *)
(* or an error that leaves the data as it is.                              *)
FetchEnds(k) ==
  /\ query[k].asked # NoData
  /\ LET q == [query[k] EXCEPT !.asked = NoData, !.askedLate = FALSE] IN
     \/ query' = [query EXCEPT ![k] = [q EXCEPT !.data = query[k].asked, !.fresh = TRUE,
                                                !.dataLate = query[k].askedLate]]
     \/ query' = [query EXCEPT ![k] = q]
     \/ query' = [query EXCEPT ![k] = Fetch(@, tenant.runtime)]
  /\ UNCHANGED <<tenant, mounted, switches>>

(* staleTime has passed. *)
GoesStale(k) ==
  /\ query[k].fresh
  /\ query' = [query EXCEPT ![k].fresh = FALSE, ![k].dataLate = FALSE]
  /\ UNCHANGED <<tenant, mounted, switches>>

(* The browser loads the studio again. *)
Reload ==
  /\ tenant' = [tenant EXCEPT !.shown = tenant.stored, !.runtime = DefaultTenant,
                              !.synced = FALSE]
  /\ query' = [k \in Keys |-> NoQuery]
  /\ mounted' = {}
  /\ UNCHANGED switches

ScopeNext ==
  \/ SyncRuntimeTenant \/ Reload
  \/ \E t \in Tenants : SwitchTenant(t)
  \/ \E k \in Keys : MountPage(k) \/ UnmountPage(k) \/ FetchEnds(k) \/ GoesStale(k)

ScopeSpec == ScopeInit /\ [][ScopeNext]_scopeVars

----------------------------------------------------------------------------
(* A switch reaches every query, mounted or not: data of another tenant    *)
(* that the cache still serves as fresh came from a request that was on    *)
(* its way at the switch, or was made before the runtime tenant was set.   *)
OnlyLateDataIsForeign ==
  \A k \in Keys :
    query[k].fresh /\ query[k].data # tenant.shown => query[k].dataLate
============================================================================
