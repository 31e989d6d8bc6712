---------------------------- MODULE TenantAdmin ----------------------------
(***************************************************************************)
(* The Tenants page of admin-console and the page of one tenant: its       *)
(* status, its quotas, its creation and its deletion, and the handlers of  *)
(* admin-api behind them.  One administrator is at work, on one page at a  *)
(* time; what a page asked for goes on after the page was left.  A dialog  *)
(* covers the list, and what it covers is not clicked.                     *)
(***************************************************************************)
EXTENDS Naturals

CONSTANTS
  TenantIds,     (* ids a tenant may have                                  *)
  MaxOrders      (* bound: mutations made                                  *)

ASSUME TenantAdminAssumption == MaxOrders \in Nat /\ "no tenant" \notin TenantIds

Orders  == 1..MaxOrders
Quotas  == {"workflows", "budget"}
Columns == Quotas \union {"status"}
TenantStatuses == {"none", "active", "suspended"}    (* none: no such row  *)
StatusOps == {"suspend", "activate"}

VARIABLES
  settings,      (* tenant_settings: TenantIds -> its row                  *)
  order,         (* Orders -> a mutation and its handler in admin-api      *)
  desk,          (* the page that is open                                  *)
  roster,        (* the query ["tenants"]                                  *)
  known,         (* tenants whose query ["tenant", id] has an answer       *)
  asked          (* history: TenantIds -> Columns -> the order asked last  *)

tenantVars == <<settings, order, desk, roster, known, asked>>

(* A quota is told by the order that set it, 0 if it is older.             *)
Row == [status : TenantStatuses, workflows : 0..MaxOrders, budget : 0..MaxOrders]

(* typed: the quotas that a save carries; done: whether it was done; heard *)
(* by: its page, the cache if the page was left, nobody if it was given up *)
(* for lost.                                                               *)
NoTenant == "no tenant"
NoOrder == [op |-> "none", id |-> NoTenant, typed |-> {}, at |-> "unmade", done |-> FALSE,
            heard |-> "page"]
NoDesk == [page |-> "none", id |-> NoTenant, dialog |-> "none", editing |-> FALSE, typed |-> {}]
Unsure == 0

TenantTypeOK ==
  /\ settings \in [TenantIds -> Row]
  /\ order \in [Orders ->
       [op : {"none", "create", "delete", "quota"} \union StatusOps,
        id : TenantIds \union {NoTenant}, typed : SUBSET Quotas,
        at : {"unmade", "sent", "served", "over"}, done : BOOLEAN,
        heard : {"page", "cache", "nobody"}]]
  /\ desk \in [page : {"none", "list", "detail"}, id : TenantIds \union {NoTenant},
               dialog : {"none", "create", "delete"}, editing : BOOLEAN, typed : SUBSET Quotas]
  /\ roster \in [data : [TenantIds -> TenantStatuses], loaded : BOOLEAN, stale : BOOLEAN,
                 at : {"idle", "asked", "read"}, answer : [TenantIds -> TenantStatuses]]
  /\ known \in SUBSET TenantIds
  /\ asked \in [TenantIds -> [Columns -> 0..MaxOrders]]

Nobody == [t \in TenantIds |-> "none"]

TenantInit ==
  /\ settings \in [TenantIds -> [status : {"none", "active"}, workflows : {0}, budget : {0}]]
  /\ order = [q \in Orders |-> NoOrder]
  /\ desk = NoDesk
  /\ roster = [data |-> Nobody, loaded |-> FALSE, stale |-> FALSE, at |-> "idle",
               answer |-> Nobody]
  /\ known = {}
  /\ asked = [t \in TenantIds |-> [c \in Columns |-> Unsure]]

----------------------------------------------------------------------------
(* What an order is about, and what it would have of a column. *)
Named(op, typed) ==
  CASE op = "quota" -> typed
    [] op \in StatusOps -> {"status"}
    [] op \in {"create", "delete"} -> Columns
    [] OTHER -> {}

Says(q, c) ==
  LET op == order[q].op IN
  IF c = "status"
  THEN CASE op = "suspend" -> "suspended" [] op = "delete" -> "none" [] OTHER -> "active"
  ELSE IF op = "delete" THEN 0 ELSE q

UnderWay(q) == order[q].at \in {"sent", "served"}

(* isPending of the mutations of the page. *)
Awaited(ops) == \E q \in Orders : UnderWay(q) /\ order[q].heard = "page" /\ order[q].op \in ops

(* Whether an order on its way may still change the column after this one: *)
(* that of a page that was left or one given up, or any if the row may be  *)
(* new.                                                                    *)
Crossed(op, t, c) ==
  \E p \in Orders :
    /\ order[p].at = "sent" /\ order[p].id = t
    /\ c \in Named(order[p].op, order[p].typed)
    /\ order[p].heard # "page" \/ op = "create"

MakeOrder(q, op, t, typed) ==
  /\ order[q].at = "unmade" /\ \A p \in 1..(q - 1) : order[p].at # "unmade"
  /\ order' = [order EXCEPT ![q] = [NoOrder EXCEPT !.op = op, !.id = t, !.typed = typed,
                                                   !.at = "sent"]]
  /\ asked' = [asked EXCEPT ![t] =
       [c \in Columns |-> IF c \notin Named(op, typed) THEN @[c]
                          ELSE IF Crossed(op, t, c) THEN Unsure ELSE q]]
  /\ UNCHANGED <<settings, desk, roster, known>>

----------------------------------------------------------------------------
(* The list.  A fetch on its way is kept when the page is left.            *)
OpenTenants ==
  /\ desk.page = "none"
  /\ desk' = [desk EXCEPT !.page = "list"]
  /\ roster' = [roster EXCEPT !.at = IF @ = "idle" /\ (~roster.loaded \/ roster.stale)
                                     THEN "asked" ELSE @]
  /\ UNCHANGED <<settings, order, known, asked>>

(* The page of a tenant, whose reading is only needed to show Edit: the    *)
(* answer has its settings one level below where the form looks for them.  *)
OpenTenant(t) ==
  /\ desk.page = "none"
  /\ desk' = [desk EXCEPT !.page = "detail", !.id = t]
  /\ UNCHANGED <<settings, order, roster, known, asked>>

ReadTenant ==
  /\ desk.page = "detail"
  /\ settings[desk.id].status # "none"
  /\ known' = known \union {desk.id}
  /\ UNCHANGED <<settings, order, desk, roster, asked>>

LeaveTenants ==
  /\ desk.page # "none"
  /\ desk' = NoDesk
  /\ order' = [q \in Orders |-> [order[q] EXCEPT !.heard = IF UnderWay(q) /\ @ = "page"
                                                      THEN "cache" ELSE @]]
  /\ UNCHANGED <<settings, roster, known, asked>>

RefetchTenants ==
  /\ desk.page = "list" /\ roster.at = "idle"
  /\ roster' = [roster EXCEPT !.at = "asked"]
  /\ UNCHANGED <<settings, order, desk, known, asked>>

ServeTenants ==
  /\ roster.at = "asked"
  /\ roster' = [roster EXCEPT !.at = "read", !.answer = [t \in TenantIds |-> settings[t].status]]
  /\ UNCHANGED <<settings, order, desk, known, asked>>

TenantsFetchFails ==
  /\ roster.at # "idle"
  /\ roster' = [roster EXCEPT !.at = "idle", !.answer = Nobody]
  /\ UNCHANGED <<settings, order, desk, known, asked>>

TenantsArrive ==
  /\ roster.at = "read"
  /\ roster' = [data |-> roster.answer, loaded |-> TRUE, stale |-> FALSE, at |-> "idle",
                answer |-> Nobody]
  /\ UNCHANGED <<settings, order, desk, known, asked>>

(* invalidateQueries: on the open page a first fetch on its way is kept    *)
(* and a later one asked anew.                                             *)
TenantsInvalidated ==
  IF desk.page # "list" THEN [roster EXCEPT !.stale = TRUE]
  ELSE IF ~roster.loaded /\ roster.at # "idle" THEN [roster EXCEPT !.stale = TRUE]
  ELSE [roster EXCEPT !.stale = TRUE, !.at = "asked", !.answer = Nobody]

ListClickable == desk.page = "list" /\ desk.dialog = "none"

OpenCreate ==
  /\ ListClickable
  /\ desk' = [desk EXCEPT !.dialog = "create"]
  /\ UNCHANGED <<settings, order, roster, known, asked>>

OpenDelete(t) ==
  /\ ListClickable /\ ~Awaited({"delete"})
  /\ roster.data[t] # "none"
  /\ desk' = [desk EXCEPT !.dialog = "delete", !.id = t]
  /\ UNCHANGED <<settings, order, roster, known, asked>>

DialogShut == [desk EXCEPT !.dialog = "none", !.id = NoTenant]

(* A mutant of CancelDialog that does not wait for the answer. *)
CancelAnyTime ==
  /\ desk.dialog # "none"
  /\ desk' = DialogShut
  /\ UNCHANGED <<settings, order, roster, known, asked>>

CancelDialog ==
  /\ desk.dialog # "none" /\ ~Awaited({desk.dialog})
  /\ desk' = DialogShut
  /\ UNCHANGED <<settings, order, roster, known, asked>>

(* Suspend and Activate are disabled in every row while one is pending.    *)
ChangeStatus(q, t) ==
  /\ ListClickable /\ ~Awaited(StatusOps)
  /\ roster.data[t] # "none"
  /\ MakeOrder(q, IF roster.data[t] = "active" THEN "suspend" ELSE "activate", t, {})

CreateTenant(q, t) ==
  /\ desk.dialog = "create" /\ ~Awaited({"create"})
  /\ MakeOrder(q, "create", t, {})

ConfirmDelete(q) ==
  /\ desk.dialog = "delete" /\ ~Awaited({"delete"})
  /\ MakeOrder(q, "delete", desk.id, {})

----------------------------------------------------------------------------
(* The quotas.  Edit finds none to copy and clears the form; of what the   *)
(* user leaves in it a field that is empty is not sent.                    *)
EditQuota ==
  /\ desk.page = "detail" /\ desk.id \in known /\ ~desk.editing
  /\ desk' = [desk EXCEPT !.editing = TRUE, !.typed = {}]
  /\ UNCHANGED <<settings, order, roster, known, asked>>

TypeQuotas(typed) ==
  /\ desk.editing
  /\ desk' = [desk EXCEPT !.typed = typed]
  /\ UNCHANGED <<settings, order, roster, known, asked>>

CancelQuota ==
  /\ desk.editing
  /\ desk' = [desk EXCEPT !.editing = FALSE]
  /\ UNCHANGED <<settings, order, roster, known, asked>>

SaveQuota(q) ==
  /\ desk.editing /\ ~Awaited({"quota"})
  /\ MakeOrder(q, "quota", desk.id, desk.typed)

----------------------------------------------------------------------------
(* admin-api.  A deletion is one transaction, which a failing statement    *)
(* undoes; an insert fails on the id of a row, an update without one.      *)
ServeOrder(q) ==
  LET o == order[q]
      does == (settings[o.id].status = "none") = (o.op = "create")
  IN /\ o.at = "sent"
     /\ settings' = IF ~does THEN settings
                    ELSE [settings EXCEPT ![o.id] =
                            [c \in Columns |-> IF c \in Named(o.op, o.typed) THEN Says(q, c)
                                               ELSE @[c]]]
     /\ order' = [order EXCEPT ![q].at = "served", ![q].done = does]
     /\ UNCHANGED <<desk, roster, known, asked>>

(* onSuccess; that of a page that was left only invalidates.               *)
OrderDone(q) ==
  LET o == order[q] IN
  /\ o.at = "served" /\ o.done /\ o.heard # "nobody"
  /\ order' = [order EXCEPT ![q].at = "over"]
  /\ desk' = CASE o.heard = "page" /\ o.op \in {"create", "delete"} /\ o.op = desk.dialog -> DialogShut
               [] o.heard = "page" /\ o.op = "quota" -> [desk EXCEPT !.editing = FALSE]
               [] OTHER -> desk
  /\ roster' = IF o.op = "quota" THEN roster ELSE TenantsInvalidated
  /\ UNCHANGED <<settings, known, asked>>

Doubted(q) ==
  [t \in TenantIds |-> [c \in Columns |-> IF asked[t][c] = q THEN Unsure ELSE asked[t][c]]]

(* Refused, or done with the answer lost: an error is shown at most.       *)
OrderFails(q) ==
  /\ UnderWay(q)
  /\ order' = [order EXCEPT ![q].at = "over"]
  /\ asked' = Doubted(q)
  /\ UNCHANGED <<settings, desk, roster, known>>

(* The connection breaks while the handler has still to run.               *)
OrderGivenUp(q) ==
  /\ order[q].at = "sent" /\ order[q].heard # "nobody"
  /\ order' = [order EXCEPT ![q].heard = "nobody"]
  /\ asked' = Doubted(q)
  /\ UNCHANGED <<settings, desk, roster, known>>

OrderStep(q) ==
  \/ ServeOrder(q) \/ OrderDone(q) \/ OrderFails(q) \/ OrderGivenUp(q)
  \/ ConfirmDelete(q) \/ SaveQuota(q)
  \/ \E t \in TenantIds : ChangeStatus(q, t) \/ CreateTenant(q, t)

TenantNext ==
  \/ OpenTenants \/ LeaveTenants \/ RefetchTenants \/ ServeTenants
  \/ TenantsArrive \/ TenantsFetchFails
  \/ OpenCreate \/ CancelDialog \/ ReadTenant \/ EditQuota \/ CancelQuota
  \/ \E t \in TenantIds : OpenTenant(t) \/ OpenDelete(t)
  \/ \E typed \in SUBSET Quotas : TypeQuotas(typed)
  \/ \E q \in Orders : OrderStep(q)

TenantSpec == TenantInit /\ [][TenantNext]_tenantVars

----------------------------------------------------------------------------
(* With nothing on its way, every column of every tenant is as the         *)
(* administrator asked last, unless that failed or was not answered, or    *)
(* was asked while an order of a page left before, or one given up for     *)
(* lost, was still on its way (or any, for a row made anew): the pages     *)
(* hold back whatever else could overtake an order.                        *)
TenantsAreAsAskedLast ==
  (\A q \in Orders : ~UnderWay(q)) =>
    \A t \in TenantIds : \A c \in Columns :
      asked[t][c] # Unsure => settings[t][c] = Says(asked[t][c], c)
============================================================================
