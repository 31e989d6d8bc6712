---------------------------- MODULE ModelRoutes ----------------------------
(***************************************************************************)
(* The Model Routes page of admin-console and the routes of admin-api,     *)
(* which writes them to the configuration file of LiteLLM.                 *)
(*                                                                         *)
(* The page keeps a list of its own: it is filled from the cached query    *)
(* when the page opens and changed by the answers, and the query is never  *)
(* invalidated.  The handler of an answer sees the list and the form as    *)
(* they are rendered then; only a delete that another delete has followed  *)
(* keeps the list it was last rendered with.                               *)
(***************************************************************************)
EXTENDS Naturals

CONSTANTS
  RouteIds,      (* routes; a new one gets an unused id                    *)
  MaxRequests,   (* bound: mutations made                                  *)
  MaxVersion     (* bound: contents a route may have                       *)

NoRoute == "no route"

ASSUME ModelRoutesAssumption ==
  /\ MaxRequests \in Nat /\ MaxVersion \in Nat \ {0}
  /\ NoRoute \notin RouteIds
  /\ \A r \in RouteIds : r \notin 1..MaxRequests

Requests == 1..MaxRequests
Routes  == RouteIds \X (1..MaxVersion)
Tables  == [RouteIds -> 0..MaxVersion]      (* 0: there is no such row     *)
NoRows  == [r \in RouteIds |-> 0]

(* A list has a place for each row of an answer, told by the route, and    *)
(* one for the row each request may append: a route may be shown twice.    *)
Places == RouteIds \union Requests
NoRow  == <<NoRoute, 0>>
Listings == [Places -> Routes \union {NoRow}]
NoListing == [p \in Places |-> NoRow]
ListOf(t) ==
  [p \in Places |-> IF p \in RouteIds /\ t[p] # 0 THEN <<p, t[p]>> ELSE NoRow]
Lists(list, r) == \E p \in Places : list[p][1] = r

VARIABLES
  table,         (* model_routes                                           *)
  config,        (* the file LiteLLM reads; spoilt (history): generations  *)
                 (* of it overlapped, or one failed                        *)
  request,       (* Requests -> a mutation and its handler in admin-api    *)
  admin,         (* the page; off (history): what happened to its list     *)
  cached         (* the query ["model-routes"]; old (history): the table   *)
                 (* has changed since it was read                          *)

routeVars == <<table, config, request, admin, cached>>

(* read: the table as the generation read it; ver: the row answered;       *)
(* keeps: the handler of a delete holds on to kept; stray: its page was    *)
(* left.                                                                   *)
Unmade == [op |-> "none", id |-> NoRoute, at |-> "unmade", read |-> NoRows,
           ver |-> 0, keeps |-> FALSE, kept |-> NoListing, stray |-> FALSE]
NoPage == [open |-> FALSE, routes |-> NoListing, form |-> FALSE, editing |-> NoRoute, off |-> FALSE]

RoutesTypeOK ==
  /\ table \in Tables
  /\ config \in [file : Tables, spoilt : BOOLEAN]
  /\ request \in [Requests ->
       [op : {"none", "create", "update", "delete"}, id : RouteIds \union {NoRoute},
        at : {"unmade", "sent", "committed", "read", "done", "over"}, read : Tables,
        ver : 0..MaxVersion, keeps : BOOLEAN, kept : Listings, stray : BOOLEAN]]
  /\ admin \in [open : BOOLEAN, routes : Listings, form : BOOLEAN,
                editing : RouteIds \union {NoRoute}, off : BOOLEAN]
  /\ cached \in [data : Tables, loaded : BOOLEAN, at : {"idle", "asked", "read"},
                 answer : Tables, old : BOOLEAN]

RoutesInit ==
  /\ table \in [RouteIds -> {0, 1}]
  /\ config = [file |-> table, spoilt |-> FALSE]
  /\ request = [q \in Requests |-> Unmade]
  /\ admin = NoPage
  /\ cached = [data |-> NoRows, loaded |-> FALSE, at |-> "idle", answer |-> NoRows, old |-> FALSE]

Waiting(op) == {q \in Requests : /\ request[q].op = op /\ ~request[q].stray
                                 /\ request[q].at \notin {"unmade", "over"}}

----------------------------------------------------------------------------
(* The page opens: the effect copies the cached routes, if there are any.  *)
OpenRoutes ==
  /\ ~admin.open
  /\ admin' = [NoPage EXCEPT !.open = TRUE, !.routes = ListOf(cached.data),
                            !.off = cached.old \/ cached.data # table]
  /\ cached' = [cached EXCEPT !.at = IF ~cached.loaded /\ @ = "idle" THEN "asked" ELSE @]
  /\ UNCHANGED <<table, config, request>>

(* Its mutations go on, and their handlers set the state of no page.       *)
LeaveRoutes ==
  /\ admin.open
  /\ admin' = NoPage
  /\ request' = [q \in Requests |->
       [request[q] EXCEPT !.stray = @ \/ request[q].at \notin {"unmade", "over"}]]
  /\ UNCHANGED <<table, config, cached>>

(* Five minutes have passed and the page is seen again. *)
RefetchRoutes ==
  /\ admin.open /\ cached.at = "idle"
  /\ cached' = [cached EXCEPT !.at = "asked"]
  /\ UNCHANGED <<table, config, request, admin>>

ServeRoutes ==
  /\ cached.at = "asked"
  /\ cached' = [cached EXCEPT !.at = "read", !.answer = table, !.old = FALSE]
  /\ UNCHANGED <<table, config, request, admin>>

(* The effect replaces the list of the page, if the data is not what it    *)
(* was; an emptied table is answered with null, which it passes over.      *)
Replaces ==
  /\ admin.open
  /\ cached.loaded => cached.data # cached.answer
  /\ cached.answer # NoRows

RoutesArrive ==
  /\ cached.at = "read"
  /\ cached' = [cached EXCEPT !.data = cached.answer, !.loaded = TRUE, !.at = "idle",
                              !.answer = NoRows]
  /\ admin' = IF ~Replaces THEN admin
              ELSE [admin EXCEPT !.routes = ListOf(cached.answer), !.off = cached.old]
  /\ UNCHANGED <<table, config, request>>

(* Lost or refused, twice: the rows stay as they are.                      *)
RoutesFetchFails ==
  /\ cached.at # "idle"
  /\ cached' = [cached EXCEPT !.at = "idle", !.answer = NoRows, !.old = @ \/ cached.at = "read"]
  /\ UNCHANGED <<table, config, request, admin>>

(* isLoading: no rows are shown while the first answer is awaited.         *)
RowsShown == admin.open /\ (cached.loaded \/ cached.at = "idle")

(* New Route, Edit and Cancel, none of them ever disabled. *)
ShowForm(r) ==
  /\ admin.open
  /\ r # NoRoute => RowsShown /\ Lists(admin.routes, r)
  /\ admin' = [admin EXCEPT !.form = TRUE, !.editing = IF r = NoRoute THEN @ ELSE r]
  /\ UNCHANGED <<table, config, request, cached>>

ResetForm == [admin EXCEPT !.form = FALSE, !.editing = NoRoute]

CancelForm ==
  /\ admin.form
  /\ admin' = ResetForm
  /\ UNCHANGED <<table, config, request, cached>>

NextRequest(q) == request[q].at = "unmade" /\ \A p \in 1..(q - 1) : request[p].at # "unmade"

Send(q, op, r) ==
  request' = [request EXCEPT ![q] = [Unmade EXCEPT !.op = op, !.id = r, !.at = "sent"]]

(* The id of a new route is one nobody has heard of. *)
Unheard(r) ==
  /\ table[r] = 0 /\ config.file[r] = 0
  /\ ~Lists(admin.routes, r) /\ cached.data[r] = 0 /\ cached.answer[r] = 0
  /\ \A p \in Requests :
       request[p].id # r /\ request[p].read[r] = 0 /\ ~Lists(request[p].kept, r)

(* Save: disabled while a create or an update is pending. *)
SaveRoute(q, r) ==
  /\ NextRequest(q)
  /\ admin.form
  /\ Waiting("create") \union Waiting("update") = {}
  /\ IF admin.editing = NoRoute
     THEN Unheard(r) /\ Send(q, "create", r)
     ELSE r = admin.editing /\ Send(q, "update", r)
  /\ UNCHANGED <<table, config, admin, cached>>

(* Trash, which is never disabled: a delete still pending is no longer the *)
(* one its observer renders, and keeps the list of now.                    *)
DeleteRoute(q, r) ==
  /\ NextRequest(q)
  /\ RowsShown /\ Lists(admin.routes, r)
  /\ request' = [p \in Requests |->
       IF p = q THEN [Unmade EXCEPT !.op = "delete", !.id = r, !.at = "sent"]
       ELSE IF p \in Waiting("delete") /\ ~request[p].keeps
            THEN [request[p] EXCEPT !.keeps = TRUE, !.kept = admin.routes]
       ELSE request[p]]
  /\ UNCHANGED <<table, config, admin, cached>>

----------------------------------------------------------------------------
(* admin-api: the transaction, then the generation of the file. *)
NextVersion(r) == IF table[r] < MaxVersion THEN table[r] + 1 ELSE MaxVersion

Committed(at, q) ==
  LET r == request[q].id
      v == IF request[q].op = "delete" THEN 0 ELSE NextVersion(r)
  IN /\ request[q].at = "sent"
     /\ request[q].op = "update" => table[r] # 0
     /\ table' = [table EXCEPT ![r] = v]
     /\ request' = [request EXCEPT ![q].at = at, ![q].ver = v]
     /\ cached' = [cached EXCEPT !.old = TRUE]

(* A mutant of CommitRoute after which no file is generated for a delete.  *)
CommitOnly(q) ==
  LET d == request[q].op = "delete" IN
  /\ Committed(IF d THEN "done" ELSE "committed", q)
  /\ UNCHANGED <<config, admin>>

CommitRoute(q) ==
  /\ Committed("committed", q)
  /\ UNCHANGED <<config, admin>>

Generating == {q \in Requests : request[q].at = "read"}

ReadTable(q) ==
  /\ request[q].at = "committed"
  /\ request' = [request EXCEPT ![q].at = "read", ![q].read = table]
  /\ config' = [config EXCEPT !.spoilt = Generating # {}]
  /\ UNCHANGED <<table, admin, cached>>

WriteConfig(q) ==
  /\ request[q].at = "read"
  /\ config' = [config EXCEPT !.file = request[q].read]
  /\ request' = [request EXCEPT ![q].at = "done", ![q].read = Unmade.read]
  /\ UNCHANGED <<table, admin, cached>>

(* A generation that fails is a warning in the log. *)
FailGeneration(q) ==
  /\ request[q].at \in {"committed", "read"}
  /\ config' = [config EXCEPT !.spoilt = TRUE]
  /\ request' = [request EXCEPT ![q].at = "done", ![q].read = Unmade.read]
  /\ UNCHANGED <<table, admin, cached>>

----------------------------------------------------------------------------
(* onSuccess of the three mutations; the handler of a page that was left   *)
(* changes nothing.                                                        *)
Answer(q, op) ==
  /\ request[q].at = "done" /\ request[q].op = op
  /\ request' = [request EXCEPT ![q] = [Unmade EXCEPT !.at = "over"]]
  /\ UNCHANGED <<table, config, cached>>

Overtaken(q) == request[q].ver # table[request[q].id]

Untold == [admin EXCEPT !.off = @ \/ admin.open]

(* The row is appended, though a reading may have shown it by now.         *)
RouteCreated(q) ==
  /\ Answer(q, "create")
  /\ admin' = IF request[q].stray THEN Untold
              ELSE [ResetForm EXCEPT
                      !.routes[q] = <<request[q].id, request[q].ver>>,
                      !.off = @ \/ Lists(admin.routes, request[q].id) \/ Overtaken(q)]

(* The answer takes the place of the route that the form edits by now.     *)
RouteUpdated(q) ==
  LET e == admin.editing
      updated == [p \in Places |-> IF e # NoRoute /\ admin.routes[p][1] = e
                                  THEN <<request[q].id, request[q].ver>>
                                  ELSE admin.routes[p]]
  IN /\ Answer(q, "update")
     /\ admin' = IF request[q].stray THEN Untold
                 ELSE [ResetForm EXCEPT
                         !.routes = updated,
                         !.off = @ \/ e # request[q].id \/ Overtaken(q)]

(* A mutant of RouteDeleted that leaves the row to the next load.          *)
RouteDeletedLater(q) ==
  /\ Answer(q, "delete")
  /\ admin' = IF request[q].stray THEN Untold ELSE admin

RouteDeleted(q) ==
  LET list == IF request[q].keeps THEN request[q].kept ELSE admin.routes
      left == [p \in Places |-> IF list[p][1] = request[q].id THEN NoRow ELSE list[p]]
  IN /\ Answer(q, "delete")
     /\ admin' = IF request[q].stray THEN Untold
                 ELSE [admin EXCEPT !.routes = left, !.off = @ \/ list # admin.routes]

(* Refused, lost, or answered to nobody: an error is shown at most.        *)
RouteFails(q) ==
  /\ request[q].at \in {"sent", "done"}
  /\ request' = [request EXCEPT ![q] = [Unmade EXCEPT !.at = "over"]]
  /\ admin' = IF request[q].at = "done" THEN Untold ELSE admin
  /\ UNCHANGED <<table, config, cached>>

RequestStep(q) ==
  \/ CommitRoute(q) \/ ReadTable(q) \/ WriteConfig(q) \/ FailGeneration(q)
  \/ RouteCreated(q) \/ RouteUpdated(q) \/ RouteDeleted(q) \/ RouteFails(q)
  \/ \E r \in RouteIds : SaveRoute(q, r) \/ DeleteRoute(q, r)

RoutesNext ==
  \/ OpenRoutes \/ LeaveRoutes \/ RefetchRoutes \/ ServeRoutes \/ RoutesArrive
  \/ RoutesFetchFails \/ CancelForm
  \/ \E r \in RouteIds \union {NoRoute} : ShowForm(r)
  \/ \E q \in Requests : RequestStep(q)

RoutesSpec == RoutesInit /\ [][RoutesNext]_routeVars

----------------------------------------------------------------------------
AtRest == \A q \in Requests : request[q].at \in {"unmade", "over"}

(* The file LiteLLM reads is the table once every request has been served, *)
(* unless the last generations of it overlapped, so that an older reading  *)
(* may have been written last, or one failed.                              *)
ConfigIsTheTable == AtRest /\ ~config.spoilt => config.file = table

Shows(list, r, v) ==
  IF v = 0 THEN ~Lists(list, r)
  ELSE \E p \in Places : /\ list[p] = <<r, v>>
                         /\ \A o \in Places \ {p} : list[o][1] # r

(* With no query invalidated, the list of the page is right at rest, each  *)
(* route once and as it is, unless it was opened on an older query, an     *)
(* answer met a form that edits another route by then or a row already     *)
(* shown, a delete put back the list it kept, or an answer was overtaken   *)
(* by a later change of its route or never reached the page.               *)
ListIsTheTable ==
  /\ AtRest
  /\ admin.open /\ cached.loaded /\ cached.at = "idle"
  /\ ~admin.off
  => \A r \in RouteIds : Shows(admin.routes, r, table[r])
============================================================================
