----------------------------- MODULE AgentPages -----------------------------
(***************************************************************************)
(* The pages of agent-studio that create, deploy, pause, edit and delete   *)
(* an agent, against agent-registry, for one agent and one browser.        *)
(*                                                                         *)
(* A mutation is a small program: it asks the registry for one transition  *)
(* after the other and stops at the first that fails.  It outlives the     *)
(* page it was started on, so that mutations of both pages overlap.  The   *)
(* registry (on Postgres) validates a transition against a status it read  *)
(* earlier, and an update writes back the status it read.                  *)
(*                                                                         *)
(* A fetch is asked for, read by the registry and taken over in separate   *)
(* steps.  An invalidation cancels and repeats the fetch of the page that  *)
(* is open, but not one that nothing is shown for yet, nor that of a page  *)
(* which was left: their answers are taken over as fresh, however old.     *)
(***************************************************************************)
EXTENDS Naturals, Sequences, FiniteSets

CONSTANT
  MaxInFlight    (* bound: mutations and fetches begun while others are on *)
                 (* their way                                              *)

ASSUME AgentPagesAssumption == MaxInFlight \in Nat

Statuses == {"none", "draft", "staged", "active", "paused", "archived"}
Kinds    == {"create", "deployList", "deployDetail", "pause", "unpause", "delete", "save"}
Pages    == {"list", "detail"}

(* agent-registry: validTransitions. *)
Valid == {<<"draft", "staged">>, <<"staged", "active">>, <<"staged", "draft">>,
          <<"active", "paused">>, <<"active", "archived">>,
          <<"paused", "active">>, <<"paused", "archived">>}

VARIABLES
  agent,         (* the status in the registry                             *)
  copy,          (* Pages -> the cached answer the page renders            *)
  job,           (* Kinds -> the mutation in flight                        *)
  open           (* page mounted, delete dialog, edit sheet                *)

agentVars == <<agent, copy, job, open>>

NotLoaded == "no data"
CopyStatuses == Statuses \union {NotLoaded}

(* at, read: the fetch of the query and the status read for its answer;    *)
(* missed (history): since the answer was read a mutation ended that did   *)
(* not have it fetched again.                                              *)
Copies == [status : CopyStatuses, fresh : BOOLEAN, at : {"idle", "asked", "answered"},
           read : CopyStatuses, missed : BOOLEAN]
Unfetched == [status |-> NotLoaded, fresh |-> FALSE, at |-> "idle", read |-> NotLoaded,
              missed |-> FALSE]
Phases == {"idle", "get", "call", "checked", "done"}
Idle   == [at |-> "idle", plan |-> <<>>, seen |-> "none", wrote |-> FALSE]

AgentTypeOK ==
  /\ agent \in Statuses
  /\ copy \in [Pages -> Copies]
  /\ job \in [Kinds -> [at : Phases, plan : Seq(Statuses), seen : Statuses, wrote : BOOLEAN]]
  /\ open \in [page : Pages, confirm : BOOLEAN, sheet : BOOLEAN]

AgentInit ==
  /\ agent = "none"
  /\ copy = [p \in Pages |-> Unfetched]
  /\ job = [k \in Kinds |-> Idle]
  /\ open = [page |-> "list", confirm |-> FALSE, sheet |-> FALSE]

----------------------------------------------------------------------------
(* The pages.  The list leaves archived agents out. *)
Listed == copy["list"].status \notin {NotLoaded, "none", "archived"}
Detail == copy["detail"].status

Navigate(p) ==
  /\ p # open.page
  /\ p = "detail" => Listed
  /\ open' = [page |-> p, confirm |-> FALSE, sheet |-> FALSE]
  /\ UNCHANGED <<agent, copy, job>>

(* The trash button and Cancel of the confirmation. *)
ToggleConfirm ==
  /\ open.page = "list"
  /\ open.confirm \/ Listed
  /\ open' = [open EXCEPT !.confirm = ~@]
  /\ UNCHANGED <<agent, copy, job>>

(* Edit, and closing the sheet: while saving only Cancel is disabled. *)
ToggleSheet ==
  /\ open.page = "detail"
  /\ Detail \notin {NotLoaded, "none", "archived"}
  /\ open' = [open EXCEPT !.sheet = ~@]
  /\ UNCHANGED <<agent, copy, job>>

(* A query is fetched when its page is mounted and it is not fresh. *)
Refetched(c) == [c EXCEPT !.fresh = FALSE, !.at = "asked", !.read = NotLoaded, !.missed = FALSE]

Running == {k \in Kinds : job[k].at # "idle"}

Underway == Cardinality(Running) + Cardinality({p \in Pages : copy[p].at # "idle"})

AskCopy(p) ==
  /\ open.page = p
  /\ ~copy[p].fresh /\ copy[p].at = "idle"
  /\ Underway < MaxInFlight
  /\ copy' = [copy EXCEPT ![p] = Refetched(@)]
  /\ UNCHANGED <<agent, job, open>>

AnswerCopy(p) ==
  /\ copy[p].at = "asked"
  /\ copy' = [copy EXCEPT ![p].at = "answered", ![p].read = agent]
  /\ UNCHANGED <<agent, job, open>>

(* The answer is there, whether or not the page still is. *)
CopyArrives(p) ==
  /\ copy[p].at = "answered"
  /\ copy' = [copy EXCEPT ![p] = [Unfetched EXCEPT !.status = copy[p].read, !.fresh = TRUE,
                                                   !.missed = copy[p].missed]]
  /\ UNCHANGED <<agent, job, open>>

(* The fetch fails: what is shown stays, and is asked for again by the one *)
(* retry or later.                                                         *)
CopyFails(p) ==
  /\ copy[p].at # "idle"
  /\ copy' = [copy EXCEPT ![p] = [Unfetched EXCEPT !.status = copy[p].status]]
  /\ UNCHANGED <<agent, job, open>>

CopyGoesStale(p) ==
  /\ copy[p].fresh
  /\ copy' = [copy EXCEPT ![p].fresh = FALSE, ![p].missed = FALSE]
  /\ UNCHANGED <<agent, job, open>>

(* invalidateQueries: fetch() with cancelRefetch for what is mounted; a    *)
(* query without data keeps the fetch it waits for, and nothing cancels    *)
(* the fetch of a query that is not mounted.                               *)
CopyInvalidated(p) ==
  LET c == copy[p] IN
  IF open.page # p \/ (c.at # "idle" /\ c.status = NotLoaded)
  THEN [c EXCEPT !.fresh = FALSE, !.missed = c.at = "answered"]
  ELSE Refetched(c)

(* What each button does, and when the page shows it enabled. *)
Offered(k) ==
  CASE k = "create"       -> open.page = "list" /\ agent = "none"
    [] k = "deployList"   -> open.page = "list" /\ copy["list"].status = "draft"
    [] k = "delete"       -> open.page = "list" /\ open.confirm
    [] k = "deployDetail" -> open.page = "detail" /\ Detail \in {"draft", "staged"}
    [] k = "pause"        -> open.page = "detail" /\ Detail = "active"
    [] k = "unpause"      -> open.page = "detail" /\ Detail = "paused"
    [] k = "save"         -> open.page = "detail" /\ open.sheet

Plan(k) ==
  CASE k = "create"       -> <<"draft">>
    [] k = "deployList"   -> <<"staged", "active">>
    [] k = "delete"       -> <<>>
    [] k = "deployDetail" -> IF Detail = "draft" THEN <<"staged", "active">> ELSE <<"active">>
    [] k = "pause"        -> <<"paused">>
    [] k = "unpause"      -> <<"active">>
    [] k = "save"         -> <<>>

(* mutate: a button whose mutation is pending is disabled. *)
Begin(k) ==
  /\ job[k].at = "idle"
  /\ Offered(k)
  /\ Underway < MaxInFlight
  /\ job' = [job EXCEPT ![k] = [Idle EXCEPT !.plan = Plan(k),
                                !.at = IF k = "delete" THEN "get" ELSE "call"]]
  /\ UNCHANGED <<agent, copy, open>>

----------------------------------------------------------------------------
(* The requests of a mutation. *)

(* agentsApi.delete: GET the agent, then decide on the transitions. *)
GetAgent ==
  LET j == job["delete"] IN
  /\ j.at = "get"
  /\ job' = [job EXCEPT !["delete"] =
       [j EXCEPT !.at = "call",
                 !.plan = IF agent \in {"draft", "paused"}
                          THEN <<"staged", "active", "archived">> ELSE <<"archived">>]]
  /\ UNCHANGED <<agent, copy, open>>

Allowed(k) ==
  CASE k = "create" -> agent = "none"
    [] k = "save"   -> agent # "none"
    [] OTHER        -> <<agent, Head(job[k].plan)>> \in Valid

(* A mutant of Accept that validates nothing. *)
AcceptAny(k) ==
  /\ job[k].at = "call"
  /\ job' = [job EXCEPT ![k].at = "checked", ![k].seen = agent]
  /\ UNCHANGED <<agent, copy, open>>

(* The registry reads the record and accepts the request. *)
Accept(k) ==
  /\ job[k].at = "call"
  /\ Allowed(k)
  /\ job' = [job EXCEPT ![k].at = "checked", ![k].seen = agent]
  /\ UNCHANGED <<agent, copy, open>>

(* It writes the new status, or with an update the one it read. *)
Write(k) ==
  LET j == job[k] IN
  /\ j.at = "checked"
  /\ agent' = IF k = "save" THEN j.seen ELSE Head(j.plan)
  /\ job' = [job EXCEPT ![k] =
       [j EXCEPT !.wrote = TRUE, !.seen = "none",
                 !.plan = IF k = "save" THEN @ ELSE Tail(@),
                 !.at = IF Len(j.plan) <= 1 THEN "done" ELSE "call"]]
  /\ UNCHANGED <<copy, open>>

(* The registry has been read for what the page shows as fresh or waits    *)
(* for.                                                                    *)
CopyRead(p) == copy[p].fresh \/ copy[p].at = "answered"

(* A mutant of Invalidates that leaves the pause out.                       *)
InvalidatesLess(k) == IF k \in {"create", "deployList", "delete"} THEN Pages
                      ELSE IF k = "pause" THEN {} ELSE {"detail"}

(* The query keys onSuccess invalidates: ["agents"] is a prefix of both,   *)
(* ["agents", id] is the detail page's only.                               *)
Invalidates(k) == IF k \in {"create", "deployList", "delete"} THEN Pages ELSE {"detail"}

Succeed(k) ==
  /\ job[k].at = "done"
  /\ job' = [job EXCEPT ![k] = Idle]
  /\ copy' = [p \in Pages |->
       IF p \in Invalidates(k) THEN CopyInvalidated(p)
       ELSE [copy[p] EXCEPT !.missed = CopyRead(p) /\ (@ \/ p = "list")]]
  /\ open' = [open EXCEPT !.confirm = @ /\ k # "delete", !.sheet = @ /\ k # "save"]
  /\ UNCHANGED <<agent>>

(* 422, 404 or (a fault) any other failure: the mutation stops where it    *)
(* is, its error is shown at most, and nothing is invalidated.             *)
FailWith(k) ==
  /\ job' = [job EXCEPT ![k] = Idle]
  /\ copy' = [p \in Pages |-> [copy[p] EXCEPT !.missed = @ \/ (CopyRead(p) /\ job[k].wrote)]]
  /\ UNCHANGED <<agent, open>>

Refuse(k) ==
  /\ job[k].at = "call"
  /\ ~Allowed(k)
  /\ FailWith(k)

LoseRequest(k) ==
  /\ job[k].at \in {"get", "call", "done"}
  /\ FailWith(k)

JobStep(k) == Begin(k) \/ Accept(k) \/ Write(k) \/ Succeed(k) \/ Refuse(k) \/ LoseRequest(k)

CopyStep(p) ==
  AskCopy(p) \/ AnswerCopy(p) \/ CopyArrives(p) \/ CopyFails(p) \/ CopyGoesStale(p)

AgentNext ==
  \/ ToggleConfirm \/ ToggleSheet \/ GetAgent
  \/ \E p \in Pages : Navigate(p) \/ CopyStep(p)
  \/ \E k \in Kinds : JobStep(k)

AgentSpec == AgentInit /\ [][AgentNext]_agentVars

----------------------------------------------------------------------------
(* A page does not show a status of the past as fresh: with no mutation in *)
(* flight, fresh data is what the registry holds.  The exceptions last     *)
(* until it is fetched again: the list after a mutation of the detail      *)
(* page, both after a mutation that failed half way, and an answer that    *)
(* was read before an invalidation which could not cancel its fetch.       *)
FreshCopyIsCurrent ==
  \A p \in Pages :
    /\ copy[p].fresh
    /\ ~copy[p].missed
    /\ Running = {}
    => copy[p].status = agent

(* The lifecycle of the registry is left only when two mutations overlap:  *)
(* a write that is no valid transition was accepted on a status another    *)
(* mutation has replaced since.                                            *)
LifecycleLeftByRacesOnly ==
  [][ \/ agent' = agent
      \/ <<agent, agent'>> \in Valid \union {<<"none", "draft">>}
      \/ \E k \in Kinds : job[k].at = "checked" /\ job[k].seen # agent ]_agentVars
============================================================================
