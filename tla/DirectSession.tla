--------------------------- MODULE DirectSession ---------------------------
(***************************************************************************)
(* Direct execution: agent sessions that live in the memory of             *)
(* agent-workers (direct_agent_executor.py) behind an HTTP server that has *)
(* a thread for each request and a pool of threads for the agents          *)
(* (direct_http_handler.py), and the chats that workflow-initiator opens   *)
(* on them.                                                                *)
(*                                                                         *)
(* Python switches threads between any two bytecodes, so an action is what *)
(* a thread does to shared state at one place; a test and the act it       *)
(* guards are two actions.  A session is named after the request that      *)
(* creates it, and its history is the user messages in it, each named      *)
(* after the request that brings it.                                       *)
(***************************************************************************)
EXTENDS Integers, FiniteSetsExt, Sequences

CONSTANTS
  Requests,      (* the POSTs to execute-direct                            *)
  Watchers,      (* the clients that stream a session's events             *)
  NoSession,     (* no session yet                                         *)
  MaxSessions,   (* DirectAgentExecutor.max_sessions                       *)
  Workers,       (* thread_pool.max_workers                                *)
  MaxSteps       (* bound: events of agents other than their last          *)

ASSUME DirectAssumption ==
  /\ IsFiniteSet(Requests)
  /\ NoSession \notin Requests
  /\ MaxSessions \in Nat \ {0}
  /\ Workers \in Nat \ {0}
  /\ MaxSteps \in Nat

VARIABLES
  table,         (* the keys of executor.sessions                          *)
  session,       (* the AgentSession objects, also those no longer there   *)
  older,         (* <<s, t>>: s was last active before t                   *)
  req,           (* Requests -> the handler's and its client's state       *)
  attempt,       (* Requests -> the request's task in the thread pool      *)
  watch,         (* Watchers -> the state of stream_events                 *)
  peak           (* history: most requests about to insert at one time     *)

vars == <<table, session, older, req, attempt, watch, peak>>

Names       == Requests \union {NoSession}
Kinds       == {"user", "step", "end"}
Events      == [by : Requests, kind : Kinds]
Sessions    == [events : Seq(Events), messages : Seq(Requests), finished : BOOLEAN]
NewSession  == [events |-> <<>>, messages |-> <<>>, finished |-> FALSE]
Serving     == {"found", "choose", "evict", "insert", "awaiting"}
ReqStates   ==
  [at     : {"idle", "answered", "failed", "polled"} \union Serving,
   sid    : Names,                       (* session.id                     *)
   oldest : Names,
   seen   : SUBSET Kinds]                (* its events its chat was shown  *)
InPool      == {"running", "completed", "stopped"}
Attempts    ==
  [at       : {"none", "queued", "done"} \union InPool,
   messages : Seq(Requests),             (* messages of run_react_loop     *)
   steps    : Nat]
WatchStates ==
  [at    : {"idle", "count", "slice", "check", "closed"},
   sid   : Names,
   base  : Nat,                          (* events there when it joined    *)
   last  : Nat,                          (* last_event_count               *)
   count : Nat,                          (* current_event_count            *)
   sent  : SUBSET Nat,                   (* positions of the events sent   *)
   live  : BOOLEAN]                      (* history: it was not finished   *)

TypeOK ==
  /\ table \subseteq Requests
  /\ session \in [Requests -> Sessions]
  /\ older \subseteq Requests \X Requests
  /\ req \in [Requests -> ReqStates]
  /\ attempt \in [Requests -> Attempts]
  /\ watch \in [Watchers -> WatchStates]
  /\ peak \in Nat

Init ==
  /\ table = {}
  /\ session = [s \in Requests |-> NewSession]
  /\ older = {}
  /\ req = [r \in Requests |-> [at |-> "idle", sid |-> NoSession, oldest |-> NoSession,
                                seen |-> {}]]
  /\ attempt = [r \in Requests |-> [at |-> "none", messages |-> <<>>, steps |-> 0]]
  /\ watch = [w \in Watchers |->
       [at |-> "idle", sid |-> NoSession, base |-> 0, last |-> 0, count |-> 0,
        sent |-> {}, live |-> FALSE]]
  /\ peak = 0

At(state)     == {r \in Requests : req[r].at = state}
Move(r, q)    == req' = [req EXCEPT ![r] = q]
Task(r, a)    == attempt' = [attempt EXCEPT ![r] = a]
Watch(w, v)   == watch' = [watch EXCEPT ![w] = v]

(* session.last_activity = time.time(), which matters in the table only. *)
Without(s)  == {p \in older : p[1] # s /\ p[2] # s}
Touch(s, t) == older' = IF s \in t THEN Without(s) \union ((t \ {s}) \X {s}) ELSE older

AddEvent(x, r, kind) == [x EXCEPT !.events = Append(@, [by |-> r, kind |-> kind])]
AddMessage(x, r)     == [x EXCEPT !.messages = Append(@, r)]

(* A change of a session that adds an event, when the table is t. *)
Change(s, x, t) == session' = [session EXCEPT ![s] = x] /\ Touch(s, t)

----------------------------------------------------------------------------
(* The request handler: get_or_create_session, then the wait               *)

(* An unhandled error is a 500, and its body names no session.             *)
Fail(r) == Move(r, [req[r] EXCEPT !.at = "failed", !.sid = NoSession])

(* "len(self.sessions) >= self.max_sessions"; the mutant says ">". *)
FullAndOne == Cardinality(table) > MaxSessions
Full       == Cardinality(table) >= MaxSessions

(* "if session_id and session_id in self.sessions": a client can only name *)
(* a session it was told of; any other id, or none, gets a new session.    *)
Known == {req[r].sid : r \in At("answered") \union At("polled")} \intersect Requests

Begin(r) ==
  /\ req[r].at = "idle"
  /\ \/ Move(r, [req[r] EXCEPT !.at = IF Full THEN "choose" ELSE "insert"])
     \/ \E s \in Known \intersect table :
          Move(r, [req[r] EXCEPT !.at = "found", !.sid = s])
  /\ peak' = Max({peak, Cardinality(At("insert")')})
  /\ UNCHANGED <<table, session, older, attempt, watch>>

(* The request's message and its event join the session, and its agent is  *)
(* submitted to the pool.                                                  *)
Serve(r, s, t) ==
  /\ Change(s, AddEvent(AddMessage(session[s], r), r, "user"), t)
  /\ Move(r, [req[r] EXCEPT !.at = "awaiting", !.sid = s])
  /\ Task(r, [attempt[r] EXCEPT !.at = "queued"])

(* "session = self.sessions[session_id]", a KeyError when it has gone. *)
Resume(r) ==
  /\ req[r].at = "found"
  /\ \/ req[r].sid \in table /\ Serve(r, req[r].sid, table)
     \/ req[r].sid \notin table /\ Fail(r) /\ UNCHANGED <<session, older, attempt>>
  /\ UNCHANGED <<table, watch, peak>>

Oldest == {s \in table : \A t \in table \ {s} : <<s, t>> \in older}

(* min() over the sessions.  It raises when there are none, and when       *)
(* another thread changes the table while it runs.                         *)
ChooseOldest(r) ==
  /\ req[r].at = "choose"
  /\ \/ \E s \in Oldest : Move(r, [req[r] EXCEPT !.at = "evict", !.oldest = s])
     \/ /\ table = {} \/ At("evict") \union At("insert") # {}
        /\ Fail(r)
  /\ UNCHANGED <<table, session, older, attempt, watch, peak>>

(* "del self.sessions[oldest.id]", a KeyError when it has gone. *)
Evict(r) ==
  /\ req[r].at = "evict"
  /\ \/ /\ req[r].oldest \in table
        /\ table' = table \ {req[r].oldest}
        /\ older' = Without(req[r].oldest)
        /\ Move(r, [req[r] EXCEPT !.at = "insert", !.oldest = NoSession])
        /\ peak' = Max({peak, Cardinality(At("insert")')})
     \/ req[r].oldest \notin table /\ Fail(r) /\ UNCHANGED <<table, older, peak>>
  /\ UNCHANGED <<session, attempt, watch>>

Insert(r) ==
  /\ req[r].at = "insert"
  /\ table' = table \union {r}
  /\ Serve(r, r, table \union {r})
  /\ UNCHANGED <<watch, peak>>

(* The pool's result is the response. *)
Answer(r) ==
  /\ req[r].at = "awaiting"
  /\ attempt[r].at = "done"
  /\ Move(r, [req[r] EXCEPT !.at = "answered"])
  /\ UNCHANGED <<table, session, older, attempt, watch, peak>>

(* What result(timeout=120) leaves in the session when it gives up; the    *)
(* mutant answers without the error event.                                 *)
TimeoutSilent(x, r) == x
TimeoutEvent(x, r)  == AddEvent(x, r, "end")

(* result(timeout=120) gives up; the task stays in the pool.  The mutant   *)
(* waits without a timeout.                                                *)
TimeOutNever(r) == FALSE
TimeOut(r) ==
  /\ req[r].at = "awaiting"
  /\ attempt[r].at # "done"
  /\ Change(req[r].sid, TimeoutEvent(session[req[r].sid], r), table)
  /\ Move(r, [req[r] EXCEPT !.at = "answered"])
  /\ UNCHANGED <<table, attempt, watch, peak>>

----------------------------------------------------------------------------
(* The agent: execute_iteration in a thread of the pool                    *)

Busy == {r \in Requests : attempt[r].at \in InPool}

(* A thread takes the task, and run_react_loop copies the history (its     *)
(* merge_consecutive_tool_results returns a new list).                     *)
StartAttempt(r) ==
  /\ attempt[r].at = "queued"
  /\ Cardinality(Busy) < Workers
  /\ Task(r, [attempt[r] EXCEPT !.at = "running",
                                !.messages = session[req[r].sid].messages])
  /\ UNCHANGED <<table, session, older, req, watch, peak>>

(* "thinking", "tool_call" and "tool_result" of the loop. *)
AddStep(r) ==
  LET s == req[r].sid IN
  /\ attempt[r].at = "running"
  /\ MapThenSumSet(LAMBDA q : attempt[q].steps, Requests) < MaxSteps
  /\ Change(s, AddEvent(session[s], r, "step"), table)
  /\ Task(r, [attempt[r] EXCEPT !.steps = @ + 1])
  /\ UNCHANGED <<table, req, watch, peak>>

Finish(x) == [x EXCEPT !.finished = TRUE]   (* session.state["finished"] *)

(* session.messages = result["messages"]; the mutant loses the history.    *)
PutBackNone(x, messages) == [x EXCEPT !.messages = <<>>]
PutBack(x, messages)     == [x EXCEPT !.messages = messages]

(* The loop has returned: the history is replaced by the loop's copy, and  *)
(* a completed loop adds its final answer.                                 *)
EndLoop(r) ==
  LET s == req[r].sid
      x == PutBack(session[s], attempt[r].messages)
  IN
  /\ attempt[r].at = "running"
  /\ \/ /\ Change(s, Finish(AddEvent(x, r, "end")), table)
        /\ Task(r, [attempt[r] EXCEPT !.at = "completed"])
     \/ /\ session' = [session EXCEPT ![s] = Finish(x)]
        /\ Task(r, [attempt[r] EXCEPT !.at = "stopped"])
        /\ UNCHANGED older
  /\ UNCHANGED <<table, req, watch, peak>>

(* execute_iteration adds the error or the answer the loop came back with, *)
(* also a final answer that is there already, unless it is empty.  A loop  *)
(* that raises gets its error here.                                        *)
EndAttempt(r) ==
  LET s == req[r].sid IN
  /\ attempt[r].at \in InPool
  /\ \/ Change(s, Finish(AddEvent(session[s], r, "end")), table)
     \/ attempt[r].at = "completed" /\ UNCHANGED <<session, older>>
  /\ Task(r, [attempt[r] EXCEPT !.at = "done"])
  /\ UNCHANGED <<table, req, watch, peak>>

----------------------------------------------------------------------------
(* The chat of a request: workflow-initiator between gateway and executor  *)

(* The poll of a session Temporal does not know: get_session, then all its *)
(* events, with the status COMPLETED.  When it is not in the table, or the *)
(* answer to the request named no session, there are no events.  A chat    *)
(* whose initiator gave up on the request (after a minute) never polls.    *)
KindsOf(r, events) == {e.kind : e \in {x \in Range(events) : x.by = r}}

PollChat(r) ==
  LET s == req[r].sid IN
  /\ req[r].at \in {"answered", "failed"}
  /\ \/ /\ s \in table
        /\ Move(r, [req[r] EXCEPT !.at = "polled", !.seen = KindsOf(r, session[s].events)])
        /\ Touch(s, table)
     \/ /\ s \notin table
        /\ Move(r, [req[r] EXCEPT !.at = "polled"])
        /\ UNCHANGED older
  /\ UNCHANGED <<table, session, attempt, watch, peak>>

----------------------------------------------------------------------------
(* GET .../events with Accept: text/event-stream                           *)

Join(w) ==
  /\ watch[w].at = "idle"
  /\ \E s \in Known \intersect table :
       LET n == Len(session[s].events) IN
       /\ Watch(w, [watch[w] EXCEPT !.at = "count", !.sid = s, !.base = n,
                                    !.last = n, !.live = ~session[s].finished])
       /\ Touch(s, table)
  /\ UNCHANGED <<table, session, req, attempt, peak>>

(* "current_event_count = len(session.events)" *)
Count(w) ==
  LET v == watch[w]
      n == Len(session[v.sid].events)
  IN
  /\ v.at = "count"
  /\ \/ n > v.last /\ Watch(w, [v EXCEPT !.at = "slice", !.count = n])
     \/ n = v.last /\ Watch(w, [v EXCEPT !.at = "check"])
  /\ UNCHANGED <<table, session, older, req, attempt, peak>>

(* The events sent are all there are by now, and last_event_count is what  *)
(* was counted before; the mutant sends from one further on.               *)
NextPositionsLate(last, n) == (last + 2)..n
NextPositions(last, n)     == (last + 1)..n

Slice(w) ==
  LET v == watch[w] IN
  /\ v.at = "slice"
  /\ Watch(w, [v EXCEPT !.at = "check", !.last = v.count, !.count = 0,
                        !.sent = @ \union NextPositions(v.last, Len(session[v.sid].events))])
  /\ UNCHANGED <<table, session, older, req, attempt, peak>>

(* session.state.get("finished"); the mutant asks for the session first.   *)
EndedInTable(s) == s \in table /\ session[s].finished
Ended(s)        == session[s].finished

(* A finished session ends the stream; another is counted again later. *)
Check(w) ==
  LET v == watch[w] IN
  /\ v.at = "check"
  /\ Watch(w, [v EXCEPT !.at = IF Ended(v.sid) THEN "closed" ELSE "count"])
  /\ UNCHANGED <<table, session, older, req, attempt, peak>>

(* The timeout of the stream. *)
Expire(w) ==
  /\ watch[w].at = "count"
  /\ Watch(w, [watch[w] EXCEPT !.at = "closed", !.live = FALSE])
  /\ UNCHANGED <<table, session, older, req, attempt, peak>>

----------------------------------------------------------------------------

HandlerStep(r) ==
  \/ Resume(r) \/ ChooseOldest(r) \/ Evict(r) \/ Insert(r)
  \/ Answer(r) \/ TimeOut(r)
AttemptStep(r) == StartAttempt(r) \/ AddStep(r) \/ EndLoop(r) \/ EndAttempt(r)
WatchStep(w)   == Count(w) \/ Slice(w) \/ Check(w)

Next ==
  \/ \E r \in Requests : Begin(r) \/ HandlerStep(r) \/ AttemptStep(r) \/ PollChat(r)
  \/ \E w \in Watchers : Join(w) \/ WatchStep(w) \/ Expire(w)

Spec == Init /\ [][Next]_vars

(* A request's thread runs, and its wait for the pool has a timer; a       *)
(* stream's thread runs.  Nothing is assumed of agents and clients.        *)
FairSpec ==
  /\ Spec
  /\ \A r \in Requests : WF_vars(HandlerStep(r))
  /\ \A w \in Watchers : WF_vars(WatchStep(w))

----------------------------------------------------------------------------
(* Properties                                                              *)

(* The table outgrows its limit only by requests that insert at one time:  *)
(* each of them found room, or made it, before the others used it.         *)
TableBounded ==
  Cardinality(table) + Cardinality(At("insert")) < MaxSessions + Max({peak, 1})

(* A chat of a session that is still there is shown how its request ended, *)
(* whether the agent ended it or the handler's timeout did.                *)
ChatSeesItsEnd ==
  \A r \in Requests :
    req[r].seen # {} => "end" \in req[r].seen

(* A stream sends no event before those that precede it, from the point    *)
(* where it joined, although it may send one again.                        *)
StreamHasNoGaps ==
  \A w \in Watchers :
    watch[w].sent = (watch[w].base + 1)..(watch[w].base + Cardinality(watch[w].sent))

(* A user's message is lost to the agent it is meant for only when another *)
(* request on the session, begun before it came, ended after.              *)
MessageReachesItsAgent ==
  \A r \in Requests :
    attempt[r].at \in InPool \union {"done"} =>
      \/ \E k \in DOMAIN attempt[r].messages : attempt[r].messages[k] = r
      \/ \E q \in Requests \ {r} : /\ req[q].sid = req[r].sid
                                   /\ attempt[q].at \in {"completed", "stopped", "done"}
                                   /\ \A k \in DOMAIN attempt[q].messages :
                                        attempt[q].messages[k] # r

(* Every request is answered, however long its agent takes and however     *)
(* full the pool is.                                                       *)
RequestAnswered ==
  \A r \in Requests :
    req[r].at \in Serving ~> req[r].at \notin Serving

(* The stream of a finished session ends. *)
StreamEnds ==
  \A w \in Watchers :
    (watch[w].at \notin {"idle", "closed"} /\ session[watch[w].sid].finished)
      ~> watch[w].at = "closed"

(* "Surface it as a terminal event so the UI doesn't stream to 'finished'  *)
(* with nothing to show": a stream that joins a session that has not       *)
(* finished, and ends because it has, has sent an end.                     *)
StreamShowsTheEnd ==
  \A w \in Watchers :
    LET v == watch[w] IN
    v.at = "closed" /\ v.live =>
      \E p \in v.sent : session[v.sid].events[p].kind = "end"
============================================================================
