---------------------------- MODULE ChatStream ----------------------------
(***************************************************************************)
(* The chat streams of api-gateway (SSE, WebSocket and the manifest        *)
(* assistant run the same loop) over the poll endpoint of                  *)
(* workflow-initiator.                                                     *)
(*                                                                         *)
(* A handler mints a session id, has the initiator start the run, and      *)
(* polls every 50 ms.  A poll asks Temporal twice, first the workflow for  *)
(* its events and then the server for its status, and the run goes on in   *)
(* between.  When the first question fails, the poll takes the session for *)
(* one of the direct executor.  The client may ask for the run to be       *)
(* terminated.                                                             *)
(***************************************************************************)
EXTENDS TemporalRuns, SequencesExt

CONSTANTS
  Streams,       (* the chats of one agent                                 *)
  MaxFaults      (* bound: infrastructure faults                           *)

ASSUME StreamAssumption == MaxFaults \in Nat

VARIABLES
  stream,        (* Streams -> the handler's local state                   *)
  faults         (* FaultKinds -> how often each fault has happened        *)

vars == <<runVars, stream, faults>>

FaultKinds == {"start_reply_lost", "query_failed", "describe_failed", "poll_lost"}
Answering  == {"describe", "fallback", "reply"}
Open       == {"poll"} \union Answering
Ends       == Terminal \union {"none", "refused", "left"}

StreamStates ==
  [at     : {"idle", "closed"} \union Open,
   id     : Ids \union {0},              (* session.WorkflowID             *)
   cursor : Nat,
   events : Seq(Nat),                    (* pr.Events                      *)
   status : Statuses \union {"UNKNOWN"}, (* pr.Status                      *)
   sent   : Seq(Nat),                    (* written to the client          *)
   end    : Ends,                        (* why the stream closed          *)
   stop   : {"none", "asked", "done", "failed"}]  (* the client's stop      *)

TypeOK ==
  /\ RunsTypeOK
  /\ stream \in [Streams -> StreamStates]
  /\ faults \in [FaultKinds -> Nat]

Init ==
  /\ RunsInit
  /\ stream = [i \in Streams |->
       [at |-> "idle", id |-> 0, cursor |-> 0, events |-> <<>>, status |-> "none",
        sent |-> <<>>, end |-> "none", stop |-> "none"]]
  /\ faults = [k \in FaultKinds |-> 0]

Fault(kind) ==
  /\ SumFunction(faults) < MaxFaults
  /\ faults' = [faults EXCEPT ![kind] = @ + 1]

Move(i, s) == stream' = [stream EXCEPT ![i] = s]

(* Each turn of the loop decodes its poll into a new PollResponse. *)
NextPoll(s) == [s EXCEPT !.at = "poll", !.events = <<>>, !.status = "none"]

(* POST /api/v1/sessions.  The stream opens on 201; any other answer, and  *)
(* an answer that is lost after the run was started, ends the chat.        *)
Start(i) ==
  LET s == stream[i] IN
  /\ s.at = "idle"
  /\ \/ /\ ExecuteWorkflow
        /\ Move(i, [s EXCEPT !.at = "poll", !.id = clock])
        /\ UNCHANGED faults
     \/ /\ ExecuteWorkflow
        /\ Fault("start_reply_lost")
        /\ Move(i, [s EXCEPT !.at = "closed", !.end = "refused"])
     \/ /\ Fault("start_reply_lost")
        /\ Move(i, [s EXCEPT !.at = "closed", !.end = "refused"])
        /\ UNCHANGED run
  /\ UNCHANGED clock

(* all[from:], or no events when there are none beyond the cursor; the     *)
(* mutant holds the newest event back.                                     *)
NewEventsLate(log, from) == SubSeq(log, from + 1, Len(log) - 1)
NewEvents(log, from) == SubSeq(log, from + 1, Len(log))

(* The query "get_events" is answered by the workflow. *)
QueryEvents(i) ==
  LET s == stream[i] IN
  /\ s.at = "poll"
  /\ Move(i, [s EXCEPT !.at = "describe",
                       !.events = NewEvents(run[s.id].log, s.cursor)])
  /\ UNCHANGED <<runVars, faults>>

(* No worker answers the query in time, or Temporal is out of reach. *)
QueryFails(i) ==
  /\ stream[i].at = "poll"
  /\ Fault("query_failed")
  /\ Move(i, [stream[i] EXCEPT !.at = "fallback"])
  /\ UNCHANGED runVars

(* The status of a poll whose describe fails; the mutant calls the run     *)
(* failed.                                                                 *)
UndescribedFailed == "FAILED"
Undescribed       == "UNKNOWN"

(* DescribeWorkflowExecution. *)
Describe(i) ==
  LET s == stream[i] IN
  /\ s.at = "describe"
  /\ \/ /\ Move(i, [s EXCEPT !.at = "reply", !.status = run[s.id].status])
        /\ UNCHANGED faults
     \/ /\ Fault("describe_failed")
        /\ Move(i, [s EXCEPT !.at = "reply", !.status = Undescribed])
  /\ UNCHANGED runVars

(* The direct executor does not know the id: its 404 body decodes to no    *)
(* events, and what it answers counts as completed.  Or it is unreachable, *)
(* and the 404 of the poll does not decode: the gateway polls again.       *)
Fallback(i) ==
  LET s == stream[i] IN
  /\ s.at = "fallback"
  /\ \/ Move(i, [s EXCEPT !.at = "reply", !.events = <<>>, !.status = "COMPLETED"])
     \/ Move(i, NextPoll(s))
  /\ UNCHANGED <<runVars, faults>>

(* The gateway's HTTP client gives up on the poll, or its answer is lost. *)
PollLost(i) ==
  /\ stream[i].at \in Answering
  /\ Fault("poll_lost")
  /\ Move(i, NextPoll(stream[i]))
  /\ UNCHANGED runVars

(* The handler's map of terminal statuses; the mutant has lost an entry.   *)
EndsOnAllButFailed == Terminal \ {"FAILED"}
EndsOn             == Terminal

(* writeEvent and cursor++ for each event; the mutant does not count.      *)
WriteUncounted(s, events) == [s EXCEPT !.sent = @ \o events]
Write(s, events) == [s EXCEPT !.sent = @ \o events, !.cursor = @ + Len(events)]

(* The events are written, and a terminal status ends the stream. *)
Deliver(i) ==
  LET s == stream[i] IN
  /\ s.at = "reply"
  /\ \/ /\ s.status \in EndsOn
        /\ Move(i, [Write(s, s.events) EXCEPT !.at = "closed", !.end = s.status])
     \/ /\ s.status \notin EndsOn
        /\ Move(i, NextPoll(Write(s, s.events)))
  /\ UNCHANGED <<runVars, faults>>

(* r.Context().Done(): the client has gone. *)
Leave(i) ==
  /\ stream[i].at = "poll"
  /\ Move(i, [stream[i] EXCEPT !.at = "closed", !.end = "left"])
  /\ UNCHANGED <<runVars, faults>>

(* HandleChatWS ends when a write fails, in the middle of a poll's events. *)
WriteFails(i) ==
  LET s == stream[i] IN
  /\ s.at = "reply"
  /\ \E n \in 0..(Len(s.events) - 1) :
       Move(i, [Write(s, SubSeq(s.events, 1, n)) EXCEPT !.at = "closed", !.end = "left"])
  /\ UNCHANGED <<runVars, faults>>

StreamStep(i) ==
  QueryEvents(i) \/ Describe(i) \/ Fallback(i) \/ Deliver(i)

(* The client presses stop while its stream is open. *)
AskStop(i) ==
  /\ stream[i].at \in Open
  /\ stream[i].stop = "none"
  /\ Move(i, [stream[i] EXCEPT !.stop = "asked"])
  /\ UNCHANGED <<runVars, faults>>

(* TerminateWorkflow *)
TerminateRun(id) == MoveRun(id, "TERMINATED", 0)

(* HandleTerminateSession: Temporal refuses to terminate a closed run, and *)
(* that is a 500.                                                          *)
Terminate(i) ==
  LET s == stream[i] IN
  /\ s.stop = "asked"
  /\ \/ /\ Running(s.id)
        /\ TerminateRun(s.id)
        /\ Move(i, [s EXCEPT !.stop = "done"])
     \/ /\ run[s.id].status # "RUNNING"
        /\ Move(i, [s EXCEPT !.stop = "failed"])
        /\ UNCHANGED run
  /\ UNCHANGED <<clock, faults>>

RunsMove == RunsStep /\ UNCHANGED <<stream, faults>>

Next ==
  \/ RunsMove
  \/ \E i \in Streams : \/ Start(i) \/ StreamStep(i) \/ QueryFails(i)
                        \/ PollLost(i) \/ Leave(i) \/ WriteFails(i)
                        \/ AskStop(i) \/ Terminate(i)

Spec == Init /\ [][Next]_vars

(* The gateway's loop and the initiator's handler keep running, and every  *)
(* call they make returns or times out.  Nothing is assumed of the runs,   *)
(* of the clock or of the clients.                                         *)
FairSpec == Spec /\ \A i \in Streams : WF_vars(StreamStep(i))

----------------------------------------------------------------------------
(* Properties                                                              *)

(* A stream that ends with FAILED or TERMINATED follows a run that ended   *)
(* so, and one that ends with COMPLETED follows a completed run unless a   *)
(* query failed: the poll maps a failed query to COMPLETED.                *)
ClosedByStatus ==
  \A i \in Streams :
    LET s == stream[i] IN
    /\ s.end \in {"FAILED", "TERMINATED"} => run[s.id].status = s.end
    /\ s.end = "COMPLETED" =>
         run[s.id].status = "COMPLETED" \/ faults["query_failed"] > 0

(* Once a run has closed, the streams that follow it end. *)
StreamCloses ==
  \A i \in Streams :
    (stream[i].at \in Open /\ run[stream[i].id].status \in Terminal)
      ~> stream[i].at = "closed"

(* What a run has emitted reaches every stream that does not end before.   *)
EventsArrive ==
  \A i \in Streams : \A n \in 1..(MaxLog + 2) :
    (stream[i].at \in Open /\ Len(run[stream[i].id].log) >= n)
      ~> (Len(stream[i].sent) >= n \/ stream[i].at = "closed")

(* "HandlePollSession returns both events (from cursor) and workflow       *)
(* status in a single response", and the gateway ends the stream on that   *)
(* status: a stream that ends with COMPLETED has sent the whole log, the   *)
(* final answer included.  The events are read before the status, so it    *)
(* has not.                                                                *)
FinalAnswerSent ==
  \A i \in Streams :
    LET s == stream[i] IN
    s.end = "COMPLETED" /\ faults["query_failed"] = 0 => s.sent = run[s.id].log

(* "Check if workflow is terminal": a stream the handler ends on a         *)
(* terminal status follows a run that is over.  One failed query is enough *)
(* for it not to be.                                                       *)
EndsWithItsRun ==
  \A i \in Streams :
    stream[i].end \in Terminal => run[stream[i].id].status \in Terminal
============================================================================
