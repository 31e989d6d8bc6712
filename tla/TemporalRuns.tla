--------------------------- MODULE TemporalRuns ---------------------------
(***************************************************************************)
(* The workflow runs that the services start on the Temporal server for    *)
(* one agent.  A workflow id is "agent-wf-<agent>-<session>" and every     *)
(* session id is minted from the clock in milliseconds, so an id stands    *)
(* for the millisecond that minted it.  A run takes longer than that, and  *)
(* the clock does not go back.                                             *)
(***************************************************************************)
EXTENDS Integers, Sequences

CONSTANTS
  MaxClock,      (* bound: milliseconds in which sessions are minted       *)
  MaxLog         (* bound: events a run emits before its last two          *)

ASSUME RunsAssumption == MaxClock \in Nat \ {0} /\ MaxLog \in Nat

VARIABLES
  clock,         (* the gateway's clock, in milliseconds                   *)
  run            (* id -> the state and the events of the id's run         *)

runVars  == <<clock, run>>

Ids      == 1..MaxClock
Terminal == {"COMPLETED", "FAILED", "TERMINATED"}
Statuses == {"none", "RUNNING"} \union Terminal
Runs     == [status : Statuses, log : Seq(Nat)]
NoRun    == [status |-> "none", log |-> <<>>]

RunsTypeOK ==
  /\ clock \in Ids \union {MaxClock + 1}
  /\ run \in [Ids -> Runs]

RunsInit ==
  /\ clock = 1
  /\ run = [id \in Ids |-> NoRun]

Tick ==
  /\ clock \in Ids
  /\ clock' = clock + 1
  /\ UNCHANGED run

(* The n-th event of a run is n: enough to tell a gap or a repetition.     *)
Numbered(log, n) == log \o [k \in 1..n |-> Len(log) + k]

(* The run of an id takes a status and emits n events. *)
MoveRun(id, status, n) ==
  run' = [run EXCEPT ![id] = [status |-> status, log |-> Numbered(@.log, n)]]

(* ExecuteWorkflow with the id of this millisecond.  An id that is in use  *)
(* is no error: the caller gets the handle of the run that has it.         *)
ExecuteWorkflow ==
  /\ clock \in Ids
  /\ MoveRun(clock, "RUNNING", 0)

(* A run is over only after the millisecond that started it. *)
Running(id) == run[id].status = "RUNNING" /\ id < clock

(* self._emit in the middle of a run. *)
EmitEvent(id) ==
  /\ Running(id)
  /\ Len(run[id].log) < MaxLog
  /\ MoveRun(id, "RUNNING", 1)
  /\ UNCHANGED clock

(* The last workflow task emits the final answer and "done" and closes the *)
(* run at once.                                                            *)
CompleteRun(id) ==
  /\ Running(id)
  /\ MoveRun(id, "COMPLETED", 2)
  /\ UNCHANGED clock

(* A set-up activity of the workflow has failed for good. *)
FailRun(id) ==
  /\ Running(id)
  /\ MoveRun(id, "FAILED", 0)
  /\ UNCHANGED clock

RunsStep ==
  \/ Tick
  \/ \E id \in Ids : EmitEvent(id) \/ CompleteRun(id) \/ FailRun(id)
============================================================================
