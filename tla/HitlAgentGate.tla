--------------------------- MODULE HitlAgentGate ---------------------------
(***************************************************************************)
(* HitlAgent implements ApprovalGate: the refinement mapping.              *)
(***************************************************************************)
EXTENDS HitlAgent

GatePhase ==
  CASE pc = "waiting" -> "paused"
    [] Closed         -> "over"
    [] OTHER          -> "running"

(* The tool of a request does not change once the request is stored. *)
Asking == [tool |-> IF waitFor \in Ids THEN asked[waitFor] ELSE NoTool,
           id   |-> waitFor]

Gate == INSTANCE ApprovalGate WITH
  Uses    <- 1..MaxUses,
  phase   <- GatePhase,
  asking  <- Asking,
  granted <- grants,
  ran     <- runs

(* Seen through its pauses, grants and tool runs, a session of the agent   *)
(* is a session of the approval gate: whatever is retried, lost, raced or  *)
(* restarted, no tool runs but under a grant that ended a pause about it,  *)
(* and a pause ends in one grant at most.                                  *)
ImplementsGate == Gate!GateSpec
============================================================================
