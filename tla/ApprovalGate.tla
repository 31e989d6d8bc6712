--------------------------- MODULE ApprovalGate ---------------------------
(***************************************************************************)
(* What the human-in-the-loop gate promises to everyone outside a session: *)
(* the session runs, pauses to ask about one tool at a time, and each      *)
(* pause ends in one grant or in the end of the session.  A mutating tool  *)
(* runs only under a grant that was given for it.  Once the session is     *)
(* over nothing more is granted, although a run already granted may still  *)
(* happen late.                                                            *)
(***************************************************************************)
EXTENDS Naturals, Sequences

CONSTANTS Tools, Ids, Uses

VARIABLES
  phase,     (* "running", "paused" or "over"                              *)
  asking,    (* the tool and approval id the pause is about                *)
  granted,   (* the grants given so far                                    *)
  ran        (* the log of tool runs: tool_use block, tool, approval id    *)

gateVars == <<phase, asking, granted, ran>>

Requests == [tool : Tools, id : Ids]

GateInit ==
  /\ phase = "running"
  /\ granted = {}
  /\ ran = <<>>

(* The session asks: about a request it has never been granted. *)
Pause ==
  /\ phase = "running"
  /\ phase' = "paused"
  /\ asking' \in Requests \ granted
  /\ UNCHANGED <<granted, ran>>

(* The open request is granted; a session out of iterations ends with it. *)
Grant ==
  /\ phase = "paused"
  /\ granted' = granted \union {asking}
  /\ phase' \in {"running", "over"}
  /\ UNCHANGED <<asking, ran>>

(* A denial, a timeout, an answer or a failure. *)
End ==
  /\ phase # "over"
  /\ phase' = "over"
  /\ UNCHANGED <<asking, granted, ran>>

Run ==
  /\ \E g \in granted, u \in Uses :
       ran' = Append(ran, [use |-> u, tool |-> g.tool, id |-> g.id])
  /\ UNCHANGED <<phase, asking, granted>>

GateNext == Pause \/ Grant \/ End \/ Run

GateSpec == GateInit /\ [][GateNext]_gateVars
============================================================================
