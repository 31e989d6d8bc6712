----------------------------- MODULE EventFeed -----------------------------
(***************************************************************************)
(* What a client that follows a session is promised: from the point where  *)
(* it joins, every event once and in the order of the session's log, with  *)
(* nothing after the end.  That the feed is complete when it ends is not   *)
(* part of the promise.                                                    *)
(***************************************************************************)
EXTENDS Naturals, SequencesExt

VARIABLES
  log,           (* the session's events                                   *)
  base,          (* how many of them were there when the client joined     *)
  sent,          (* the events the client has been sent                    *)
  phase          (* "idle", "open" or "closed"                             *)

feedVars == <<log, base, sent, phase>>

FeedInit ==
  /\ log = <<>>
  /\ base = 0
  /\ sent = <<>>
  /\ phase = "idle"

(* Events are only ever added at the end. *)
Emit ==
  /\ IsPrefix(log, log')
  /\ UNCHANGED <<base, sent, phase>>

Join ==
  /\ phase = "idle"
  /\ phase' \in {"open", "closed"}
  /\ base' = Len(log')
  /\ UNCHANGED <<log, sent>>

Segment(n) == SubSeq(log, base + 1, base + n)

(* The client is sent what comes next in the log, and the feed may end. *)
Send ==
  /\ phase = "open"
  /\ \E n \in Len(sent)..(Len(log) - base) : sent' = Segment(n)
  /\ phase' \in {"open", "closed"}
  /\ UNCHANGED <<log, base>>

(* A feed ends whatever is left to send. *)
Close ==
  /\ phase = "open"
  /\ phase' = "closed"
  /\ UNCHANGED <<log, base, sent>>

FeedNext == Emit \/ Join \/ Send \/ Close
FeedSpec == FeedInit /\ [][FeedNext]_feedVars
============================================================================
