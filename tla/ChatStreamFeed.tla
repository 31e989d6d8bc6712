-------------------------- MODULE ChatStreamFeed --------------------------
(***************************************************************************)
(* A chat stream as an event feed over the log of the run it follows.      *)
(***************************************************************************)
EXTENDS ChatStream

CONSTANT Watched   (* the stream that is looked at *)

ASSUME WatchedAssumption == Watched \in Streams

FeedLog ==
  LET id == stream[Watched].id IN IF id = 0 THEN <<>> ELSE run[id].log

FeedPhase ==
  LET at == stream[Watched].at IN
  CASE at = "idle"   -> "idle"
    [] at = "closed" -> "closed"
    [] OTHER         -> "open"

Feed == INSTANCE EventFeed WITH
  log   <- FeedLog,
  base  <- 0,
  sent  <- stream[Watched].sent,
  phase <- FeedPhase

(* The stream sends the log from its start, every event once and in order, *)
(* however polls are lost and repeated (the cursor of HandleChatStream),   *)
(* and nothing after its end.                                              *)
FollowsTheFeed == Feed!FeedSpec
============================================================================
