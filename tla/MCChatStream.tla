--------------------------- MODULE MCChatStream ---------------------------
(* Model values for ChatStream and for the feed one of its streams is. *)
EXTENDS ChatStreamFeed, TLC
============================================================================
