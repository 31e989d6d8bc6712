------------------------------ MODULE ChatPage ------------------------------
(***************************************************************************)
(* The chat page of agent-studio and its module-level cache of             *)
(* conversations, for one agent.                                           *)
(*                                                                         *)
(* A message is tried over a WebSocket and, by the timeout or the error    *)
(* handler of the socket, over an SSE request.  The handlers close over    *)
(* the message they were made for and outlive the page: what one does      *)
(* after the user left reaches the gateway, but no longer the page.        *)
(* Closing a socket that is still connecting makes the browser report an   *)
(* error on it later.                                                      *)
(***************************************************************************)
EXTENDS Naturals, FiniteSets

CONSTANTS
  MaxMessages,   (* bound: messages the user sends                         *)
  MaxStimuli,    (* bound: messages sent, connections lost, pages left and *)
                 (* idle periods, together                                 *)
  IdleTicks      (* IDLE_TIMEOUT_MS, in ticks of the clock                 *)

ASSUME ChatPageAssumption ==
  /\ MaxMessages \in Nat
  /\ MaxStimuli \in Nat
  /\ IdleTicks \in Nat \ {0}

Messages == 1..MaxMessages
Channels == Messages \X (0..2)        (* 0: the socket; 1, 2: SSE requests *)
Nothing  == <<0, 0>>                  (* a ref that is null                *)

VARIABLES
  page,          (* the mounted component: its state and its refs          *)
  view,          (* Messages -> the assistant message as the page holds it *)
  cache,         (* the entry of the session cache: views and its age      *)
  owner,         (* Messages -> the visit that sent it, 0 if unsent        *)
  chan,          (* Channels -> state of the connection                    *)
  session,       (* Channels -> the backend session the message started    *)
  stimuli        (* stimuli so far                                          *)

vars == <<page, view, cache, owner, chan, session, stimuli>>

Absent   == [on |-> FALSE, streaming |-> FALSE]
NoViews  == [m \in Messages |-> Absent]
NoEntry  == [there |-> FALSE, views |-> NoViews, age |-> 0]
Live     == {"connecting", "failing", "sent", "open", "named"}
Endings  == {"done", "error", "final_answer"}
ViewType == [on : BOOLEAN, streaming : BOOLEAN]

TypeOK ==
  /\ page \in [mounted : BOOLEAN, visit : 0..(MaxStimuli + 1), streaming : BOOLEAN,
               ws : Channels \union {Nothing}, abort : Channels \union {Nothing},
               workflow : Channels \union {Nothing}]
  /\ view \in [Messages -> ViewType]
  /\ cache \in [there : BOOLEAN, views : [Messages -> ViewType], age : 0..(IdleTicks + 1)]
  /\ owner \in [Messages -> 0..(MaxStimuli + 1)]
  /\ chan \in [Channels -> Live \union {"none", "closed", "lost"}]
  /\ session \in [Channels -> {"none", "running", "over"}]
  /\ stimuli \in 0..MaxStimuli

Init ==
  /\ page = [mounted |-> FALSE, visit |-> 0, streaming |-> FALSE,
             ws |-> Nothing, abort |-> Nothing, workflow |-> Nothing]
  /\ view = NoViews
  /\ cache = NoEntry
  /\ owner = [m \in Messages |-> 0]
  /\ chan = [c \in Channels |-> "none"]
  /\ session = [c \in Channels |-> "none"]
  /\ stimuli = 0

----------------------------------------------------------------------------
Stimulus ==
  /\ stimuli < MaxStimuli
  /\ stimuli' = stimuli + 1

(* The session cache. *)
Shown(vs)      == {m \in Messages : vs[m].on}
SetSession(vs) == [there |-> TRUE, views |-> vs, age |-> 0]
Expired        == cache.age > IdleTicks
IdleLeft       == IF cache.there /\ cache.age <= IdleTicks THEN IdleTicks - cache.age ELSE 0

(* getSession, which also counts as activity. *)
GetSession == IF cache.there /\ ~Expired THEN cache.views ELSE NoViews
ReadCache  == IF cache.there /\ ~Expired THEN SetSession(cache.views) ELSE NoEntry

(* The effect on [streaming]: the conversation is saved when streaming     *)
(* goes false, with the messages of that render.                           *)
SaveWhenIdle(vs, streaming) ==
  cache' = IF page.streaming /\ ~streaming /\ Shown(vs) # {} THEN SetSession(vs) ELSE cache

CleanupInterval ==
  /\ cache.there
  /\ Expired
  /\ cache' = NoEntry
  /\ UNCHANGED <<page, view, owner, chan, session, stimuli>>

(* Time passes with no activity; each idle period is one stimulus. *)
Tick ==
  /\ cache.there
  /\ ~Expired
  /\ cache' = [cache EXCEPT !.age = @ + 1]
  /\ IF cache.age = 0 THEN Stimulus ELSE UNCHANGED stimuli
  /\ UNCHANGED <<page, view, owner, chan, session>>

(* The one-second monitor of the page: an expired conversation is wiped,   *)
(* whether or not one of its messages is still streaming.                  *)
IdleMonitor ==
  /\ page.mounted
  /\ Shown(view) # {}
  /\ IdleLeft = 0
  /\ view' = NoViews
  /\ UNCHANGED <<page, cache, owner, chan, session, stimuli>>

----------------------------------------------------------------------------
(* Connections.  Current(m): m was sent by the page that is mounted now,   *)
(* so that its handlers still reach the page's state.                      *)
Current(m) == page.mounted /\ owner[m] = page.visit

(* ws.close() and controller.abort(). *)
Closed(ch, c) ==
  IF c = Nothing \/ ch[c] \notin Live THEN ch
  ELSE [ch EXCEPT ![c] = IF @ \in {"connecting", "failing"} THEN "failing" ELSE "closed"]

(* onFallback: the message goes out over one more SSE request, whose       *)
(* controller takes the place of the one the page could abort.             *)
Fallback(m, ch) ==
  \E k \in 1..2 :
    /\ chan[<<m, k>>] = "none"
    /\ k = 2 => chan[<<m, 1>>] # "none"
    /\ chan' = [ch EXCEPT ![<<m, k>>] = "sent"]
    /\ page' = IF Current(m) THEN [page EXCEPT !.abort = <<m, k>>] ELSE page

(* sendMessage: the button and the Enter key work only while not streaming. *)
SendMessage(m) ==
  /\ page.mounted
  /\ ~page.streaming
  /\ Stimulus
  /\ owner[m] = 0 /\ \A n \in 1..(m - 1) : owner[n] # 0
  /\ owner' = [owner EXCEPT ![m] = page.visit]
  /\ view' = [view EXCEPT ![m] = [on |-> TRUE, streaming |-> TRUE]]
  /\ cache' = SetSession(view')
  /\ page' = [page EXCEPT !.streaming = TRUE, !.ws = <<m, 0>>]
  /\ chan' = [chan EXCEPT ![<<m, 0>>] = "connecting"]
  /\ UNCHANGED session

(* ws.onopen: the message is sent, the gateway starts a session. *)
OnOpen(m) ==
  /\ chan[<<m, 0>>] = "connecting"
  /\ chan' = [chan EXCEPT ![<<m, 0>>] = "open"]
  /\ session' = [session EXCEPT ![<<m, 0>>] = "running"]
  /\ UNCHANGED <<page, view, cache, owner, stimuli>>

(* A mutant of ConnectTimeout that leaves the socket connecting. *)
ConnectTimeoutLeavesIt(m) ==
  /\ chan[<<m, 0>>] = "connecting"
  /\ Fallback(m, chan)
  /\ UNCHANGED <<view, cache, owner, session, stimuli>>

(* The two-second timer of a socket that is still connecting. *)
ConnectTimeout(m) ==
  /\ chan[<<m, 0>>] = "connecting"
  /\ Fallback(m, Closed(chan, <<m, 0>>))
  /\ UNCHANGED <<view, cache, owner, session, stimuli>>

(* A mutant of OnError that forgets the fallback. *)
OnErrorOnly(m) ==
  /\ chan[<<m, 0>>] \in {"connecting", "failing"}
  /\ chan' = [chan EXCEPT ![<<m, 0>>] = "closed"]
  /\ UNCHANGED <<page, view, cache, owner, session, stimuli>>

(* ws.onerror: the connection cannot be made, was closed while it was      *)
(* being made, or (a fault) broke after it was open.                       *)
OnError(m) ==
  LET c == <<m, 0>> IN
  /\ \/ chan[c] \in {"connecting", "failing"} /\ UNCHANGED stimuli
     \/ chan[c] \in {"open", "named"} /\ Stimulus
  /\ Fallback(m, [chan EXCEPT ![c] = "closed"])
  /\ UNCHANGED <<view, cache, owner, session>>

(* The peer closes an open socket without an error: nothing handles it. *)
SilentClose(m) ==
  /\ chan[<<m, 0>>] \in {"open", "named"}
  /\ Stimulus
  /\ chan' = [chan EXCEPT ![<<m, 0>>] = "lost"]
  /\ UNCHANGED <<page, view, cache, owner, session>>

(* The POST of an SSE request reaches the gateway, which starts a session. *)
RequestArrives(c) ==
  /\ chan[c] = "sent"
  /\ session[c] = "none"
  /\ session' = [session EXCEPT ![c] = "running"]
  /\ UNCHANGED <<page, view, cache, owner, chan, stimuli>>

ResponseOpens(c) ==
  /\ chan[c] = "sent"
  /\ session[c] # "none"
  /\ chan' = [chan EXCEPT ![c] = "open"]
  /\ UNCHANGED <<page, view, cache, owner, session, stimuli>>

(* The session event: the page keeps the workflow for Stop and New Chat. *)
SessionEvent(c) ==
  /\ chan[c] = "open"
  /\ chan' = [chan EXCEPT ![c] = "named"]
  /\ page' = IF Current(c[1]) THEN [page EXCEPT !.workflow = c] ELSE page
  /\ UNCHANGED <<view, cache, owner, session, stimuli>>

(* What an event does to the message it belongs to, if the page still      *)
(* holds it: only done and error end the message.                          *)
Received(v, e) ==
  IF v.on /\ e \in {"done", "error"} THEN [v EXCEPT !.streaming = FALSE] ELSE v

(* The page after its handlers of message m have run. *)
PageGets(m, v, streaming) ==
  IF Current(m)
  THEN /\ view' = [view EXCEPT ![m] = v]
       /\ page' = [page EXCEPT !.streaming = streaming]
       /\ SaveWhenIdle(view', streaming)
  ELSE UNCHANGED <<view, page, cache>>

(* A mutant of OnMessage that re-enables the input at done only. *)
OnMessageUntilDone(c, e) ==
  /\ chan[c] = "named"
  /\ PageGets(c[1], Received(view[c[1]], e), page.streaming /\ e # "done")
  /\ chan' = [chan EXCEPT ![c] = "closed"]
  /\ session' = IF e = "done" THEN [session EXCEPT ![c] = "over"] ELSE session
  /\ UNCHANGED <<owner, stimuli>>

(* ws.onmessage and the loop over the lines of an SSE response: the first  *)
(* of done, error and final_answer ends both.  Only done says that the     *)
(* session is over.  Text and the other events change what a message       *)
(* shows, and nothing this module tells apart.                             *)
OnMessage(c, e) ==
  /\ chan[c] \in {"open", "named"}
  /\ e # "error" => chan[c] = "named"
  /\ PageGets(c[1], Received(view[c[1]], e), FALSE)
  /\ chan' = [chan EXCEPT ![c] = "closed"]
  /\ session' = IF e = "done" THEN [session EXCEPT ![c] = "over"] ELSE session
  /\ UNCHANGED <<owner, stimuli>>

(* An SSE response ends without done or error; it breaks (a fault); the    *)
(* request itself fails, whether or not it was served.                     *)
StreamEnds(c) ==
  /\ c[2] # 0
  /\ \/ /\ chan[c] \in {"open", "named"}
        /\ PageGets(c[1], view[c[1]], FALSE)
        /\ UNCHANGED stimuli
     \/ /\ chan[c] \in {"open", "named", "sent"}
        /\ Stimulus
        /\ PageGets(c[1], Received(view[c[1]], "error"), FALSE)
  /\ chan' = [chan EXCEPT ![c] = "closed"]
  /\ UNCHANGED <<owner, session>>

----------------------------------------------------------------------------
(* Stop, New Chat, leaving and coming back. *)
(* stopStreaming.  The terminate request names the workflow of the last    *)
(* session event the page saw; its answer is ignored, so that it is taken  *)
(* to arrive at once or to be lost.                                        *)
StopChannels ==
  /\ chan' = Closed(Closed(chan, page.abort), page.ws)
  /\ \/ /\ session' = IF page.workflow = Nothing THEN session
                       ELSE [session EXCEPT ![page.workflow] = "over"]
        /\ UNCHANGED stimuli
     \/ /\ page.workflow # Nothing
        /\ Stimulus
        /\ UNCHANGED session
  /\ page' = [page EXCEPT !.streaming = FALSE, !.ws = Nothing, !.abort = Nothing,
                          !.workflow = Nothing]

Stop ==
  /\ page.mounted
  /\ page.streaming
  /\ StopChannels
  /\ view' = [m \in Messages |-> [view[m] EXCEPT !.streaming = FALSE]]
  /\ SaveWhenIdle(view', FALSE)
  /\ UNCHANGED owner

(* A mutant of NewChat that keeps the cached conversation. *)
NewChatKeepingCache ==
  /\ page.mounted
  /\ StopChannels
  /\ view' = NoViews
  /\ UNCHANGED <<cache, owner>>

NewChat ==
  /\ page.mounted
  /\ StopChannels
  /\ view' = NoViews
  /\ cache' = NoEntry
  /\ UNCHANGED owner

(* The page is left: the cleanup closes the socket, an SSE request runs on. *)
Leave ==
  /\ page.mounted
  /\ Stimulus
  /\ chan' = Closed(chan, page.ws)
  /\ page' = [page EXCEPT !.mounted = FALSE, !.streaming = FALSE, !.ws = Nothing,
                          !.abort = Nothing, !.workflow = Nothing]
  /\ view' = NoViews
  /\ UNCHANGED <<cache, owner, session>>

(* The page is opened: useState(() => getSession(id)), and the effect of   *)
(* the first render saves what it found.                                   *)
Open ==
  /\ ~page.mounted
  /\ page' = [page EXCEPT !.mounted = TRUE, !.visit = @ + 1]
  /\ view' = GetSession
  /\ cache' = ReadCache
  /\ UNCHANGED <<owner, chan, session, stimuli>>

Settles(m) == OnOpen(m) \/ ConnectTimeout(m) \/ OnError(m)
Delivers(c) == RequestArrives(c) \/ ResponseOpens(c) \/ SessionEvent(c)
Finishes(c) == (\E e \in Endings : OnMessage(c, e)) \/ StreamEnds(c)

Next ==
  \/ CleanupInterval \/ Tick \/ IdleMonitor
  \/ Stop \/ NewChat \/ Leave \/ Open
  \/ \E m \in Messages : SendMessage(m) \/ Settles(m) \/ SilentClose(m)
  \/ \E c \in Channels : Delivers(c) \/ Finishes(c)

Spec == Init /\ [][Next]_vars

(* The browser settles a connection, the gateway serves a request and ends *)
(* a stream (the run "stream" of the gateway shows that it does).  Nobody  *)
(* has to send, stop, leave or come back.                                  *)
Fairness ==
  /\ WF_vars(\E m \in Messages : Settles(m))
  /\ WF_vars(\E c \in Channels : Delivers(c) \/ Finishes(c))

FairSpec == Spec /\ Fairness

----------------------------------------------------------------------------
SessionsOf(m) == {k \in 0..2 : session[<<m, k>>] # "none"}

(* One press of Send starts at most two backend sessions: the timeout and  *)
(* the error handler each make one request, but never both of them after   *)
(* the socket has carried the message.                                     *)
AtMostTwoSessions ==
  \A m \in Messages :
    /\ Cardinality(SessionsOf(m)) <= 2
    /\ 0 \in SessionsOf(m) => 2 \notin SessionsOf(m)

(* While the input is disabled, a connection of a message this page sent   *)
(* is still to end, or its socket went away in silence: no interleaving of *)
(* a timeout, a fallback and a Stop leaves the user locked out otherwise.  *)
WaitsForAConnection ==
  page.streaming =>
    \E c \in Channels : Current(c[1]) /\ chan[c] \in Live \union {"lost"}

(* As long as the cached conversation is fresh, the page that is open      *)
(* holds exactly the messages a later visit would read back.               *)
PageMatchesCache ==
  page.mounted /\ cache.there /\ cache.age < IdleTicks => Shown(view) = Shown(cache.views)

(* The input comes back: a page that is streaming stops streaming, is left *)
(* or has had its socket closed in silence.                                *)
InputComesBack ==
  page.streaming ~>
    (~page.streaming \/ \E m \in Messages : Current(m) /\ chan[<<m, 0>>] = "lost")
============================================================================
