----------------------- MODULE ChatAndApprovalProofs ------------------------
(***************************************************************************)
(* Proofs about the pages of agent-studio that follow a running agent: the *)
(* chat page, for any number of messages, visits and faults and any idle   *)
(* timeout, and the two places where its tool requests are decided, for    *)
(* any requests, tenants, polls and clicks.                                *)
(***************************************************************************)
EXTENDS ChatPage, ApprovalReview, FiniteSetTheorems, TLAPS

(* The types need to know that each visit but the open one was left, which *)
(* is what the bound on stimuli bounds.                                    *)
Visits == page.visit <= stimuli + (IF page.mounted THEN 1 ELSE 0)

PageType ==
  [mounted : BOOLEAN, visit : 0..(MaxStimuli + 1), streaming : BOOLEAN,
   ws : Channels \union {Nothing}, abort : Channels \union {Nothing},
   workflow : Channels \union {Nothing}]
CacheType == [there : BOOLEAN, views : [Messages -> ViewType], age : 0..(IdleTicks + 1)]
ChanStates == Live \union {"none", "closed", "lost"}

TypeInv == TypeOK /\ Visits

LEMMA TypeInvParts ==
  TypeInv <=> /\ page \in PageType
              /\ view \in [Messages -> ViewType]
              /\ cache \in CacheType
              /\ owner \in [Messages -> 0..(MaxStimuli + 1)]
              /\ chan \in [Channels -> ChanStates]
              /\ session \in [Channels -> {"none", "running", "over"}]
              /\ stimuli \in 0..MaxStimuli
              /\ Visits
  BY DEF TypeInv, TypeOK, PageType, CacheType, ChanStates

(* The parts of a step.                                                    *)
LEMMA ChannelFacts ==
  /\ \A m \in Messages, k \in 0..2 : <<m, k>> \in Channels
  /\ \A c \in Channels : c[1] \in Messages /\ c[2] \in 0..2 /\ c = <<c[1], c[2]>>
  /\ Nothing \notin Channels
  BY ChatPageAssumption DEF Channels, Nothing, Messages

LEMMA CacheFacts ==
  /\ NoViews \in [Messages -> ViewType]
  /\ NoEntry \in CacheType
  /\ \A vs \in [Messages -> ViewType] : SetSession(vs) \in CacheType
  BY ChatPageAssumption DEF NoViews, Absent, ViewType, NoEntry, CacheType, SetSession

LEMMA StimulusType ==
  ASSUME stimuli \in 0..MaxStimuli, Stimulus \/ UNCHANGED stimuli
  PROVE  stimuli' \in 0..MaxStimuli /\ stimuli <= stimuli'
  BY ChatPageAssumption DEF Stimulus

(* Closing a channel: a live one goes on failing or is closed, every other *)
(* one stays as it is.                                                     *)
LEMMA ClosedFacts ==
  ASSUME NEW ch \in [Channels -> ChanStates], NEW c \in Channels \union {Nothing}
  PROVE  /\ Closed(ch, c) \in [Channels -> ChanStates]
         /\ \A d \in Channels :
              \/ Closed(ch, c)[d] = ch[d]
              \/ ch[d] \in {"connecting", "failing"} /\ Closed(ch, c)[d] = "failing"
              \/ ch[d] \in {"sent", "open", "named"} /\ Closed(ch, c)[d] = "closed"
<1>1. CASE c = Nothing \/ ch[c] \notin Live
  BY <1>1 DEF Closed
<1>2. CASE c \in Channels /\ ch[c] \in Live
  <2>1. CASE ch[c] \in {"connecting", "failing"}
    <3>1. Closed(ch, c) = [ch EXCEPT ![c] = "failing"]
      BY <1>2, <2>1, ChannelFacts DEF Closed
    <3>2. QED
      BY <1>2, <2>1, <3>1 DEF ChanStates, Live
  <2>2. CASE ch[c] \in {"sent", "open", "named"}
    <3>1. Closed(ch, c) = [ch EXCEPT ![c] = "closed"]
      BY <1>2, <2>2, ChannelFacts DEF Closed
    <3>2. QED
      BY <1>2, <2>2, <3>1 DEF ChanStates, Live
  <2>3. QED
    BY <1>2, <2>1, <2>2 DEF Live
<1>3. QED
  BY <1>1, <1>2, ChannelFacts

LEMMA FallbackFacts ==
  ASSUME TypeInv, NEW m \in Messages, NEW ch \in [Channels -> ChanStates], Fallback(m, ch)
  PROVE  /\ chan' \in [Channels -> ChanStates]
         /\ page' \in PageType
         /\ page'.mounted = page.mounted /\ page'.visit = page.visit
         /\ page'.streaming = page.streaming /\ page'.workflow = page.workflow
         /\ \E k \in 1..2 : /\ chan[<<m, k>>] = "none"
                            /\ k = 2 => chan[<<m, 1>>] # "none"
                            /\ chan'[<<m, k>>] = "sent"
                            /\ \A d \in Channels : d # <<m, k>> => chan'[d] = ch[d]
<1>1. page \in PageType
  BY TypeInvParts
<1>2. PICK k \in 1..2 :
        /\ chan[<<m, k>>] = "none"
        /\ k = 2 => chan[<<m, 1>>] # "none"
        /\ chan' = [ch EXCEPT ![<<m, k>>] = "sent"]
        /\ page' = IF Current(m) THEN [page EXCEPT !.abort = <<m, k>>] ELSE page
  BY DEF Fallback
<1>3. <<m, k>> \in Channels
  BY <1>2 DEF Channels
<1>4. chan' \in [Channels -> ChanStates] /\ chan'[<<m, k>>] = "sent"
      /\ \A d \in Channels : d # <<m, k>> => chan'[d] = ch[d]
  BY <1>2, <1>3 DEF ChanStates, Live
<1>5. /\ page' \in PageType
      /\ page'.mounted = page.mounted /\ page'.visit = page.visit
      /\ page'.streaming = page.streaming /\ page'.workflow = page.workflow
  BY <1>1, <1>2, <1>3 DEF PageType
<1>6. QED
  BY <1>2, <1>4, <1>5

(* What the handlers of one message do to the page. *)
LEMMA PageGetsFacts ==
  ASSUME TypeInv, NEW m \in Messages, NEW v \in ViewType, v.on = view[m].on,
         NEW s \in BOOLEAN, s => page.streaming, PageGets(m, v, s)
  PROVE  /\ page' \in PageType /\ view' \in [Messages -> ViewType] /\ cache' \in CacheType
         /\ page'.mounted = page.mounted /\ page'.visit = page.visit
         /\ page'.workflow = page.workflow
         /\ page'.streaming = (IF Current(m) THEN s ELSE page.streaming)
         /\ Shown(view') = Shown(view)
         /\ cache' = cache \/ cache' = SetSession(view')
<1>1. page \in PageType /\ view \in [Messages -> ViewType] /\ cache \in CacheType
  BY TypeInvParts
<1>2. CASE Current(m)
  <2>1. view' = [view EXCEPT ![m] = v] /\ page' = [page EXCEPT !.streaming = s]
        /\ SaveWhenIdle(view', s)
    BY <1>2 DEF PageGets
  <2>2. view' \in [Messages -> ViewType] /\ Shown(view') = Shown(view)
    BY <1>1, <2>1 DEF Shown
  <2>3. cache' = cache \/ cache' = SetSession(view')
    BY <2>1 DEF SaveWhenIdle
  <2>4. QED
    BY <1>1, <1>2, <2>1, <2>2, <2>3, CacheFacts DEF PageType
<1>3. CASE ~Current(m)
  BY <1>1, <1>3 DEF PageGets
<1>4. QED
  BY <1>2, <1>3

LEMMA ReceivedFacts ==
  ASSUME NEW v \in ViewType, NEW e
  PROVE  Received(v, e) \in ViewType /\ Received(v, e).on = v.on
  BY DEF Received, ViewType

LEMMA StopChannelsFacts ==
  ASSUME TypeInv, StopChannels
  PROVE  /\ chan' \in [Channels -> ChanStates]
         /\ \A d \in Channels :
              \/ chan'[d] = chan[d]
              \/ chan[d] \in {"connecting", "failing"} /\ chan'[d] = "failing"
              \/ chan[d] \in {"sent", "open", "named"} /\ chan'[d] = "closed"
         /\ page' \in PageType /\ ~page'.streaming
         /\ page'.mounted = page.mounted /\ page'.visit = page.visit
         /\ page'.workflow = Nothing
         /\ stimuli' \in 0..MaxStimuli /\ stimuli <= stimuli'
         /\ \/ session' = session
            \/ page.workflow \in Channels /\ session' = [session EXCEPT ![page.workflow] = "over"]
<1>1. page \in PageType /\ chan \in [Channels -> ChanStates] /\ stimuli \in 0..MaxStimuli
  BY TypeInvParts
<1>2. page.ws \in Channels \union {Nothing} /\ page.abort \in Channels \union {Nothing}
      /\ page.workflow \in Channels \union {Nothing}
  BY <1>1 DEF PageType
<1> DEFINE mid == Closed(chan, page.abort)
<1>3. /\ mid \in [Channels -> ChanStates]
      /\ \A d \in Channels :
           \/ mid[d] = chan[d]
           \/ chan[d] \in {"connecting", "failing"} /\ mid[d] = "failing"
           \/ chan[d] \in {"sent", "open", "named"} /\ mid[d] = "closed"
  BY <1>1, <1>2, ClosedFacts
<1>4. chan' = Closed(mid, page.ws)
  BY DEF StopChannels
<1> HIDE DEF mid
<1>5. /\ chan' \in [Channels -> ChanStates]
      /\ \A d \in Channels :
           \/ chan'[d] = mid[d]
           \/ mid[d] \in {"connecting", "failing"} /\ chan'[d] = "failing"
           \/ mid[d] \in {"sent", "open", "named"} /\ chan'[d] = "closed"
  BY <1>2, <1>3, <1>4, ClosedFacts
<1>6. \A d \in Channels :
        \/ chan'[d] = chan[d]
        \/ chan[d] \in {"connecting", "failing"} /\ chan'[d] = "failing"
        \/ chan[d] \in {"sent", "open", "named"} /\ chan'[d] = "closed"
  BY <1>3, <1>5
<1>7. page' = [page EXCEPT !.streaming = FALSE, !.ws = Nothing, !.abort = Nothing,
                           !.workflow = Nothing]
  BY DEF StopChannels
<1>8. page' \in PageType /\ ~page'.streaming /\ page'.mounted = page.mounted
      /\ page'.visit = page.visit /\ page'.workflow = Nothing
  BY <1>1, <1>7 DEF PageType
<1>9. Stimulus \/ UNCHANGED stimuli
  BY DEF StopChannels
<1>10. \/ session' = session
       \/ page.workflow \in Channels /\ session' = [session EXCEPT ![page.workflow] = "over"]
  BY <1>2 DEF StopChannels
<1>11. QED
  BY <1>1, <1>5, <1>6, <1>8, <1>9, <1>10, StimulusType

----------------------------------------------------------------------------
(* Type correctness.                                                       *)

LEMMA ChatInitType == Init => TypeInv
<1> SUFFICES ASSUME Init PROVE TypeInv
  OBVIOUS
<1>1. page \in PageType /\ Visits
  BY ChatPageAssumption DEF Init, PageType, Visits
<1>2. QED
  BY <1>1, TypeInvParts, CacheFacts, ChatPageAssumption DEF Init, ChanStates

(* A step that only ever moves the visit and the stimuli forward together. *)
LEMMA TypeSame ==
  ASSUME TypeInv,
         page' \in PageType, page'.mounted = page.mounted, page'.visit = page.visit,
         view' \in [Messages -> ViewType],
         cache' \in CacheType,
         owner' \in [Messages -> 0..(MaxStimuli + 1)],
         chan' \in [Channels -> ChanStates],
         session' \in [Channels -> {"none", "running", "over"}],
         stimuli' \in 0..MaxStimuli, stimuli <= stimuli'
  PROVE  TypeInv'
<1>1. page \in PageType /\ stimuli \in 0..MaxStimuli /\ Visits
  BY TypeInvParts
<1>2. page.visit \in Nat /\ stimuli \in Nat /\ stimuli' \in Nat
  BY <1>1, ChatPageAssumption DEF PageType
<1>3. Visits'
  BY <1>1, <1>2 DEF Visits
<1>4. QED
  BY <1>3 DEF TypeInv, TypeOK, PageType, CacheType, ChanStates

LEMMA ClockType ==
  ASSUME TypeInv, CleanupInterval \/ Tick \/ IdleMonitor
  PROVE  TypeInv'
<1>1. cache \in CacheType /\ stimuli \in 0..MaxStimuli /\ stimuli \in Nat
  BY TypeInvParts, ChatPageAssumption
<1>2. CASE CleanupInterval
  BY <1>1, <1>2, TypeInvParts, TypeSame, CacheFacts DEF CleanupInterval
<1>3. CASE Tick
  <2>1. cache' \in CacheType
    <3>1. cache.age \in Nat /\ cache.age <= IdleTicks
      BY <1>1, <1>3, ChatPageAssumption DEF Tick, Expired, CacheType
    <3>2. cache.age + 1 \in 0..(IdleTicks + 1)
      BY <3>1, ChatPageAssumption
    <3>3. cache' = [cache EXCEPT !.age = cache.age + 1]
      BY <1>3 DEF Tick
    <3>4. QED
      BY <1>1, <3>2, <3>3 DEF CacheType
  <2>2. stimuli' \in 0..MaxStimuli /\ stimuli <= stimuli'
    BY <1>1, <1>3, StimulusType DEF Tick
  <2>3. QED
    BY <1>3, <2>1, <2>2, TypeInvParts, TypeSame DEF Tick
<1>4. CASE IdleMonitor
  <2>1. /\ page' = page /\ cache' = cache /\ owner' = owner /\ chan' = chan
        /\ session' = session /\ stimuli' = stimuli /\ view' = NoViews
    BY <1>4 DEF IdleMonitor
  <2>2. view' \in [Messages -> ViewType]
    BY <2>1, CacheFacts
  <2>3. QED
    BY <1>1, <2>1, <2>2, TypeInvParts, TypeSame
<1>5. QED
  BY <1>2, <1>3, <1>4

LEMMA SendType ==
  ASSUME TypeInv, NEW m \in Messages, SendMessage(m)
  PROVE  TypeInv'
<1>0. <<m, 0>> \in Channels
  BY DEF Channels
<1>1. page \in PageType /\ <<m, 0>> \in Channels
  BY <1>0, TypeInvParts
<1>2. page' \in PageType /\ page'.mounted = page.mounted /\ page'.visit = page.visit
  BY <1>1 DEF SendMessage, PageType
<1>3. view' \in [Messages -> ViewType] /\ cache' \in CacheType
  <2>1. view' \in [Messages -> ViewType]
    BY TypeInvParts DEF SendMessage, ViewType
  <2>2. QED
    BY <2>1, CacheFacts DEF SendMessage
<1>4. owner' \in [Messages -> 0..(MaxStimuli + 1)]
  BY <1>1, TypeInvParts DEF SendMessage, PageType
<1>5. chan' \in [Channels -> ChanStates]
  BY <1>1, TypeInvParts DEF SendMessage, ChanStates, Live
<1>6. stimuli' \in 0..MaxStimuli /\ stimuli <= stimuli'
  BY TypeInvParts, StimulusType DEF SendMessage
<1>7. QED
  BY <1>2, <1>3, <1>4, <1>5, <1>6, TypeInvParts, TypeSame DEF SendMessage

(* The handlers of a socket: their effect on the connection. *)
LEMMA SocketType ==
  ASSUME TypeInv, NEW m \in Messages, Settles(m) \/ SilentClose(m)
  PROVE  TypeInv'
<1>0. <<m, 0>> \in Channels
  BY DEF Channels
<1>1. /\ page \in PageType /\ chan \in [Channels -> ChanStates] /\ <<m, 0>> \in Channels
      /\ stimuli \in 0..MaxStimuli /\ stimuli \in Nat
  BY <1>0, TypeInvParts, ChatPageAssumption
<1>2. CASE OnOpen(m)
  BY <1>1, <1>2, TypeInvParts, TypeSame DEF OnOpen, ChanStates, Live
<1>3. CASE ConnectTimeout(m)
  <2>1. Closed(chan, <<m, 0>>) \in [Channels -> ChanStates]
    BY <1>1, ClosedFacts
  <2>2. page' \in PageType /\ page'.mounted = page.mounted /\ page'.visit = page.visit
        /\ chan' \in [Channels -> ChanStates]
    BY <1>3, <2>1, FallbackFacts DEF ConnectTimeout
  <2>3. QED
    BY <1>1, <1>3, <2>2, TypeInvParts, TypeSame DEF ConnectTimeout
<1>4. CASE OnError(m)
  <2>1. [chan EXCEPT ![<<m, 0>>] = "closed"] \in [Channels -> ChanStates]
    BY <1>1 DEF ChanStates
  <2>2. page' \in PageType /\ page'.mounted = page.mounted /\ page'.visit = page.visit
        /\ chan' \in [Channels -> ChanStates]
    BY <1>4, <2>1, FallbackFacts DEF OnError
  <2>3. stimuli' \in 0..MaxStimuli /\ stimuli <= stimuli'
    BY <1>1, <1>4, StimulusType DEF OnError
  <2>4. QED
    BY <1>4, <2>2, <2>3, TypeInvParts, TypeSame DEF OnError
<1>5. CASE SilentClose(m)
  <2>1. stimuli' \in 0..MaxStimuli /\ stimuli <= stimuli'
    BY <1>1, <1>5, StimulusType DEF SilentClose
  <2>2. chan' \in [Channels -> ChanStates]
    BY <1>1, <1>5 DEF SilentClose, ChanStates
  <2>3. QED
    BY <1>5, <2>1, <2>2, TypeInvParts, TypeSame DEF SilentClose
<1>6. QED
  BY <1>2, <1>3, <1>4, <1>5 DEF Settles

LEMMA DeliversType ==
  ASSUME TypeInv, NEW c \in Channels, Delivers(c)
  PROVE  TypeInv'
<1>1. /\ page \in PageType /\ chan \in [Channels -> ChanStates]
      /\ session \in [Channels -> {"none", "running", "over"}]
      /\ stimuli \in 0..MaxStimuli /\ stimuli \in Nat
  BY TypeInvParts, ChatPageAssumption
<1>2. CASE RequestArrives(c)
  BY <1>1, <1>2, TypeInvParts, TypeSame DEF RequestArrives
<1>3. CASE ResponseOpens(c)
  BY <1>1, <1>3, TypeInvParts, TypeSame DEF ResponseOpens, ChanStates, Live
<1>4. CASE SessionEvent(c)
  <2>1. page' \in PageType /\ page'.mounted = page.mounted /\ page'.visit = page.visit
    BY <1>1, <1>4 DEF SessionEvent, PageType
  <2>2. chan' \in [Channels -> ChanStates]
    BY <1>1, <1>4 DEF SessionEvent, ChanStates, Live
  <2>3. QED
    BY <1>1, <1>4, <2>1, <2>2, TypeInvParts, TypeSame DEF SessionEvent
<1>5. QED
  BY <1>2, <1>3, <1>4 DEF Delivers

(* The end of a channel: it is closed, and the page of its message, if it  *)
(* is still the one that is open, stops streaming.                         *)
LEMMA FinishesFacts ==
  ASSUME TypeInv, NEW c \in Channels, Finishes(c)
  PROVE  /\ chan[c] \in {"sent", "open", "named"}
         /\ chan' = [chan EXCEPT ![c] = "closed"]
         /\ \/ session' = session
            \/ chan[c] = "named" /\ session' = [session EXCEPT ![c] = "over"]
         /\ page' \in PageType /\ view' \in [Messages -> ViewType] /\ cache' \in CacheType
         /\ page'.mounted = page.mounted /\ page'.visit = page.visit
         /\ page'.workflow = page.workflow
         /\ page'.streaming = (IF Current(c[1]) THEN FALSE ELSE page.streaming)
         /\ Shown(view') = Shown(view)
         /\ cache' = cache \/ cache' = SetSession(view')
         /\ owner' = owner
         /\ stimuli' \in 0..MaxStimuli /\ stimuli <= stimuli'
<1>1. /\ c[1] \in Messages /\ view[c[1]] \in ViewType
      /\ stimuli \in 0..MaxStimuli /\ stimuli \in Nat
  BY TypeInvParts, ChannelFacts, ChatPageAssumption
<1>2. PICK v \in ViewType : v.on = view[c[1]].on /\ PageGets(c[1], v, FALSE)
  BY <1>1, ReceivedFacts DEF Finishes, OnMessage, StreamEnds
<1>3. /\ page' \in PageType /\ view' \in [Messages -> ViewType] /\ cache' \in CacheType
      /\ page'.mounted = page.mounted /\ page'.visit = page.visit
      /\ page'.workflow = page.workflow
      /\ page'.streaming = (IF Current(c[1]) THEN FALSE ELSE page.streaming)
      /\ Shown(view') = Shown(view)
      /\ cache' = cache \/ cache' = SetSession(view')
  BY <1>1, <1>2, PageGetsFacts
<1>4. /\ chan[c] \in {"sent", "open", "named"}
      /\ chan' = [chan EXCEPT ![c] = "closed"]
      /\ owner' = owner
      /\ Stimulus \/ UNCHANGED stimuli
  BY DEF Finishes, OnMessage, StreamEnds
<1>5. \/ session' = session
      \/ chan[c] = "named" /\ session' = [session EXCEPT ![c] = "over"]
  BY DEF Finishes, OnMessage, StreamEnds
<1>6. stimuli' \in 0..MaxStimuli /\ stimuli <= stimuli'
  BY <1>1, <1>4, StimulusType
<1>7. QED
  BY <1>3, <1>4, <1>5, <1>6

LEMMA FinishesType ==
  ASSUME TypeInv, NEW c \in Channels, Finishes(c)
  PROVE  TypeInv'
<1>1. chan' \in [Channels -> ChanStates]
      /\ session' \in [Channels -> {"none", "running", "over"}]
  BY TypeInvParts, FinishesFacts DEF ChanStates
<1>2. owner' \in [Messages -> 0..(MaxStimuli + 1)]
  BY TypeInvParts, FinishesFacts
<1>3. QED
  BY <1>1, <1>2, FinishesFacts, TypeSame

(* Stop and New Chat. *)
LEMMA StopFacts ==
  ASSUME TypeInv, Stop \/ NewChat
  PROVE  /\ StopChannels /\ owner' = owner
         /\ view' \in [Messages -> ViewType] /\ cache' \in CacheType
         /\ \/ Shown(view') = Shown(view) /\ cache' \in {cache, SetSession(view')}
            \/ cache' = NoEntry
<1>1. view \in [Messages -> ViewType] /\ cache \in CacheType
  BY TypeInvParts
<1>2. CASE Stop
  <2>1. view' = [m \in Messages |-> [view[m] EXCEPT !.streaming = FALSE]]
    BY <1>2 DEF Stop
  <2>2. \A m \in Messages : view'[m] \in ViewType /\ view'[m].on = view[m].on
    BY <1>1, <2>1 DEF ViewType
  <2>3. view' \in [Messages -> ViewType] /\ Shown(view') = Shown(view)
    BY <2>1, <2>2 DEF Shown
  <2>4. cache' \in {cache, SetSession(view')}
    BY <1>2 DEF Stop, SaveWhenIdle
  <2>5. QED
    BY <1>1, <1>2, <2>3, <2>4, CacheFacts DEF Stop
<1>3. CASE NewChat
  BY <1>3, CacheFacts DEF NewChat
<1>4. QED
  BY <1>2, <1>3

LEMMA StopType ==
  ASSUME TypeInv, Stop \/ NewChat
  PROVE  TypeInv'
<1>1. StopChannels /\ owner' = owner /\ view' \in [Messages -> ViewType] /\ cache' \in CacheType
  BY StopFacts
<1>2. /\ chan' \in [Channels -> ChanStates]
      /\ page' \in PageType /\ page'.mounted = page.mounted /\ page'.visit = page.visit
      /\ stimuli' \in 0..MaxStimuli /\ stimuli <= stimuli'
      /\ \/ session' = session
         \/ page.workflow \in Channels /\ session' = [session EXCEPT ![page.workflow] = "over"]
  BY <1>1, StopChannelsFacts
<1>3. session' \in [Channels -> {"none", "running", "over"}]
  BY <1>2, TypeInvParts
<1>4. QED
  BY <1>1, <1>2, <1>3, TypeInvParts, TypeSame

LEMMA LeaveFacts ==
  ASSUME TypeInv, Leave
  PROVE  /\ chan' \in [Channels -> ChanStates]
         /\ \A d \in Channels :
              \/ chan'[d] = chan[d]
              \/ chan[d] \in {"connecting", "failing"} /\ chan'[d] = "failing"
              \/ chan[d] \in {"sent", "open", "named"} /\ chan'[d] = "closed"
         /\ page.mounted /\ page' \in PageType /\ ~page'.mounted /\ ~page'.streaming
         /\ page'.visit = page.visit /\ page'.workflow = Nothing
         /\ view' \in [Messages -> ViewType]
         /\ stimuli' = stimuli + 1 /\ stimuli' \in 0..MaxStimuli
<1>1. page \in PageType /\ chan \in [Channels -> ChanStates]
      /\ page.ws \in Channels \union {Nothing}
  BY TypeInvParts DEF PageType
<1>2. page' = [page EXCEPT !.mounted = FALSE, !.streaming = FALSE, !.ws = Nothing,
                           !.abort = Nothing, !.workflow = Nothing]
  BY DEF Leave
<1>3. page' \in PageType /\ ~page'.mounted /\ ~page'.streaming /\ page'.visit = page.visit
      /\ page'.workflow = Nothing
  BY <1>1, <1>2 DEF PageType
<1>4. stimuli' = stimuli + 1 /\ stimuli' \in 0..MaxStimuli
  BY TypeInvParts, StimulusType DEF Leave, Stimulus
<1>5. QED
  BY <1>1, <1>3, <1>4, ClosedFacts, CacheFacts DEF Leave

LEMMA LeaveType ==
  ASSUME TypeInv, Leave
  PROVE  TypeInv'
<1>1. page \in PageType /\ stimuli \in 0..MaxStimuli /\ page.visit \in Nat /\ stimuli \in Nat
      /\ page.visit <= stimuli + 1
  BY TypeInvParts, ChatPageAssumption DEF PageType, Visits
<1>2. Visits'
  BY <1>1, LeaveFacts DEF Visits
<1>3. cache' = cache /\ owner' = owner /\ session' = session
  BY DEF Leave
<1>4. QED
  BY <1>2, <1>3, LeaveFacts, TypeInvParts DEF TypeInv, TypeOK, PageType, CacheType, ChanStates

LEMMA OpenType ==
  ASSUME TypeInv, Open
  PROVE  TypeInv'
<1>1. page \in PageType /\ stimuli \in 0..MaxStimuli /\ page.visit \in Nat /\ stimuli \in Nat
      /\ page.visit <= stimuli /\ cache \in CacheType
  BY TypeInvParts, ChatPageAssumption DEF PageType, Visits, Open
<1>2. page' = [page EXCEPT !.mounted = TRUE, !.visit = page.visit + 1]
  BY DEF Open
<1>3. page.visit + 1 \in 0..(MaxStimuli + 1)
  BY <1>1, ChatPageAssumption
<1>4. page' \in PageType /\ page'.mounted /\ page'.visit = page.visit + 1
  BY <1>1, <1>2, <1>3 DEF PageType
<1>5. Visits' /\ stimuli' = stimuli
  BY <1>1, <1>4 DEF Visits, Open
<1>6. cache.views \in [Messages -> ViewType]
  BY <1>1 DEF CacheType
<1>7. view' \in [Messages -> ViewType] /\ cache' \in CacheType
  BY <1>6, CacheFacts DEF Open, GetSession, ReadCache
<1>8. owner' = owner /\ session' = session /\ chan' = chan
  BY DEF Open
<1>9. QED
  BY <1>4, <1>5, <1>7, <1>8, TypeInvParts
  DEF TypeInv, TypeOK, PageType, CacheType, ChanStates

LEMMA ChatStepType == TypeInv /\ [Next]_vars => TypeInv'
<1> SUFFICES ASSUME TypeInv, [Next]_vars PROVE TypeInv'
  OBVIOUS
<1>1. CASE UNCHANGED vars
  BY <1>1 DEF vars, TypeInv, TypeOK, Visits
<1>2. CASE Next
  BY <1>2, ClockType, SendType, SocketType, DeliversType, FinishesType, StopType, LeaveType,
     OpenType DEF Next
<1>3. QED
  BY <1>1, <1>2

(* The variables of the page, the cache and the connections keep their     *)
(* types.                                                                  *)
THEOREM ChatTypeCorrect == Spec => []TypeOK
<1>1. TypeInv => TypeOK
  BY DEF TypeInv
<1>2. QED
  BY <1>1, ChatInitType, ChatStepType, PTL DEF Spec

----------------------------------------------------------------------------
(* At most two sessions for one message.                                   *)

(* A socket that has not failed has had no request in its place, one that  *)
(* failed before it opened carried nothing, and the second request is only *)
(* made when the timeout and the error handler both ran.                   *)
Sockets(m) ==
  /\ chan[<<m, 0>>] # "sent"
  /\ chan[<<m, 0>>] \in {"none", "connecting", "open", "named", "lost"} =>
       chan[<<m, 1>>] = "none" /\ chan[<<m, 2>>] = "none"
  /\ chan[<<m, 0>>] \in {"none", "connecting", "failing"} => session[<<m, 0>>] = "none"
  /\ chan[<<m, 0>>] = "failing" => chan[<<m, 2>>] = "none"
  /\ session[<<m, 0>>] # "none" => chan[<<m, 2>>] = "none"

Served ==
  /\ \A c \in Channels : chan[c] = "none" => session[c] = "none"
  /\ \A c \in Channels : chan[c] \in {"open", "named"} => session[c] # "none"
  /\ page.workflow # Nothing => session[page.workflow] # "none"

Senders ==
  /\ \A c \in Channels : chan[c] # "none" => owner[c[1]] # 0
  /\ page.mounted => page.visit # 0

SocketInv == TypeInv /\ (\A m \in Messages : Sockets(m)) /\ Served /\ Senders

(* A step that changes a connection only by giving it up, and a session    *)
(* only by ending it.                                                      *)
GivesUp(d) ==
  \/ chan'[d] = chan[d]
  \/ chan[d] \in {"connecting", "failing"} /\ chan'[d] = "failing"
  \/ chan[d] \in {"sent", "open", "named"} /\ chan'[d] = "closed"

LEMMA MessageChannels ==
  ASSUME NEW m \in Messages
  PROVE  /\ <<m, 0>> \in Channels /\ <<m, 1>> \in Channels /\ <<m, 2>> \in Channels
         /\ <<m, 0>>[1] = m /\ <<m, 1>>[1] = m /\ <<m, 2>>[1] = m
  BY DEF Channels

LEMMA GivingUp ==
  ASSUME SocketInv,
         \A d \in Channels : GivesUp(d),
         \A d \in Channels : session'[d] = "none" <=> session[d] = "none",
         page'.workflow = Nothing \/ page'.workflow = page.workflow,
         page'.workflow \in Channels \union {Nothing},
         page'.mounted => page.mounted, page'.visit = page.visit, owner' = owner
  PROVE  (\A m \in Messages : Sockets(m))' /\ Served' /\ Senders'
<1>1. \A m \in Messages : Sockets(m)'
  <2> SUFFICES ASSUME NEW m \in Messages PROVE Sockets(m)'
    OBVIOUS
  <2>1. Sockets(m)
    BY DEF SocketInv
  <2>2. GivesUp(<<m, 0>>) /\ GivesUp(<<m, 1>>) /\ GivesUp(<<m, 2>>)
        /\ (session'[<<m, 0>>] = "none" <=> session[<<m, 0>>] = "none")
    BY MessageChannels
  <2>3. QED
    BY <2>1, <2>2 DEF Sockets, GivesUp
<1>2. Served'
  BY ChannelFacts DEF SocketInv, Served, GivesUp
<1>3. Senders'
  BY DEF SocketInv, Senders, GivesUp
<1>4. QED
  BY <1>1, <1>2, <1>3

LEMMA SocketInit == Init => SocketInv
<1> SUFFICES ASSUME Init PROVE SocketInv
  OBVIOUS
<1>1. \A m \in Messages : Sockets(m)
  BY MessageChannels DEF Init, Sockets
<1>2. Served /\ Senders
  BY DEF Init, Served, Senders
<1>3. QED
  BY <1>1, <1>2, ChatInitType DEF SocketInv

LEMMA SocketSend ==
  ASSUME SocketInv, NEW m \in Messages, SendMessage(m)
  PROVE  (\A n \in Messages : Sockets(n))' /\ Served' /\ Senders'
<1>1. /\ page \in PageType /\ chan \in [Channels -> ChanStates]
      /\ owner \in [Messages -> 0..(MaxStimuli + 1)]
  BY TypeInvParts DEF SocketInv
<1>2. /\ page'.workflow = page.workflow /\ page'.mounted = page.mounted
      /\ page'.visit = page.visit /\ session' = session
      /\ chan' = [chan EXCEPT ![<<m, 0>>] = "connecting"]
      /\ owner' = [owner EXCEPT ![m] = page.visit]
      /\ owner[m] = 0 /\ page.mounted
  BY <1>1 DEF SendMessage, PageType
<1>3. /\ chan[<<m, 0>>] = "none" /\ chan[<<m, 1>>] = "none" /\ chan[<<m, 2>>] = "none"
      /\ session[<<m, 0>>] = "none"
  BY <1>2, MessageChannels DEF SocketInv, Senders, Served
<1>4. chan'[<<m, 0>>] = "connecting"
      /\ \A d \in Channels : d # <<m, 0>> => chan'[d] = chan[d]
  BY <1>1, <1>2, MessageChannels
<1>5. \A n \in Messages : Sockets(n)'
  <2> SUFFICES ASSUME NEW n \in Messages PROVE Sockets(n)'
    OBVIOUS
  <2>1. CASE n = m
    <3>1. chan'[<<m, 1>>] = "none" /\ chan'[<<m, 2>>] = "none"
      BY <1>3, <1>4, MessageChannels
    <3>2. QED
      BY <1>2, <1>3, <1>4, <2>1, <3>1 DEF Sockets
  <2>2. CASE n # m
    <3>1. chan'[<<n, 0>>] = chan[<<n, 0>>] /\ chan'[<<n, 1>>] = chan[<<n, 1>>]
          /\ chan'[<<n, 2>>] = chan[<<n, 2>>]
      BY <1>4, <2>2, MessageChannels
    <3>2. QED
      BY <1>2, <3>1 DEF Sockets, SocketInv
  <2>3. QED
    BY <2>1, <2>2
<1>6. Served'
  BY <1>2, <1>4 DEF Served, SocketInv
<1>7. Senders'
  BY <1>1, <1>2, <1>4, ChannelFacts DEF Senders, SocketInv
<1>8. QED
  BY <1>5, <1>6, <1>7

(* The timeout and the error handler: the first request in the place of a  *)
(* socket, or the second when the timeout made the first.                  *)
LEMMA SocketFallback ==
  ASSUME SocketInv, NEW m \in Messages, ConnectTimeout(m) \/ OnError(m)
  PROVE  (\A n \in Messages : Sockets(n))' /\ Served' /\ Senders'
<1> DEFINE c == <<m, 0>>
<1>1. chan \in [Channels -> ChanStates] /\ c \in Channels /\ c # Nothing
  BY TypeInvParts, MessageChannels, ChannelFacts DEF SocketInv
<1>2. PICK ch \in [Channels -> ChanStates] :
        /\ Fallback(m, ch)
        /\ \A d \in Channels : d # c => ch[d] = chan[d]
        /\ \/ chan[c] = "connecting" /\ ch[c] = "failing"
           \/ chan[c] \in {"connecting", "failing", "open", "named"} /\ ch[c] = "closed"
  <2>1. CASE ConnectTimeout(m)
    <3>1. Closed(chan, c) = [chan EXCEPT ![c] = "failing"]
      BY <1>1, <2>1 DEF ConnectTimeout, Closed, Live
    <3>2. [chan EXCEPT ![c] = "failing"] \in [Channels -> ChanStates]
      BY <1>1 DEF ChanStates, Live
    <3>3. QED
      BY <1>1, <2>1, <3>1, <3>2 DEF ConnectTimeout
  <2>2. CASE OnError(m)
    <3>1. [chan EXCEPT ![c] = "closed"] \in [Channels -> ChanStates]
      BY <1>1 DEF ChanStates
    <3>2. QED
      BY <1>1, <2>2, <3>1 DEF OnError
  <2>3. QED
    BY <2>1, <2>2
<1>3. PICK k \in 1..2 :
        /\ chan[<<m, k>>] = "none"
        /\ k = 2 => chan[<<m, 1>>] # "none"
        /\ chan'[<<m, k>>] = "sent"
        /\ \A d \in Channels : d # <<m, k>> => chan'[d] = ch[d]
  BY <1>2, FallbackFacts DEF SocketInv
<1>4. /\ page'.mounted = page.mounted /\ page'.visit = page.visit
      /\ page'.workflow = page.workflow
  BY <1>2, FallbackFacts DEF SocketInv
<1>5. session' = session /\ owner' = owner
  BY DEF ConnectTimeout, OnError
<1>6. chan'[c] = ch[c] /\ <<m, k>> \in Channels /\ <<m, k>> # c
  BY <1>1, <1>3 DEF Channels
<1>7. \A d \in Channels : d # c /\ d # <<m, k>> => chan'[d] = chan[d]
  BY <1>2, <1>3
<1> HIDE DEF c
<1>8. \A n \in Messages : Sockets(n)'
  <2> SUFFICES ASSUME NEW n \in Messages PROVE Sockets(n)'
    OBVIOUS
  <2>1. CASE n = m
    <3>1. Sockets(m)
      BY DEF SocketInv
    <3>2. /\ chan[c] \in {"connecting", "open", "named"} => k = 1 /\ chan[<<m, 2>>] = "none"
          /\ chan[c] = "failing" => session[c] = "none"
      BY <1>3, <3>1 DEF Sockets, c
    <3>3. k = 1 => chan'[<<m, 2>>] = chan[<<m, 2>>]
      <4>1. <<m, 2>> # <<m, 1>> /\ <<m, 2>> # c
        BY DEF c
      <4>2. QED
        BY <1>7, <4>1, MessageChannels
    <3>4. chan'[c] # "failing" => chan'[c] = "closed"
      BY <1>2, <1>6
    <3>5. chan'[c] = "failing" => chan[c] = "connecting"
      BY <1>2, <1>6
    <3>6. session[c] # "none" => chan'[<<m, 2>>] = "none"
      BY <1>2, <3>1, <3>2, <3>3 DEF Sockets, c
    <3>7. chan'[c] = "failing" => session[c] = "none" /\ chan'[<<m, 2>>] = "none"
      BY <3>1, <3>2, <3>3, <3>5 DEF Sockets, c
    <3>8. QED
      BY <1>5, <2>1, <3>4, <3>6, <3>7 DEF Sockets, c
  <2>2. CASE n # m
    <3>1. chan'[<<n, 0>>] = chan[<<n, 0>>] /\ chan'[<<n, 1>>] = chan[<<n, 1>>]
          /\ chan'[<<n, 2>>] = chan[<<n, 2>>]
      BY <1>7, <2>2, MessageChannels DEF c
    <3>2. QED
      BY <1>5, <3>1 DEF Sockets, SocketInv
  <2>3. QED
    BY <2>1, <2>2
<1>9. Served'
  <2>1. \A d \in Channels : chan'[d] = "none" => chan[d] = "none"
    BY <1>2, <1>3, <1>6, <1>7
  <2>2. \A d \in Channels : chan'[d] \in {"open", "named"} => chan[d] = chan'[d]
    BY <1>2, <1>3, <1>6, <1>7
  <2>3. QED
    BY <1>4, <1>5, <2>1, <2>2 DEF Served, SocketInv
<1>10. Senders'
  <2>1. chan[c] # "none" /\ c[1] = m /\ <<m, k>>[1] = m
    BY <1>2, MessageChannels DEF c
  <2>2. owner[m] # 0
    BY <1>1, <2>1 DEF SocketInv, Senders
  <2>3. \A d \in Channels : chan'[d] # "none" => owner[d[1]] # 0
    BY <1>7, <2>1, <2>2 DEF SocketInv, Senders
  <2>4. QED
    BY <1>4, <1>5, <2>3 DEF SocketInv, Senders
<1>11. QED
  BY <1>8, <1>9, <1>10

LEMMA SocketOpens ==
  ASSUME SocketInv, NEW m \in Messages, OnOpen(m) \/ SilentClose(m)
  PROVE  (\A n \in Messages : Sockets(n))' /\ Served' /\ Senders'
<1> DEFINE c == <<m, 0>>
<1>1. chan \in [Channels -> ChanStates] /\ c \in Channels /\ c[1] = m
      /\ session \in [Channels -> {"none", "running", "over"}]
      /\ page \in PageType
  BY TypeInvParts, MessageChannels DEF SocketInv
<1>2. page' = page /\ owner' = owner
  BY DEF OnOpen, SilentClose
<1>3. /\ \A d \in Channels : d # c => chan'[d] = chan[d] /\ session'[d] = session[d]
      /\ \/ chan[c] = "connecting" /\ chan'[c] = "open" /\ session'[c] = "running"
         \/ chan[c] \in {"open", "named"} /\ chan'[c] = "lost" /\ session'[c] = session[c]
  BY <1>1 DEF OnOpen, SilentClose
<1>4. \A n \in Messages : Sockets(n)'
  <2> SUFFICES ASSUME NEW n \in Messages PROVE Sockets(n)'
    OBVIOUS
  <2>1. Sockets(n) /\ Sockets(m)
    BY DEF SocketInv
  <2>2. chan'[<<n, 1>>] = chan[<<n, 1>>] /\ chan'[<<n, 2>>] = chan[<<n, 2>>]
    <3>1. <<n, 1>> # c /\ <<n, 2>> # c
      OBVIOUS
    <3>2. QED
      BY <1>3, <3>1, MessageChannels
  <2>3. CASE n = m
    BY <1>3, <2>1, <2>2, <2>3 DEF Sockets
  <2>4. CASE n # m
    <3>1. chan'[<<n, 0>>] = chan[<<n, 0>>] /\ session'[<<n, 0>>] = session[<<n, 0>>]
      BY <1>3, <2>4, MessageChannels
    <3>2. QED
      BY <2>1, <2>2, <3>1 DEF Sockets
  <2>5. QED
    BY <2>3, <2>4
<1> HIDE DEF c
<1>5. Served'
  <2>1. page.workflow \in Channels \union {Nothing}
    BY <1>1 DEF PageType
  <2>2. \A d \in Channels : session[d] # "none" => session'[d] # "none"
    BY <1>3
  <2>3. QED
    BY <1>1, <1>2, <1>3, <2>1, <2>2 DEF Served, SocketInv
<1>6. Senders'
  BY <1>1, <1>2, <1>3 DEF Senders, SocketInv
<1>7. QED
  BY <1>4, <1>5, <1>6

LEMMA SocketDelivers ==
  ASSUME SocketInv, NEW c \in Channels, Delivers(c)
  PROVE  (\A n \in Messages : Sockets(n))' /\ Served' /\ Senders'
<1>1. chan \in [Channels -> ChanStates] /\ page \in PageType
      /\ session \in [Channels -> {"none", "running", "over"}]
  BY TypeInvParts DEF SocketInv
<1>2. /\ owner' = owner /\ page'.mounted = page.mounted /\ page'.visit = page.visit
      /\ \/ page'.workflow = page.workflow
         \/ chan[c] = "open" /\ page'.workflow = c
  BY <1>1 DEF Delivers, RequestArrives, ResponseOpens, SessionEvent, PageType
<1>3. /\ \A d \in Channels : d # c => chan'[d] = chan[d] /\ session'[d] = session[d]
      /\ \/ chan[c] = "sent" /\ chan'[c] = "sent" /\ session'[c] = "running"
         \/ /\ chan[c] = "sent" /\ chan'[c] = "open"
            /\ session[c] # "none" /\ session'[c] = session[c]
         \/ chan[c] = "open" /\ chan'[c] = "named" /\ session'[c] = session[c]
  BY <1>1 DEF Delivers, RequestArrives, ResponseOpens, SessionEvent
<1>4. \A n \in Messages : Sockets(n)'
  <2> SUFFICES ASSUME NEW n \in Messages PROVE Sockets(n)'
    OBVIOUS
  <2>1. Sockets(n)
    BY DEF SocketInv
  <2>2. CASE c = <<n, 0>>
    <3>1. chan'[<<n, 1>>] = chan[<<n, 1>>] /\ chan'[<<n, 2>>] = chan[<<n, 2>>]
      BY <1>3, <2>2, MessageChannels
    <3>2. chan[c] = "open" /\ chan'[c] = "named" /\ session'[c] = session[c]
      BY <1>3, <2>1, <2>2 DEF Sockets
    <3>3. QED
      BY <2>1, <2>2, <3>1, <3>2 DEF Sockets
  <2>3. CASE c # <<n, 0>>
    <3>1. chan'[<<n, 0>>] = chan[<<n, 0>>] /\ session'[<<n, 0>>] = session[<<n, 0>>]
      BY <1>3, <2>3, MessageChannels
    <3>2. chan'[<<n, 1>>] = "none" <=> chan[<<n, 1>>] = "none"
      BY <1>3, MessageChannels
    <3>3. chan'[<<n, 2>>] = "none" <=> chan[<<n, 2>>] = "none"
      BY <1>3, MessageChannels
    <3>4. QED
      BY <2>1, <3>1, <3>2, <3>3 DEF Sockets
  <2>4. QED
    BY <2>2, <2>3
<1>5. Served'
  <2>1. page.workflow \in Channels \union {Nothing}
    BY <1>1 DEF PageType
  <2>2. \A d \in Channels : session[d] # "none" => session'[d] # "none"
    BY <1>3
  <2>3. page'.workflow # Nothing => session'[page'.workflow] # "none"
    BY <1>2, <2>1, <2>2 DEF Served, SocketInv
  <2>4. QED
    BY <1>3, <2>2, <2>3 DEF Served, SocketInv
<1>6. Senders'
  BY <1>2, <1>3 DEF Senders, SocketInv
<1>7. QED
  BY <1>4, <1>5, <1>6

LEMMA SocketGivesUp ==
  ASSUME SocketInv, Stop \/ NewChat \/ Leave \/ \E c \in Channels : Finishes(c)
  PROVE  (\A n \in Messages : Sockets(n))' /\ Served' /\ Senders'
<1>1. chan \in [Channels -> ChanStates] /\ page \in PageType
      /\ session \in [Channels -> {"none", "running", "over"}]
      /\ page.workflow \in Channels \union {Nothing} /\ TypeInv
  BY TypeInvParts DEF SocketInv, PageType
<1>2. CASE Stop \/ NewChat
  <2>1. StopChannels /\ owner' = owner
    BY <1>1, <1>2, StopFacts
  <2>2. /\ \A d \in Channels : GivesUp(d)
        /\ page'.mounted = page.mounted /\ page'.visit = page.visit /\ page'.workflow = Nothing
        /\ \/ session' = session
           \/ page.workflow \in Channels /\ session' = [session EXCEPT ![page.workflow] = "over"]
    BY <1>1, <2>1, StopChannelsFacts DEF GivesUp
  <2>3. page.workflow \in Channels => session[page.workflow] # "none"
    BY ChannelFacts DEF SocketInv, Served
  <2>4. \A d \in Channels : session'[d] = "none" <=> session[d] = "none"
    BY <1>1, <2>2, <2>3
  <2>5. QED
    BY <2>1, <2>2, <2>4, GivingUp
<1>3. CASE Leave
  <2>1. /\ \A d \in Channels : GivesUp(d)
        /\ page'.visit = page.visit /\ page'.workflow = Nothing /\ ~page'.mounted
    BY <1>1, <1>3, LeaveFacts DEF GivesUp
  <2>2. session' = session /\ owner' = owner
    BY <1>3 DEF Leave
  <2>3. QED
    BY <2>1, <2>2, GivingUp
<1>4. CASE \E c \in Channels : Finishes(c)
  <2>1. PICK c \in Channels : Finishes(c)
    BY <1>4
  <2>2. /\ chan[c] \in {"sent", "open", "named"}
        /\ chan' = [chan EXCEPT ![c] = "closed"]
        /\ \/ session' = session
           \/ chan[c] = "named" /\ session' = [session EXCEPT ![c] = "over"]
        /\ page'.mounted = page.mounted /\ page'.visit = page.visit
        /\ page'.workflow = page.workflow /\ owner' = owner
    BY <1>1, <2>1, FinishesFacts
  <2>3. \A d \in Channels : GivesUp(d)
    BY <1>1, <2>2 DEF GivesUp
  <2>4. chan[c] = "named" => session[c] # "none"
    BY DEF SocketInv, Served
  <2>5. \A d \in Channels : session'[d] = "none" <=> session[d] = "none"
    BY <1>1, <2>2, <2>4
  <2>6. QED
    BY <1>1, <2>2, <2>3, <2>5, GivingUp
<1>5. QED
  BY <1>2, <1>3, <1>4

(* The clock and the opening of the page leave connections and sessions    *)
(* alone.                                                                  *)
LEMMA SocketRest ==
  ASSUME SocketInv, CleanupInterval \/ Tick \/ IdleMonitor \/ Open \/ UNCHANGED vars
  PROVE  (\A n \in Messages : Sockets(n))' /\ Served' /\ Senders'
<1>1. chan' = chan /\ session' = session /\ owner' = owner
  BY DEF CleanupInterval, Tick, IdleMonitor, Open, vars
<1>2. page \in PageType /\ page.visit \in Nat
  BY TypeInvParts, ChatPageAssumption DEF SocketInv, PageType
<1>3. page'.workflow = page.workflow /\ (page' = page \/ page'.visit = page.visit + 1)
  BY <1>2 DEF CleanupInterval, Tick, IdleMonitor, Open, vars, PageType
<1>4. \A n \in Messages : Sockets(n)'
  BY <1>1 DEF SocketInv, Sockets
<1>5. Served'
  BY <1>1, <1>3 DEF SocketInv, Served
<1>6. Senders'
  BY <1>1, <1>2, <1>3 DEF SocketInv, Senders
<1>7. QED
  BY <1>4, <1>5, <1>6

LEMMA SocketStep == SocketInv /\ [Next]_vars => SocketInv'
<1> SUFFICES ASSUME SocketInv, [Next]_vars PROVE SocketInv'
  OBVIOUS
<1>1. TypeInv'
  BY ChatStepType DEF SocketInv
<1>2. (\A n \in Messages : Sockets(n))' /\ Served' /\ Senders'
  BY SocketSend, SocketFallback, SocketOpens, SocketDelivers, SocketGivesUp, SocketRest
  DEF Next, Settles
<1>3. QED
  BY <1>1, <1>2 DEF SocketInv

LEMMA SocketsBound == SocketInv => AtMostTwoSessions
<1> SUFFICES ASSUME SocketInv, NEW m \in Messages
             PROVE  /\ Cardinality(SessionsOf(m)) <= 2
                    /\ 0 \in SessionsOf(m) => 2 \notin SessionsOf(m)
  BY DEF AtMostTwoSessions
<1>1. session[<<m, 0>>] # "none" => session[<<m, 2>>] = "none"
  BY MessageChannels DEF SocketInv, Sockets, Served
<1>2. 0 \in SessionsOf(m) => 2 \notin SessionsOf(m)
  BY <1>1 DEF SessionsOf
<1>3. SessionsOf(m) \subseteq {0, 1} \/ SessionsOf(m) \subseteq {1, 2}
  BY <1>2 DEF SessionsOf
<1>4. \A a, b : IsFiniteSet({a, b}) /\ Cardinality({a, b}) <= 2
  <2> TAKE a, b
  <2>1. IsFiniteSet({b}) /\ Cardinality({b}) = 1
    BY FS_Singleton
  <2>2. {a, b} = {b} \union {a}
    OBVIOUS
  <2>3. QED
    BY <2>1, <2>2, FS_AddElement
<1>5. Cardinality(SessionsOf(m)) <= 2
  <2>1. PICK a, b : SessionsOf(m) \subseteq {a, b}
    BY <1>3
  <2>2. IsFiniteSet(SessionsOf(m)) /\ Cardinality(SessionsOf(m)) <= Cardinality({a, b})
    BY <1>4, <2>1, FS_Subset
  <2>3. Cardinality(SessionsOf(m)) \in Nat /\ Cardinality({a, b}) \in Nat
    BY <1>4, <2>2, FS_CardinalityType
  <2>4. Cardinality({a, b}) <= 2
    BY <1>4
  <2>5. QED
    BY <2>2, <2>3, <2>4
<1>6. QED
  BY <1>2, <1>5

(* However the timeout, the error handler, Stop and the end of the visit   *)
(* interleave, one press of Send starts at most two sessions, and the      *)
(* second request is never made for a socket that carried the message.     *)
THEOREM OnePressTwoSessions == Spec => []AtMostTwoSessions
<1>1. Spec => []SocketInv
  BY SocketInit, SocketStep, PTL DEF Spec
<1>2. QED
  BY <1>1, SocketsBound, PTL

----------------------------------------------------------------------------
(* A page that waits has something to wait for.                            *)

Unsettled(c) == Current(c[1]) /\ chan[c] \in Live \union {"lost"}
HasUnsettled == page.streaming => page.mounted /\ \E c \in Channels : Unsettled(c)
WaitInv      == TypeInv /\ HasUnsettled

(* A step that keeps the visit keeps whose the messages are. *)
LEMMA SamePage ==
  ASSUME page'.mounted = page.mounted, page'.visit = page.visit, owner' = owner, NEW m
  PROVE  Current(m)' <=> Current(m)
  BY DEF Current

LEMMA WaitSend ==
  ASSUME WaitInv, NEW m \in Messages, SendMessage(m)
  PROVE  HasUnsettled'
<1>1. /\ page \in PageType /\ chan \in [Channels -> ChanStates]
      /\ owner \in [Messages -> 0..(MaxStimuli + 1)] /\ <<m, 0>> \in Channels
      /\ <<m, 0>>[1] = m
  BY TypeInvParts, MessageChannels DEF WaitInv
<1>2. /\ page'.mounted = page.mounted /\ page'.visit = page.visit /\ page.mounted
      /\ owner'[m] = page.visit /\ chan'[<<m, 0>>] = "connecting"
  BY <1>1 DEF SendMessage, PageType
<1>3. Unsettled(<<m, 0>>)'
  BY <1>1, <1>2 DEF Unsettled, Current, Live
<1>4. QED
  BY <1>1, <1>2, <1>3 DEF HasUnsettled

(* The handlers of the connections: the one that was waited for goes on,   *)
(* or another request takes its place.                                     *)
LEMMA WaitConnections ==
  ASSUME WaitInv,
         \/ \E m \in Messages : Settles(m) \/ SilentClose(m)
         \/ \E c \in Channels : Delivers(c)
  PROVE  HasUnsettled'
<1>1. page \in PageType /\ chan \in [Channels -> ChanStates] /\ TypeInv
  BY TypeInvParts DEF WaitInv
<1>2. ASSUME /\ page'.mounted = page.mounted /\ page'.visit = page.visit
             /\ page'.streaming = page.streaming /\ owner' = owner,
             \A c \in Channels :
               Unsettled(c) => \E d \in Channels :
                               d[1] = c[1] /\ chan'[d] \in Live \union {"lost"}
      PROVE  HasUnsettled'
  <2> SUFFICES ASSUME page.streaming PROVE page.mounted /\ \E d \in Channels : Unsettled(d)'
    BY <1>2 DEF HasUnsettled
  <2>1. PICK c \in Channels : Unsettled(c)
    BY DEF WaitInv, HasUnsettled
  <2>2. PICK d \in Channels : d[1] = c[1] /\ chan'[d] \in Live \union {"lost"}
    BY <1>2, <2>1
  <2>3. Current(c[1])'
    BY <1>2, <2>1, SamePage DEF Unsettled
  <2>4. QED
    BY <2>2, <2>3 DEF Unsettled, WaitInv, HasUnsettled
<1>3. ASSUME NEW m \in Messages, ConnectTimeout(m) \/ OnError(m)
      PROVE  HasUnsettled'
  <2> DEFINE s == <<m, 0>>
  <2>1. s \in Channels /\ s # Nothing /\ s[1] = m
    BY MessageChannels, ChannelFacts
  <2>2. PICK ch \in [Channels -> ChanStates] :
          Fallback(m, ch) /\ \A d \in Channels : d # s => ch[d] = chan[d]
    <3>1. CASE ConnectTimeout(m)
      <4>1. Closed(chan, s) = [chan EXCEPT ![s] = "failing"]
        BY <2>1, <3>1 DEF ConnectTimeout, Closed, Live
      <4>2. [chan EXCEPT ![s] = "failing"] \in [Channels -> ChanStates]
        BY <1>1 DEF ChanStates, Live
      <4>3. QED
        BY <1>1, <3>1, <4>1, <4>2 DEF ConnectTimeout
    <3>2. CASE OnError(m)
      <4>1. [chan EXCEPT ![s] = "closed"] \in [Channels -> ChanStates]
        BY <1>1 DEF ChanStates
      <4>2. QED
        BY <1>1, <3>2, <4>1 DEF OnError
    <3>3. QED
      BY <1>3, <3>1, <3>2
  <2> HIDE DEF s
  <2>3. PICK k \in 1..2 :
          /\ chan'[<<m, k>>] = "sent"
          /\ \A d \in Channels : d # <<m, k>> => chan'[d] = ch[d]
    BY <1>1, <2>2, FallbackFacts
  <2>4. /\ page'.mounted = page.mounted /\ page'.visit = page.visit
        /\ page'.streaming = page.streaming
    BY <1>1, <2>2, FallbackFacts
  <2>5. owner' = owner
    BY <1>3 DEF ConnectTimeout, OnError
  <2>6. <<m, k>> \in Channels /\ <<m, k>>[1] = m
    BY DEF Channels
  <2>7. ASSUME NEW c \in Channels, Unsettled(c)
        PROVE  \E d \in Channels : d[1] = c[1] /\ chan'[d] \in Live \union {"lost"}
    <3>1. CASE c = <<m, k>> \/ c = s
      BY <2>1, <2>3, <2>6, <3>1 DEF Live
    <3>2. CASE c # <<m, k>> /\ c # s
      BY <2>2, <2>3, <2>7, <3>2 DEF Unsettled
    <3>3. QED
      BY <3>1, <3>2
  <2>8. QED
    BY <1>2, <2>4, <2>5, <2>7
<1>4. ASSUME NEW m \in Messages, OnOpen(m) \/ SilentClose(m)
      PROVE  HasUnsettled'
  <2>1. page' = page /\ owner' = owner
    BY <1>4 DEF OnOpen, SilentClose
  <2>2. \A c \in Channels : chan'[c] \in {chan[c], "open", "lost"}
    BY <1>1, <1>4 DEF OnOpen, SilentClose
  <2>3. \A c \in Channels : Unsettled(c) => chan'[c] \in Live \union {"lost"}
    BY <2>2 DEF Unsettled, Live
  <2>4. QED
    BY <1>2, <2>1, <2>3
<1>5. ASSUME NEW e \in Channels, Delivers(e)
      PROVE  HasUnsettled'
  <2>1. /\ page'.mounted = page.mounted /\ page'.visit = page.visit
        /\ page'.streaming = page.streaming /\ owner' = owner
    BY <1>1, <1>5 DEF Delivers, RequestArrives, ResponseOpens, SessionEvent, PageType
  <2>2. \A c \in Channels : chan'[c] \in {chan[c], "open", "named"}
    BY <1>1, <1>5 DEF Delivers, RequestArrives, ResponseOpens, SessionEvent
  <2>3. \A c \in Channels : Unsettled(c) => chan'[c] \in Live \union {"lost"}
    BY <2>2 DEF Unsettled, Live
  <2>4. QED
    BY <1>2, <2>1, <2>3
<1>6. QED
  BY <1>3, <1>4, <1>5 DEF Settles

LEMMA WaitFinishes ==
  ASSUME WaitInv, NEW c \in Channels, Finishes(c)
  PROVE  HasUnsettled'
<1>1. chan \in [Channels -> ChanStates]
      /\ chan' = [chan EXCEPT ![c] = "closed"]
      /\ page'.mounted = page.mounted /\ page'.visit = page.visit /\ owner' = owner
      /\ page'.streaming = (IF Current(c[1]) THEN FALSE ELSE page.streaming)
  BY TypeInvParts, FinishesFacts DEF WaitInv
<1> SUFFICES ASSUME page'.streaming PROVE page'.mounted /\ \E d \in Channels : Unsettled(d)'
  BY DEF HasUnsettled
<1>2. ~Current(c[1]) /\ page.streaming
  BY <1>1
<1>3. PICK d \in Channels : Unsettled(d)
  BY <1>2 DEF WaitInv, HasUnsettled
<1>4. d # c
  BY <1>2, <1>3 DEF Unsettled
<1>5. Current(d[1])'
  BY <1>1, <1>3, SamePage DEF Unsettled
<1>6. Unsettled(d)'
  BY <1>1, <1>3, <1>4, <1>5 DEF Unsettled
<1>7. QED
  BY <1>1, <1>2, <1>6 DEF WaitInv, HasUnsettled

LEMMA WaitRest ==
  ASSUME WaitInv,
         \/ CleanupInterval \/ Tick \/ IdleMonitor \/ UNCHANGED vars
         \/ Stop \/ NewChat \/ Leave \/ Open
  PROVE  HasUnsettled'
<1>1. page \in PageType /\ TypeInv
  BY TypeInvParts DEF WaitInv
<1>2. CASE CleanupInterval \/ Tick \/ IdleMonitor \/ UNCHANGED vars
  <2>1. page' = page /\ chan' = chan /\ owner' = owner
    BY <1>2 DEF CleanupInterval, Tick, IdleMonitor, vars
  <2>2. QED
    BY <2>1 DEF WaitInv, HasUnsettled, Unsettled, Current
<1>3. CASE Stop \/ NewChat
  <2>1. ~page'.streaming
    BY <1>1, <1>3, StopFacts, StopChannelsFacts
  <2>2. QED
    BY <2>1 DEF HasUnsettled
<1>4. CASE Leave
  BY <1>1, <1>4, LeaveFacts DEF HasUnsettled
<1>5. CASE Open
  <2>1. page'.streaming = page.streaming /\ ~page.mounted
    BY <1>1, <1>5 DEF Open, PageType
  <2>2. QED
    BY <2>1 DEF WaitInv, HasUnsettled
<1>6. QED
  BY <1>2, <1>3, <1>4, <1>5

(* The input is never disabled with no connection left to enable it but by *)
(* a socket that went away in silence.                                     *)
THEOREM LockedOutBySilenceOnly == Spec => []WaitsForAConnection
<1>1. Init => WaitInv
  BY ChatInitType DEF Init, WaitInv, HasUnsettled
<1>2. WaitInv /\ [Next]_vars => WaitInv'
  <2> SUFFICES ASSUME WaitInv, [Next]_vars PROVE WaitInv'
    OBVIOUS
  <2>1. TypeInv'
    BY ChatStepType DEF WaitInv
  <2>2. HasUnsettled'
    BY WaitSend, WaitConnections, WaitFinishes, WaitRest DEF Next
  <2>3. QED
    BY <2>1, <2>2 DEF WaitInv
<1>3. WaitInv => WaitsForAConnection
  BY DEF WaitInv, HasUnsettled, Unsettled, WaitsForAConnection
<1>4. QED
  BY <1>1, <1>2, <1>3, PTL DEF Spec

----------------------------------------------------------------------------
(* The open page and the cache hold the same messages.                     *)

LEMMA CacheStep ==
  ASSUME TypeInv, PageMatchesCache, [Next]_vars
  PROVE  PageMatchesCache'
<1>1. /\ page \in PageType /\ cache \in CacheType /\ cache.age \in Nat
      /\ view \in [Messages -> ViewType]
  BY TypeInvParts, ChatPageAssumption DEF CacheType
<1>2. \A vs : SetSession(vs).there /\ SetSession(vs).views = vs
  BY DEF SetSession
<1>3. ASSUME page'.mounted = page.mounted, Shown(view') = Shown(view),
             cache' = cache \/ cache' = SetSession(view')
      PROVE  PageMatchesCache'
  BY <1>2, <1>3 DEF PageMatchesCache
<1>4. ASSUME cache' = NoEntry PROVE PageMatchesCache'
  BY <1>4 DEF PageMatchesCache, NoEntry
<1>5. CASE CleanupInterval
  BY <1>4, <1>5 DEF CleanupInterval
<1>6. CASE Tick
  <2>1. cache' = [cache EXCEPT !.age = cache.age + 1] /\ page' = page /\ view' = view
        /\ cache.there
    BY <1>6 DEF Tick
  <2>2. cache'.there = cache.there /\ cache'.views = cache.views /\ cache'.age = cache.age + 1
    BY <1>1, <2>1 DEF CacheType
  <2>3. cache'.age < IdleTicks => cache.age < IdleTicks
    BY <1>1, <2>2, ChatPageAssumption
  <2>4. QED
    BY <2>1, <2>2, <2>3 DEF PageMatchesCache
<1>7. CASE IdleMonitor
  <2>1. cache' = cache /\ IdleLeft = 0
    BY <1>7 DEF IdleMonitor
  <2>2. ~(cache.there /\ cache.age < IdleTicks)
    BY <1>1, <2>1, ChatPageAssumption DEF IdleLeft
  <2>3. QED
    BY <2>1, <2>2 DEF PageMatchesCache
<1>8. CASE Stop \/ NewChat
  <2>1. page'.mounted = page.mounted
    BY <1>8, StopFacts, StopChannelsFacts
  <2>2. \/ Shown(view') = Shown(view) /\ cache' \in {cache, SetSession(view')}
        \/ cache' = NoEntry
    BY <1>8, StopFacts
  <2>3. QED
    BY <1>3, <1>4, <2>1, <2>2
<1>9. CASE Leave
  BY <1>9, LeaveFacts DEF PageMatchesCache
<1>10. CASE Open
  <2>1. \/ cache' = SetSession(cache.views) /\ view' = cache.views
        \/ cache' = NoEntry
    BY <1>10 DEF Open, GetSession, ReadCache
  <2>2. QED
    BY <1>2, <1>4, <2>1 DEF PageMatchesCache
<1>11. ASSUME NEW m \in Messages, SendMessage(m) PROVE PageMatchesCache'
  <2>1. cache' = SetSession(view')
    BY <1>11 DEF SendMessage
  <2>2. QED
    BY <1>2, <2>1 DEF PageMatchesCache
<1>12. ASSUME NEW m \in Messages, Settles(m) \/ SilentClose(m) PROVE PageMatchesCache'
  <2>1. view' = view /\ cache' = cache
    BY <1>12 DEF Settles, OnOpen, ConnectTimeout, OnError, SilentClose
  <2>2. page'.mounted = page.mounted
    BY <1>1, <1>12
    DEF Settles, OnOpen, ConnectTimeout, OnError, SilentClose, Fallback, PageType
  <2>3. QED
    BY <1>3, <2>1, <2>2
<1>13. ASSUME NEW c \in Channels, Delivers(c) PROVE PageMatchesCache'
  <2>1. view' = view /\ cache' = cache /\ page'.mounted = page.mounted
    BY <1>1, <1>13 DEF Delivers, RequestArrives, ResponseOpens, SessionEvent, PageType
  <2>2. QED
    BY <1>3, <2>1
<1>14. ASSUME NEW c \in Channels, Finishes(c) PROVE PageMatchesCache'
  BY <1>3, <1>14, FinishesFacts
<1>15. CASE UNCHANGED vars
  BY <1>3, <1>15 DEF vars
<1>16. QED
  BY <1>5, <1>6, <1>7, <1>8, <1>9, <1>10, <1>11, <1>12, <1>13, <1>14, <1>15 DEF Next

(* As long as the cached conversation is fresh, the open page shows what a *)
(* later visit would read back, whatever its handlers did in between.      *)
THEOREM VisitReadsBack == Spec => []PageMatchesCache
<1>1. Init => TypeInv /\ PageMatchesCache
  BY ChatInitType DEF Init, PageMatchesCache
<1>2. TypeInv /\ PageMatchesCache /\ [Next]_vars => (TypeInv /\ PageMatchesCache)'
  BY ChatStepType, CacheStep
<1>3. QED
  BY <1>1, <1>2, PTL DEF Spec

----------------------------------------------------------------------------
(* The decisions the chat shows.                                           *)

StatusType == {"absent", "pending", "lost"} \union Decisions
PanelType == [mounted : BOOLEAN, tenant : Tenants, list : SUBSET Approvals]
BlockType == [status : {"pending"} \union Decisions, busy : BOOLEAN]
PollType  == [at : {"idle", "asked", "answered"}, tenant : Tenants, data : SUBSET Approvals]
ClickType == [at : {"unused", "sent", "checked", "ok", "refused", "gone"},
              from : {"panel", "block"}, id : Approvals, verdict : Decisions,
              list : SUBSET Approvals]

(* A click the initiator took is a decision the store recorded. *)
TakenClicks ==
  \A k \in Clicks : click[k].from = "block" =>
    /\ click[k].id \in InChat
    /\ click[k].at = "ok" => Recorded(click[k].id, click[k].verdict)

(* Before a request is decided nothing is recorded of it. *)
UndecidedUntaken == \A a \in InChat : status[a] \in {"absent", "pending"} => taken[a] = {}

ReviewInv == ReviewTypeOK /\ TakenClicks /\ UndecidedUntaken /\ ShownDecisionWasTaken

LEMMA UnusedType ==
  /\ Unused \in ClickType
  /\ [Unused EXCEPT !.at = "gone"] \in ClickType
  /\ [Unused EXCEPT !.at = "gone"].at = "gone"
  /\ [Unused EXCEPT !.at = "gone"].from = "panel"
<1>1. (CHOOSE a \in Approvals : TRUE) \in Approvals
  BY ApprovalReviewAssumption
<1>2. QED
  BY <1>1 DEF Unused, ClickType, Decisions

LEMMA ReviewInitInv == ReviewInit => ReviewInv
<1> SUFFICES ASSUME ReviewInit PROVE ReviewInv
  OBVIOUS
<1>1. Tenants # {}
  BY DEF ReviewInit
<1>2. IdlePoll \in PollType
  BY <1>1 DEF IdlePoll, PollType
<1>3. ReviewTypeOK
  BY <1>2, UnusedType
  DEF ReviewInit, ReviewTypeOK, PollType, ClickType, Waiting, Decisions
<1>4. TakenClicks /\ UndecidedUntaken
  BY DEF ReviewInit, TakenClicks, UndecidedUntaken, Unused
<1>5. ShownDecisionWasTaken
  BY DEF ReviewInit, ShownDecisionWasTaken, Waiting, Decisions
<1>6. QED
  BY <1>3, <1>4, <1>5 DEF ReviewInv

LEMMA ReviewTypes ==
  ReviewTypeOK <=> /\ status \in [Approvals -> StatusType]
                   /\ taken \in [InChat -> SUBSET Decisions]
                   /\ panel \in PanelType
                   /\ poll \in [Polls -> PollType]
                   /\ block \in [InChat -> BlockType]
                   /\ click \in [Clicks -> ClickType]
  BY DEF ReviewTypeOK, StatusType, PanelType, PollType, BlockType, ClickType

LEMMA ReviewTypesNext ==
  ASSUME status' \in [Approvals -> StatusType], taken' \in [InChat -> SUBSET Decisions],
         panel' \in PanelType, poll' \in [Polls -> PollType],
         block' \in [InChat -> BlockType], click' \in [Clicks -> ClickType]
  PROVE  ReviewTypeOK'
  BY DEF ReviewTypeOK, StatusType, PanelType, PollType, BlockType, ClickType

(* What a step must keep: whatever is recorded stays recorded, and a block *)
(* or a click gets no decision that is not.                                *)
LEMMA ReviewFrame ==
  ASSUME ReviewInv, ReviewTypeOK', UndecidedUntaken',
         \A a \in InChat, v \in Decisions : Recorded(a, v) => Recorded(a, v)',
         \A a \in InChat, v \in Decisions :
           block'[a].status = v => block[a].status = v \/ Recorded(a, v)',
         \A k \in Clicks : \/ click'[k] = click[k]
                           \/ click'[k].from = "block" =>
                                /\ click'[k].id \in InChat
                                /\ click'[k].at # "ok"
                           \/ /\ click'[k].id = click[k].id
                              /\ click'[k].from = click[k].from
                              /\ click'[k].verdict = click[k].verdict
                              /\ \A a \in InChat, v \in Decisions :
                                   a = click[k].id /\ v = click[k].verdict => Recorded(a, v)'
  PROVE  ReviewInv'
<1>1. click \in [Clicks -> ClickType] /\ block \in [InChat -> BlockType]
  BY ReviewTypes DEF ReviewInv
<1>2. ShownDecisionWasTaken'
  BY DEF ReviewInv, ShownDecisionWasTaken
<1>3. TakenClicks'
  <2> SUFFICES ASSUME NEW k \in Clicks, click'[k].from = "block"
               PROVE  /\ click'[k].id \in InChat
                      /\ click'[k].at = "ok" => Recorded(click[k].id, click[k].verdict)'
    BY DEF TakenClicks
  <2>1. click[k].verdict \in Decisions
    BY <1>1 DEF ClickType
  <2>2. click[k].from = "block" => /\ click[k].id \in InChat
                                   /\ click[k].at = "ok" => Recorded(click[k].id, click[k].verdict)
    BY DEF ReviewInv, TakenClicks
  <2>3. CASE click'[k] = click[k]
    BY <2>1, <2>2, <2>3
  <2>4. CASE click'[k].id \in InChat /\ click'[k].at # "ok"
    BY <2>4
  <2>5. CASE /\ click'[k].id = click[k].id
             /\ click'[k].from = click[k].from
             /\ click'[k].verdict = click[k].verdict
             /\ \A a \in InChat, v \in Decisions :
                  a = click[k].id /\ v = click[k].verdict => Recorded(a, v)'
    BY <2>1, <2>2, <2>5
  <2>6. QED
    BY <2>3, <2>4, <2>5
<1>4. QED
  BY <1>2, <1>3 DEF ReviewInv

(* Polls, the tenant shown and new clicks touch no decision. *)
LEMMA PollKeeps ==
  ASSUME ReviewInv,
         \/ \E p \in Polls : PollStep(p)
         \/ \E t \in Tenants : ShowTenant(t)
         \/ UNCHANGED reviewVars
  PROVE  ReviewInv'
<1>1. status' = status /\ taken' = taken /\ block' = block /\ click' = click
  BY DEF PollStep, AskPending, AnswerPending, ApplyPending, ShowTenant, reviewVars
<1>2. /\ status \in [Approvals -> StatusType] /\ taken \in [InChat -> SUBSET Decisions]
      /\ panel \in PanelType /\ poll \in [Polls -> PollType]
      /\ block \in [InChat -> BlockType] /\ click \in [Clicks -> ClickType]
  BY ReviewTypes DEF ReviewInv
<1>3. IdlePoll \in PollType
  BY <1>2 DEF IdlePoll, PollType, PanelType
<1>4. panel' \in PanelType /\ poll' \in [Polls -> PollType]
  <2>1. ASSUME NEW p \in Polls, AskPending(p)
        PROVE  poll' \in [Polls -> PollType] /\ panel' = panel
    BY <1>2, <2>1 DEF AskPending, PollType, PanelType
  <2>2. ASSUME NEW p \in Polls, AnswerPending(p)
        PROVE  poll' \in [Polls -> PollType] /\ panel' = panel
    <3>1. Pending(poll[p].tenant) \in SUBSET Approvals
      BY DEF Pending
    <3>2. poll' = [poll EXCEPT ![p] = [poll[p] EXCEPT !.at = "answered",
                                                      !.data = Pending(poll[p].tenant)]]
      BY <1>2, <2>2 DEF AnswerPending
    <3>3. QED
      BY <1>2, <2>2, <3>1, <3>2 DEF AnswerPending, PollType
  <2>3. ASSUME NEW p \in Polls, ApplyPending(p)
        PROVE  poll' \in [Polls -> PollType] /\ panel' \in PanelType
    <3>1. poll[p].data \in SUBSET Approvals
      BY <1>2, <2>3 DEF PollType
    <3>2. QED
      BY <1>2, <1>3, <2>3, <3>1 DEF ApplyPending, PanelType
  <2>4. ASSUME NEW t \in Tenants, ShowTenant(t)
        PROVE  poll' = poll /\ panel' \in PanelType
    BY <1>2, <2>4 DEF ShowTenant, PanelType
  <2>5. QED
    BY <1>2, <2>1, <2>2, <2>3, <2>4 DEF PollStep, reviewVars
<1>5. ReviewTypeOK'
  BY <1>1, <1>2, <1>4, ReviewTypesNext
<1>6. TakenClicks' /\ UndecidedUntaken' /\ ShownDecisionWasTaken'
  BY <1>1 DEF ReviewInv, TakenClicks, UndecidedUntaken, ShownDecisionWasTaken, Recorded
<1>7. QED
  BY <1>5, <1>6 DEF ReviewInv

(* Asking, clicking and coming back: no decision is recorded by them. *)
LEMMA AskKeeps ==
  ASSUME ReviewInv,
         \/ \E a \in Approvals : AskApproval(a)
         \/ \E a \in InChat : RemountBlock(a)
         \/ \E k \in Clicks, a \in Approvals : \E v \in VerdictsOn(a) : DecideOnPanel(k, a, v)
         \/ \E k \in Clicks, a \in InChat, v \in Decisions : DecideOnBlock(k, a, v)
  PROVE  ReviewInv'
<1>1. /\ status \in [Approvals -> StatusType] /\ taken \in [InChat -> SUBSET Decisions]
      /\ panel \in PanelType /\ poll \in [Polls -> PollType]
      /\ block \in [InChat -> BlockType] /\ click \in [Clicks -> ClickType]
  BY ReviewTypes DEF ReviewInv
<1>2. panel' = panel /\ poll' = poll /\ taken' = taken
  BY DEF AskApproval, RemountBlock, DecideOnPanel, DecideOnBlock
<1>3. ASSUME /\ status' = status
             /\ block' \in [InChat -> BlockType] /\ click' \in [Clicks -> ClickType]
             /\ \A a \in InChat : block'[a].status \in {"pending", block[a].status}
             /\ \A k \in Clicks : \/ click'[k] = click[k]
                                  \/ /\ click'[k].at = "sent"
                                     /\ click'[k].from = "block" => click'[k].id \in InChat
      PROVE  ReviewInv'
  <2>1. ReviewTypeOK'
    BY <1>1, <1>2, <1>3, ReviewTypesNext
  <2>2. UndecidedUntaken' /\ \A a \in InChat, v \in Decisions : Recorded(a, v) => Recorded(a, v)'
    BY <1>2, <1>3 DEF ReviewInv, UndecidedUntaken, Recorded
  <2>3. \A a \in InChat, v \in Decisions :
          block'[a].status = v => block[a].status = v \/ Recorded(a, v)'
    BY <1>3 DEF Decisions
  <2>4. QED
    BY <1>3, <2>1, <2>2, <2>3, ReviewFrame
<1>4. ASSUME NEW a \in Approvals, AskApproval(a) PROVE ReviewInv'
  <2>1. block' = block /\ click' = click
        /\ status' = [status EXCEPT ![a] = "pending"] /\ status[a] = "absent"
    BY <1>4 DEF AskApproval
  <2>2. ReviewTypeOK'
    <3>1. status' \in [Approvals -> StatusType]
      BY <1>1, <2>1 DEF StatusType
    <3>2. QED
      BY <1>1, <1>2, <2>1, <3>1, ReviewTypesNext
  <2>3. UndecidedUntaken'
    BY <1>1, <1>2, <2>1, ApprovalReviewAssumption DEF ReviewInv, UndecidedUntaken
  <2>4. \A b \in InChat, v \in Decisions : Recorded(b, v) => Recorded(b, v)'
    <3> SUFFICES ASSUME NEW b \in InChat, NEW v \in Decisions, Recorded(b, v)
                 PROVE  Recorded(b, v)'
      OBVIOUS
    <3>1. b # a
      BY <2>1 DEF ReviewInv, UndecidedUntaken, Recorded
    <3>2. status'[b] = status[b]
      BY <1>1, <2>1, <3>1, ApprovalReviewAssumption
    <3>3. QED
      BY <1>2, <3>2 DEF Recorded
  <2>5. QED
    BY <2>1, <2>2, <2>3, <2>4, ReviewFrame
<1>5. ASSUME NEW a \in InChat, RemountBlock(a) PROVE ReviewInv'
  <2>1. status' = status /\ click' = click /\ block' = [block EXCEPT ![a] = Waiting]
    BY <1>5 DEF RemountBlock
  <2>2. QED
    BY <1>1, <1>3, <2>1 DEF Waiting, BlockType
<1>6. ASSUME NEW k \in Clicks, NEW a \in Approvals, NEW v \in VerdictsOn(a),
             DecideOnPanel(k, a, v)
      PROVE  ReviewInv'
  <2> DEFINE c == [at |-> "sent", from |-> "panel", id |-> a, verdict |-> v,
                   list |-> panel.list]
  <2>1. status' = status /\ block' = block /\ click' = [click EXCEPT ![k] = c]
    BY <1>6 DEF DecideOnPanel
  <2>2. v \in Decisions
    BY DEF VerdictsOn, Decisions
  <2>3. c \in ClickType /\ c.at = "sent" /\ c.from = "panel"
    BY <1>1, <2>2 DEF ClickType, PanelType
  <2> HIDE DEF c
  <2>4. QED
    BY <1>1, <1>3, <2>1, <2>3
<1>7. ASSUME NEW k \in Clicks, NEW a \in InChat, NEW v \in Decisions, DecideOnBlock(k, a, v)
      PROVE  ReviewInv'
  <2> DEFINE c == [at |-> "sent", from |-> "block", id |-> a, verdict |-> v, list |-> {}]
  <2>1. status' = status /\ block' = [block EXCEPT ![a].busy = TRUE]
        /\ click' = [click EXCEPT ![k] = c]
    BY <1>7 DEF DecideOnBlock
  <2>2. c \in ClickType /\ c.at = "sent" /\ c.id = a
    BY ApprovalReviewAssumption DEF ClickType
  <2> HIDE DEF c
  <2>3. block' \in [InChat -> BlockType]
        /\ \A b \in InChat : block'[b].status = block[b].status
    BY <1>1, <2>1 DEF BlockType
  <2>4. QED
    BY <1>1, <1>3, <2>1, <2>2, <2>3
<1>8. QED
  BY <1>4, <1>5, <1>6, <1>7

LEMMA FailedType ==
  ASSUME NEW c \in ClickType
  PROVE  /\ Failed(c) \in ClickType
         /\ Failed(c).at # "ok"
         /\ Failed(c).from = "block" => c.from = "block" /\ Failed(c).id = c.id
<1>1. CASE c.from = "panel"
  BY <1>1, UnusedType DEF Failed
<1>2. CASE c.from # "panel"
  BY <1>2 DEF Failed, ClickType
<1>3. QED
  BY <1>1, <1>2

(* A handler looks at the status, or the request or its answer is lost. *)
LEMMA CheckKeeps ==
  ASSUME ReviewInv, NEW k \in Clicks, CheckDecision(k) \/ LoseDecision(k)
  PROVE  ReviewInv'
<1>1. /\ status \in [Approvals -> StatusType] /\ taken \in [InChat -> SUBSET Decisions]
      /\ panel \in PanelType /\ poll \in [Polls -> PollType]
      /\ block \in [InChat -> BlockType] /\ click \in [Clicks -> ClickType]
  BY ReviewTypes DEF ReviewInv
<1>2. status' = status /\ taken' = taken /\ panel' = panel /\ poll' = poll /\ block' = block
  BY DEF CheckDecision, LoseDecision
<1>3. PICK c \in {[click[k] EXCEPT !.at = "checked"], Failed(click[k])} :
        click' = [click EXCEPT ![k] = c]
  BY <1>1 DEF CheckDecision, LoseDecision
<1>4. /\ c \in ClickType /\ c.at # "ok"
      /\ c.from = "block" => click[k].from = "block" /\ c.id = click[k].id
  <2>1. click[k] \in ClickType
    BY <1>1
  <2>2. CASE c = Failed(click[k])
    BY <2>1, <2>2, FailedType
  <2>3. CASE c = [click[k] EXCEPT !.at = "checked"]
    BY <2>1, <2>3 DEF ClickType
  <2>4. QED
    BY <2>2, <2>3
<1>5. c.from = "block" => c.id \in InChat
  BY <1>4 DEF ReviewInv, TakenClicks
<1>6. click' \in [Clicks -> ClickType] /\ click'[k] = c
      /\ \A j \in Clicks : j # k => click'[j] = click[j]
  BY <1>1, <1>3, <1>4
<1>7. ReviewTypeOK'
  BY <1>1, <1>2, <1>6, ReviewTypesNext
<1>8. UndecidedUntaken' /\ \A a \in InChat, v \in Decisions : Recorded(a, v) => Recorded(a, v)'
  BY <1>2 DEF ReviewInv, UndecidedUntaken, Recorded
<1>9. QED
  BY <1>2, <1>4, <1>5, <1>6, <1>7, <1>8, ReviewFrame

(* A decision is recorded: what was recorded before is now one of both. *)
LEMMA TakeKeeps ==
  ASSUME ReviewInv, NEW k \in Clicks, TakeDecision(k)
  PROVE  ReviewInv'
<1> DEFINE i == click[k].id
           d == click[k].verdict
<1>1. /\ status \in [Approvals -> StatusType] /\ taken \in [InChat -> SUBSET Decisions]
      /\ panel \in PanelType /\ poll \in [Polls -> PollType]
      /\ block \in [InChat -> BlockType] /\ click \in [Clicks -> ClickType]
  BY ReviewTypes DEF ReviewInv
<1>2. i \in Approvals /\ d \in Decisions
  BY <1>1 DEF ClickType
<1>3. /\ status' = [status EXCEPT ![i] = d]
      /\ taken' = [a \in InChat |-> IF a = i THEN taken[a] \union {d} ELSE taken[a]]
      /\ click' = [click EXCEPT ![k].at = "ok"]
      /\ panel' = panel /\ poll' = poll /\ block' = block
  BY DEF TakeDecision
<1>4. /\ click' \in [Clicks -> ClickType]
      /\ click'[k].id = i /\ click'[k].from = click[k].from /\ click'[k].verdict = d
      /\ \A j \in Clicks : j # k => click'[j] = click[j]
  BY <1>1, <1>3 DEF ClickType
<1> HIDE DEF i, d
<1>5. status' \in [Approvals -> StatusType] /\ taken' \in [InChat -> SUBSET Decisions]
  BY <1>1, <1>2, <1>3 DEF StatusType
<1>6. ReviewTypeOK'
  BY <1>1, <1>3, <1>4, <1>5, ReviewTypesNext
<1>7. UndecidedUntaken'
  BY <1>1, <1>2, <1>3, ApprovalReviewAssumption DEF ReviewInv, UndecidedUntaken, Decisions
<1>8. \A a \in InChat, v \in Decisions : a = i /\ v = d => Recorded(a, v)'
  BY <1>1, <1>2, <1>3, ApprovalReviewAssumption DEF Recorded
<1>9. \A a \in InChat, v \in Decisions : Recorded(a, v) => Recorded(a, v)'
  <2> SUFFICES ASSUME NEW a \in InChat, NEW v \in Decisions, Recorded(a, v)
               PROVE  Recorded(a, v)'
    OBVIOUS
  <2>1. a \in Approvals
    BY ApprovalReviewAssumption
  <2>2. CASE a # i
    BY <1>1, <1>3, <2>1, <2>2 DEF Recorded
  <2>3. CASE a = i /\ v = d
    BY <1>8, <2>3
  <2>4. CASE a = i /\ v # d
    <3>1. taken'[a] = taken[a] \union {d} /\ v \in taken[a] /\ taken[a] \in SUBSET Decisions
      BY <1>1, <1>3, <2>4 DEF Recorded
    <3>2. {v, d} = Decisions
      BY <1>2, <2>4 DEF Decisions
    <3>3. taken'[a] = Decisions
      BY <1>2, <3>1, <3>2
    <3>4. QED
      BY <3>1, <3>3 DEF Recorded
  <2>5. QED
    BY <2>2, <2>3, <2>4
<1>10. QED
  BY <1>3, <1>4, <1>6, <1>7, <1>8, <1>9, ReviewFrame DEF i, d

(* A restart forgets what was decided; nothing new is recorded by it. *)
LEMMA RestartKeeps ==
  ASSUME ReviewInv, RestartStore
  PROVE  ReviewInv'
<1>1. /\ status \in [Approvals -> StatusType] /\ taken \in [InChat -> SUBSET Decisions]
      /\ panel \in PanelType /\ poll \in [Polls -> PollType]
      /\ block \in [InChat -> BlockType] /\ click \in [Clicks -> ClickType]
  BY ReviewTypes DEF ReviewInv
<1>2. /\ status' = [a \in Approvals |-> IF status[a] = "absent" THEN "absent" ELSE "lost"]
      /\ click' = [k \in Clicks |-> IF click[k].at \in {"sent", "checked"}
                                    THEN Failed(click[k]) ELSE click[k]]
      /\ poll' = [p \in Polls |-> IF poll[p].at = "asked" THEN IdlePoll ELSE poll[p]]
      /\ taken' = taken /\ panel' = panel /\ block' = block
  BY DEF RestartStore
<1>3. ReviewTypeOK'
  <2>1. status' \in [Approvals -> StatusType]
    BY <1>2 DEF StatusType
  <2>2. click' \in [Clicks -> ClickType]
    BY <1>1, <1>2, FailedType
  <2>3. IdlePoll \in PollType
    BY <1>1 DEF IdlePoll, PollType, PanelType
  <2>4. poll' \in [Polls -> PollType]
    BY <1>1, <1>2, <2>3
  <2>5. QED
    BY <1>1, <1>2, <2>1, <2>2, <2>4, ReviewTypesNext
<1>4. \A a \in InChat : \/ status[a] = "absent" /\ status'[a] = "absent"
                        \/ status'[a] = "lost"
  BY <1>2, ApprovalReviewAssumption
<1>5. UndecidedUntaken'
  BY <1>2, <1>4 DEF ReviewInv, UndecidedUntaken
<1>6. \A a \in InChat, v \in Decisions : Recorded(a, v) => Recorded(a, v)'
  BY <1>2, <1>4 DEF ReviewInv, UndecidedUntaken, Recorded
<1>7. \A k \in Clicks : \/ click'[k] = click[k]
                        \/ click'[k].from = "block" => /\ click'[k].id \in InChat
                                                       /\ click'[k].at # "ok"
  <2> SUFFICES ASSUME NEW k \in Clicks, click'[k] # click[k], click'[k].from = "block"
               PROVE  click'[k].id \in InChat /\ click'[k].at # "ok"
    OBVIOUS
  <2>1. click'[k] = Failed(click[k]) /\ click[k] \in ClickType
    BY <1>1, <1>2
  <2>2. QED
    BY <2>1, FailedType DEF ReviewInv, TakenClicks
<1>8. QED
  BY <1>2, <1>3, <1>5, <1>6, <1>7, ReviewFrame

LEMMA AnswerKeeps ==
  ASSUME ReviewInv, NEW k \in Clicks, DecisionAnswered(k)
  PROVE  ReviewInv'
<1>1. /\ status \in [Approvals -> StatusType] /\ taken \in [InChat -> SUBSET Decisions]
      /\ panel \in PanelType /\ poll \in [Polls -> PollType]
      /\ block \in [InChat -> BlockType] /\ click \in [Clicks -> ClickType]
  BY ReviewTypes DEF ReviewInv
<1>2. /\ click[k].id \in Approvals /\ click[k].verdict \in Decisions
      /\ click[k].list \in SUBSET Approvals
  BY <1>1 DEF ClickType
<1> DEFINE gone == [Unused EXCEPT !.at = "gone"]
<1>3. gone \in ClickType /\ gone.at = "gone" /\ gone.from = "panel"
  BY UnusedType
<1>4. status' = status /\ taken' = taken /\ poll' = poll
      /\ click' = [click EXCEPT ![k] = gone]
  BY DEF DecisionAnswered, Answered
<1> HIDE DEF gone
<1>5. click' \in [Clicks -> ClickType] /\ click'[k].from = "panel"
      /\ \A j \in Clicks : j # k => click'[j] = click[j]
  BY <1>1, <1>3, <1>4
<1>6. UndecidedUntaken' /\ \A a \in InChat, v \in Decisions : Recorded(a, v) <=> Recorded(a, v)'
  BY <1>4 DEF ReviewInv, UndecidedUntaken, Recorded
<1>7. CASE click[k].from = "panel"
  <2>1. panel' \in PanelType /\ block' = block
    BY <1>1, <1>2, <1>7 DEF DecisionAnswered, Answered, PanelType
  <2>2. ReviewTypeOK'
    BY <1>1, <1>4, <1>5, <2>1, ReviewTypesNext
  <2>3. QED
    BY <1>5, <1>6, <2>1, <2>2, ReviewFrame
<1>8. CASE click[k].from = "block"
  <2> DEFINE i == click[k].id
             s == IF click[k].at = "ok" THEN click[k].verdict ELSE block[i].status
  <2>1. i \in InChat /\ (click[k].at = "ok" => Recorded(i, click[k].verdict))
    BY <1>8 DEF ReviewInv, TakenClicks
  <2>2. panel' = panel /\ block' = [block EXCEPT ![i] = [status |-> s, busy |-> FALSE]]
    BY <1>1, <1>8, <2>1 DEF DecisionAnswered, Answered
  <2>3. s \in {"pending"} \union Decisions
    BY <1>1, <1>2, <2>1 DEF BlockType
  <2>4. \A v \in Decisions : s = v => block[i].status = v \/ Recorded(i, v)
    BY <2>1
  <2> HIDE DEF i, s
  <2>5. block' \in [InChat -> BlockType] /\ block'[i].status = s
        /\ \A a \in InChat : a # i => block'[a] = block[a]
    BY <1>1, <2>1, <2>2, <2>3 DEF BlockType
  <2>6. ReviewTypeOK'
    BY <1>1, <1>4, <1>5, <2>2, <2>5, ReviewTypesNext
  <2>7. \A a \in InChat, v \in Decisions :
          block'[a].status = v => block[a].status = v \/ Recorded(a, v)'
    BY <1>6, <2>1, <2>4, <2>5
  <2>8. QED
    BY <1>5, <1>6, <2>6, <2>7, ReviewFrame
<1>9. QED
  BY <1>1, <1>7, <1>8 DEF ClickType

LEMMA ReviewStep == ReviewInv /\ [ReviewNext]_reviewVars => ReviewInv'
  BY PollKeeps, AskKeeps, CheckKeeps, TakeKeeps, RestartKeeps, AnswerKeeps
  DEF ReviewNext, DecisionStep

LEMMA ReviewInvHolds == ReviewSpec => []ReviewInv
  BY ReviewInitInv, ReviewStep, PTL DEF ReviewSpec

(* The review pages keep their types: store, lists, polls and clicks.      *)
THEOREM ReviewTypeCorrect == ReviewSpec => []ReviewTypeOK
<1>1. ReviewInv => ReviewTypeOK
  BY DEF ReviewInv
<1>2. QED
  BY <1>1, ReviewInvHolds, PTL

(* Whoever else decides the same request at the same time, and whatever is *)
(* lost or restarts: a decision the chat shows is one the store took, and  *)
(* the one it holds unless it took both.                                   *)
THEOREM NoRefusedDecisionShows == ReviewSpec => []ShownDecisionWasTaken
<1>1. ReviewInv => ShownDecisionWasTaken
  BY DEF ReviewInv
<1>2. QED
  BY <1>1, ReviewInvHolds, PTL
=============================================================================
