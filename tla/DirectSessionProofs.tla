------------------------ MODULE DirectSessionProofs ------------------------
(***************************************************************************)
(* Proofs about direct execution, for any number of requests, streams,     *)
(* sessions, threads and events.                                           *)
(***************************************************************************)
EXTENDS DirectSession, FiniteSetTheorems, SequenceTheorems, TLAPS

(* The end of request r is among the events of the session x. *)
HasEnd(r, x) ==
  \E i \in DOMAIN x.events : x.events[i] = [by |-> r, kind |-> "end"]

(* The session y is x after some time. *)
Later(x, y) ==
  /\ y \in Sessions
  /\ Len(x.events) <= Len(y.events)
  /\ \A i \in 1..Len(x.events) : y.events[i] = x.events[i]

Mentions(messages, r) == \E k \in DOMAIN messages : messages[k] = r

(* A task that has put its history back. *)
Over == {"completed", "stopped", "done"}

(* A request is in the thread pool only once it has a session, and has     *)
(* none when it failed.                                                    *)
Placed(q, a) ==
  /\ q.at = "failed" => q.sid = NoSession
  /\ a.at # "none" => q.at \in {"awaiting", "answered", "polled"} /\ q.sid \in Requests
  /\ q.at \in {"found", "awaiting", "answered"} => q.sid \in Requests

(* A request that is answered, or whose agent has come to an end, has an   *)
(* end in its session; and a chat that was shown something saw it.         *)
Concluded(r, q, a) ==
  /\ a.at \in {"completed", "done"} \/ q.at = "answered" => HasEnd(r, session[q.sid])
  /\ q.seen # {} => "end" \in q.seen

(* Another request on r's session has put back a history without r. *)
Dropped(r) ==
  \E q \in Requests \ {r} :
    /\ req[q].sid = req[r].sid
    /\ attempt[q].at \in Over
    /\ ~Mentions(attempt[q].messages, r)

(* The message of r reaches the session, and the copy its agent takes. *)
Heard(r) ==
  /\ attempt[r].at = "queued" =>
       Mentions(session[req[r].sid].messages, r) \/ Dropped(r)
  /\ attempt[r].at \in InPool \union {"done"} =>
       Mentions(attempt[r].messages, r) \/ Dropped(r)

(* What a stream has sent is one stretch, which goes at least as far as    *)
(* its count.                                                              *)
Sent(v) ==
  \/ v.at = "idle" /\ v.sent = {}
  \/ /\ v.at # "idle"
     /\ v.sid \in Requests
     /\ v.base <= v.last
     /\ v.at = "slice" => v.last <= v.count /\ v.count <= Len(session[v.sid].events)
     /\ \E m \in Nat : /\ v.last <= m
                       /\ m <= Len(session[v.sid].events)
                       /\ v.sent = (v.base + 1)..m

IInv ==
  /\ TypeOK
  /\ \A r \in Requests : /\ Placed(req[r], attempt[r])
                         /\ Concluded(r, req[r], attempt[r])
                         /\ Heard(r)
  /\ \A w \in Watchers : Sent(watch[w])

----------------------------------------------------------------------------
(* Sessions                                                                *)

LEMMA SessionFields ==
  ASSUME NEW x \in Sessions, NEW v
  PROVE  /\ [x EXCEPT !.events = v] =
              [events |-> v, messages |-> x.messages, finished |-> x.finished]
         /\ [x EXCEPT !.messages = v] =
              [events |-> x.events, messages |-> v, finished |-> x.finished]
         /\ [x EXCEPT !.finished = v] =
              [events |-> x.events, messages |-> x.messages, finished |-> v]
BY DEF Sessions

LEMMA LaterRefl ==
  ASSUME NEW x \in Sessions
  PROVE  Later(x, x)
BY DEF Later, Sessions

LEMMA LaterTrans ==
  ASSUME NEW x \in Sessions, NEW y, NEW z, Later(x, y), Later(y, z)
  PROVE  Later(x, z)
<1>1. Len(x.events) \in Nat /\ Len(y.events) \in Nat /\ Len(z.events) \in Nat
  BY DEF Later, Sessions
<1>2. QED
  BY <1>1 DEF Later

(* An event is added. *)
LEMMA EventAdded ==
  ASSUME NEW x \in Sessions, NEW r \in Requests, NEW kind \in Kinds
  PROVE  /\ Later(x, AddEvent(x, r, kind))
         /\ AddEvent(x, r, kind).messages = x.messages
         /\ kind = "end" => HasEnd(r, AddEvent(x, r, kind))
<1> DEFINE e == [by |-> r, kind |-> kind]
<1>1. e \in Events /\ x.events \in Seq(Events)
  BY DEF Events, Sessions
<1>2. AddEvent(x, r, kind) = [events |-> Append(x.events, e), messages |-> x.messages,
                              finished |-> x.finished]
  BY SessionFields DEF AddEvent
<1> DEFINE q == Append(x.events, e)
<1>3. /\ q \in Seq(Events)
      /\ Len(q) = Len(x.events) + 1
      /\ \A i \in 1..Len(x.events) : q[i] = x.events[i]
      /\ q[Len(q)] = e
      /\ Len(x.events) \in Nat
      /\ DOMAIN q = 1..Len(q)
  BY <1>1, AppendProperties, LenProperties
<1> HIDE DEF q
<1>4. AddEvent(x, r, kind) = [events |-> q, messages |-> x.messages, finished |-> x.finished]
  BY <1>2 DEF q
<1>5. Later(x, AddEvent(x, r, kind))
  BY <1>3, <1>4 DEF Later, Sessions
<1>6. Len(q) \in DOMAIN q
  BY <1>3
<1>7. kind = "end" => HasEnd(r, AddEvent(x, r, kind))
  BY <1>3, <1>4, <1>6 DEF HasEnd
<1>8. QED
  BY <1>4, <1>5, <1>7

LEMMA MessageAdded ==
  ASSUME NEW x \in Sessions, NEW r \in Requests
  PROVE  /\ Later(x, AddMessage(x, r))
         /\ Mentions(AddMessage(x, r).messages, r)
         /\ \A t : Mentions(x.messages, t) => Mentions(AddMessage(x, r).messages, t)
<1> DEFINE q == Append(x.messages, r)
<1>1. x.messages \in Seq(Requests) /\ x.events \in Seq(Events)
  BY DEF Sessions
<1>2. AddMessage(x, r) = [events |-> x.events, messages |-> q, finished |-> x.finished]
  BY SessionFields DEF AddMessage
<1>3. /\ q \in Seq(Requests)
      /\ Len(q) = Len(x.messages) + 1
      /\ \A i \in 1..Len(x.messages) : q[i] = x.messages[i]
      /\ q[Len(q)] = r
      /\ Len(x.messages) \in Nat
      /\ DOMAIN q = 1..Len(q)
      /\ DOMAIN x.messages = 1..Len(x.messages)
  BY <1>1, AppendProperties, LenProperties
<1> HIDE DEF q
<1>4. Len(q) \in DOMAIN q /\ DOMAIN x.messages \subseteq DOMAIN q
  BY <1>3
<1>5. Later(x, AddMessage(x, r))
  BY <1>1, <1>2, <1>3 DEF Later, Sessions
<1>6. Mentions(q, r) /\ \A t : Mentions(x.messages, t) => Mentions(q, t)
  BY <1>3, <1>4 DEF Mentions
<1>7. QED
  BY <1>2, <1>5, <1>6

LEMMA PutBackKeeps ==
  ASSUME NEW x \in Sessions, NEW messages \in Seq(Requests)
  PROVE  Later(x, PutBack(x, messages)) /\ PutBack(x, messages).messages = messages
<1>1. PutBack(x, messages) = [events |-> x.events, messages |-> messages, finished |-> x.finished]
  BY SessionFields DEF PutBack
<1>2. QED
  BY <1>1 DEF Later, Sessions

LEMMA FinishKeeps ==
  ASSUME NEW x \in Sessions
  PROVE  /\ Later(x, Finish(x))
         /\ Finish(x).messages = x.messages
         /\ \A r : HasEnd(r, x) => HasEnd(r, Finish(x))
<1>1. Finish(x) = [events |-> x.events, messages |-> x.messages, finished |-> TRUE]
  BY SessionFields DEF Finish
<1>2. QED
  BY <1>1 DEF Later, Sessions, HasEnd

LEMMA EndStays ==
  ASSUME NEW x \in Sessions, NEW y, Later(x, y), NEW r, HasEnd(r, x)
  PROVE  HasEnd(r, y)
<1>1. x.events \in Seq(Events) /\ y.events \in Seq(Events)
  BY DEF Later, Sessions
<1>2. DOMAIN x.events = 1..Len(x.events) /\ DOMAIN y.events = 1..Len(y.events)
      /\ Len(x.events) \in Nat /\ Len(y.events) \in Nat
  BY <1>1, LenProperties
<1>3. QED
  BY <1>2 DEF Later, HasEnd

----------------------------------------------------------------------------
(* Requests, tasks and streams                                             *)

ReqAts == {"idle", "answered", "failed", "polled"} \union Serving

(* The changes of a request's and of a task's record, by name. *)
WithAt(q, v)        == [q EXCEPT !.at = v]
WithSid(q, v, n)    == [q EXCEPT !.at = v, !.sid = n]
WithOldest(q, v, n) == [q EXCEPT !.at = v, !.oldest = n]
WithSeen(q, v, k)   == [q EXCEPT !.at = v, !.seen = k]
WithCopy(a, v, c)   == [a EXCEPT !.at = v, !.messages = c]
WithSteps(a, n)     == [a EXCEPT !.steps = n]

LEMMA ReqAt ==
  ASSUME NEW q \in ReqStates, NEW v \in ReqAts
  PROVE  /\ WithAt(q, v) \in ReqStates
         /\ WithAt(q, v).at = v
         /\ WithAt(q, v).sid = q.sid
         /\ WithAt(q, v).seen = q.seen
BY DEF ReqStates, ReqAts, WithAt

LEMMA ReqAtSid ==
  ASSUME NEW q \in ReqStates, NEW v \in ReqAts, NEW n \in Names
  PROVE  /\ WithSid(q, v, n) \in ReqStates
         /\ WithSid(q, v, n).at = v
         /\ WithSid(q, v, n).sid = n
         /\ WithSid(q, v, n).seen = q.seen
BY DEF ReqStates, ReqAts, WithSid

LEMMA ReqAtOldest ==
  ASSUME NEW q \in ReqStates, NEW v \in ReqAts, NEW n \in Names
  PROVE  /\ WithOldest(q, v, n) \in ReqStates
         /\ WithOldest(q, v, n).at = v
         /\ WithOldest(q, v, n).sid = q.sid
         /\ WithOldest(q, v, n).seen = q.seen
BY DEF ReqStates, ReqAts, WithOldest

LEMMA ReqAtSeen ==
  ASSUME NEW q \in ReqStates, NEW v \in ReqAts, NEW k \in SUBSET Kinds
  PROVE  /\ WithSeen(q, v, k) \in ReqStates
         /\ WithSeen(q, v, k).at = v
         /\ WithSeen(q, v, k).sid = q.sid
         /\ WithSeen(q, v, k).seen = k
BY DEF ReqStates, ReqAts, WithSeen

AttemptAts == {"none", "queued", "done"} \union InPool

LEMMA TaskAt ==
  ASSUME NEW a \in Attempts, NEW v \in AttemptAts
  PROVE  /\ WithAt(a, v) \in Attempts
         /\ WithAt(a, v).at = v
         /\ WithAt(a, v).messages = a.messages
BY DEF Attempts, AttemptAts, WithAt

LEMMA TaskStarts ==
  ASSUME NEW a \in Attempts, NEW v \in AttemptAts, NEW c \in Seq(Requests)
  PROVE  /\ WithCopy(a, v, c) \in Attempts
         /\ WithCopy(a, v, c).at = v
         /\ WithCopy(a, v, c).messages = c
BY DEF Attempts, AttemptAts, WithCopy

LEMMA TaskSteps ==
  ASSUME NEW a \in Attempts, NEW n \in Nat
  PROVE  /\ WithSteps(a, n) \in Attempts
         /\ WithSteps(a, n).at = a.at
         /\ WithSteps(a, n).messages = a.messages
BY DEF Attempts, AttemptAts, WithSteps

LEMMA TouchType ==
  ASSUME older \subseteq Requests \X Requests, NEW s \in Requests,
         NEW t \in SUBSET Requests, Touch(s, t)
  PROVE  older' \subseteq Requests \X Requests
BY DEF Touch, Without

LEMMA MaxOfTwo ==
  ASSUME NEW m \in Nat, NEW n \in Nat
  PROVE  /\ Max({m, n}) \in {m, n}
         /\ Max({m, n}) >= m
         /\ Max({m, n}) >= n
<1>1. \E x \in {m, n} : \A y \in {m, n} : x >= y
  OBVIOUS
<1>2. QED
  BY <1>1 DEF Max

LEMMA PeakType ==
  ASSUME peak \in Nat, NEW S \in SUBSET Requests
  PROVE  /\ Max({peak, Cardinality(S)}) \in Nat
         /\ Max({peak, Cardinality(S)}) >= peak
         /\ Max({peak, Cardinality(S)}) >= Cardinality(S)
<1>1. Cardinality(S) \in Nat
  BY DirectAssumption, FS_Subset, FS_CardinalityType
<1>2. QED
  BY <1>1, MaxOfTwo

(* A history that was put back stays put back. *)
LEMMA DroppedStays ==
  ASSUME IInv, NEW r \in Requests, NEW q, NEW a,
         req' = [req EXCEPT ![r] = q], attempt' = [attempt EXCEPT ![r] = a],
         attempt[r].at # "none" => q.sid = req[r].sid,
         attempt[r].at \in Over => a.at \in Over /\ a.messages = attempt[r].messages,
         NEW t \in Requests, attempt[t].at # "none", Dropped(t)
  PROVE  Dropped(t)'
<1>1. req \in [Requests -> ReqStates] /\ attempt \in [Requests -> Attempts]
  BY DEF IInv, TypeOK
<1>2. PICK p \in Requests \ {t} : /\ req[p].sid = req[t].sid
                                  /\ attempt[p].at \in Over
                                  /\ ~Mentions(attempt[p].messages, t)
  BY DEF Dropped
<1>3. \A x \in Requests : x # r => req'[x] = req[x] /\ attempt'[x] = attempt[x]
  BY <1>1
<1>4. req'[r] = q /\ attempt'[r] = a
  BY <1>1
<1>5. attempt[p].at # "none"
  BY <1>2 DEF Over
<1>6. req'[t].sid = req[t].sid
  BY <1>3, <1>4
<1>7. req'[p].sid = req[p].sid
  BY <1>3, <1>4, <1>5
<1>8. attempt'[p].at \in Over /\ attempt'[p].messages = attempt[p].messages
  BY <1>2, <1>3, <1>4
<1>9. QED
  BY <1>2, <1>6, <1>7, <1>8 DEF Dropped

(* One request, its task and the sessions move. *)
LEMMA RequestMoves ==
  ASSUME IInv, NEW r \in Requests, NEW q \in ReqStates, NEW a \in Attempts,
         req' = [req EXCEPT ![r] = q], attempt' = [attempt EXCEPT ![r] = a],
         UNCHANGED watch,
         session' \in [Requests -> Sessions],
         \A s \in Requests : Later(session[s], session'[s]),
         table' \subseteq Requests, older' \subseteq Requests \X Requests, peak' \in Nat,
         attempt[r].at # "none" => q.sid = req[r].sid,
         attempt[r].at \in Over => a.at \in Over /\ a.messages = attempt[r].messages,
         Placed(q, a), Concluded(r, q, a)', Heard(r)',
         \A t \in Requests \ {r} :
           attempt[t].at = "queued" /\ Mentions(session[req[t].sid].messages, t)
             => Mentions(session'[req[t].sid].messages, t) \/ Dropped(t)'
  PROVE  IInv'
<1>1. req \in [Requests -> ReqStates] /\ attempt \in [Requests -> Attempts]
      /\ session \in [Requests -> Sessions]
  BY DEF IInv, TypeOK
<1>2. /\ req' \in [Requests -> ReqStates] /\ attempt' \in [Requests -> Attempts]
      /\ req'[r] = q /\ attempt'[r] = a
      /\ \A t \in Requests : t # r => req'[t] = req[t] /\ attempt'[t] = attempt[t]
  BY <1>1
<1>3. TypeOK'
  BY <1>2 DEF IInv, TypeOK
<1>4. ASSUME NEW t \in Requests, t # r
      PROVE  (Placed(req[t], attempt[t]) /\ Concluded(t, req[t], attempt[t]) /\ Heard(t))'
  <2>1. Placed(req[t], attempt[t]) /\ Concluded(t, req[t], attempt[t]) /\ Heard(t)
    BY <1>4 DEF IInv
  <2>2. PICK p \in ReqStates : p = req[t] /\ p = req'[t]
    BY <1>1, <1>2, <1>4
  <2>3. PICK b \in Attempts : b = attempt[t] /\ b = attempt'[t]
    BY <1>1, <1>2, <1>4
  <2>4. Placed(p, b) /\ Concluded(t, p, b)
    BY <2>1, <2>2, <2>3
  <2>5. Concluded(t, p, b)'
    <3>1. ASSUME b.at \in {"completed", "done"} \/ p.at = "answered"
          PROVE  HasEnd(t, session'[p.sid])
      <4>1. p.sid \in Requests /\ HasEnd(t, session[p.sid])
        BY <2>4, <3>1 DEF Placed, Concluded
      <4>2. Later(session[p.sid], session'[p.sid]) /\ session[p.sid] \in Sessions
        BY <1>1, <4>1
      <4>3. QED
        BY <4>1, <4>2, EndStays
    <3>2. QED
      BY <2>4, <3>1 DEF Concluded
  <2>6. Heard(t)'
    <3>1. Dropped(t) /\ b.at # "none" => Dropped(t)'
      BY <2>3, DroppedStays
    <3>2. b.at = "queued" => Mentions(session'[p.sid].messages, t) \/ Dropped(t)'
      BY <1>4, <2>1, <2>2, <2>3, <3>1 DEF Heard
    <3>3. b.at \in InPool \union {"done"} => Mentions(b.messages, t) \/ Dropped(t)'
      BY <2>1, <2>3, <3>1 DEF Heard, InPool
    <3>4. QED
      BY <2>2, <2>3, <3>2, <3>3 DEF Heard
  <2>7. QED
    BY <2>2, <2>3, <2>4, <2>5, <2>6
<1>5. (Placed(req[r], attempt[r]) /\ Concluded(r, req[r], attempt[r]) /\ Heard(r))'
  BY <1>2
<1>6. ASSUME NEW w \in Watchers
      PROVE  Sent(watch[w])'
  <2>1. PICK v \in WatchStates : v = watch[w] /\ v = watch'[w]
    BY DEF IInv, TypeOK
  <2>2. Sent(v)
    BY <2>1 DEF IInv
  <2>3. CASE v.at = "idle"
    BY <2>1, <2>2, <2>3 DEF Sent
  <2>4. CASE v.at # "idle"
    <3>1. v.sid \in Requests
      BY <2>2, <2>4 DEF Sent
    <3>2. PICK x \in Sessions : x = session[v.sid]
      BY <1>1, <3>1
    <3>3. PICK y \in Sessions : y = session'[v.sid]
      BY <3>1
    <3>4. Len(x.events) <= Len(y.events) /\ Len(x.events) \in Nat /\ Len(y.events) \in Nat
      BY <3>1, <3>2, <3>3 DEF Later, Sessions
    <3>5. v.count \in Nat
      BY DEF WatchStates
    <3>6. v.base <= v.last /\ (v.at = "slice" => v.last <= v.count /\ v.count <= Len(y.events))
      BY <2>2, <2>4, <3>2, <3>4, <3>5 DEF Sent
    <3>7. PICK m \in Nat : /\ v.last <= m
                           /\ m <= Len(x.events)
                           /\ v.sent = (v.base + 1)..m
      BY <2>2, <2>4, <3>2 DEF Sent
    <3>8. m <= Len(y.events)
      BY <3>4, <3>7
    <3>9. QED
      BY <2>1, <2>4, <3>1, <3>3, <3>6, <3>7, <3>8 DEF Sent
  <2>5. QED
    BY <2>3, <2>4
<1>7. QED
  BY <1>3, <1>4, <1>5, <1>6 DEF IInv

(* What IInv says of one request. *)
LEMMA OneRequest ==
  ASSUME IInv, NEW r \in Requests
  PROVE  /\ req[r] \in ReqStates
         /\ attempt[r] \in Attempts
         /\ Placed(req[r], attempt[r])
         /\ Concluded(r, req[r], attempt[r])
         /\ Heard(r)
         /\ req = [req EXCEPT ![r] = req[r]]
         /\ attempt = [attempt EXCEPT ![r] = attempt[r]]
         /\ session \in [Requests -> Sessions]
         /\ table \subseteq Requests
         /\ older \subseteq Requests \X Requests
         /\ peak \in Nat
BY DEF IInv, TypeOK

(* A handler moves: its task and the sessions stay. *)
LEMMA HandlerMoves ==
  ASSUME IInv, NEW r \in Requests, NEW q \in ReqStates, Move(r, q),
         UNCHANGED <<session, attempt, watch>>,
         table' \subseteq Requests, older' \subseteq Requests \X Requests, peak' \in Nat,
         attempt[r].at # "none" => q.sid = req[r].sid,
         Placed(q, attempt[r]), Concluded(r, q, attempt[r])
  PROVE  IInv'
<1>1. PICK a \in Attempts : a = attempt[r]
  BY OneRequest
<1>2. req' = [req EXCEPT ![r] = q] /\ attempt' = [attempt EXCEPT ![r] = a]
  BY <1>1, OneRequest DEF Move
<1>3. \A s \in Requests : Later(session[s], session'[s])
  BY LaterRefl, OneRequest
<1>4. a.at # "none" /\ Dropped(r) => Dropped(r)'
  BY <1>1, <1>2, DroppedStays
<1>5. req'[r] = q /\ attempt'[r] = a
  BY <1>2, OneRequest DEF IInv, TypeOK
<1>6. Heard(r)'
  BY <1>1, <1>4, <1>5, OneRequest DEF Heard, InPool
<1>7. Concluded(r, q, a)'
  BY <1>1 DEF Concluded
<1>8. session' \in [Requests -> Sessions]
  BY OneRequest
<1>9. \A t \in Requests \ {r} :
        attempt[t].at = "queued" /\ Mentions(session[req[t].sid].messages, t)
          => Mentions(session'[req[t].sid].messages, t)
  OBVIOUS
<1>10. QED
  BY <1>1, <1>2, <1>3, <1>6, <1>7, <1>8, <1>9, RequestMoves

(* One session moves, and keeps its history. *)
LEMMA SessionMoves ==
  ASSUME IInv, NEW r \in Requests, NEW q \in ReqStates, NEW a \in Attempts,
         req' = [req EXCEPT ![r] = q], attempt' = [attempt EXCEPT ![r] = a],
         UNCHANGED watch,
         NEW s \in Requests, NEW x, Later(session[s], x),
         session' = [session EXCEPT ![s] = x],
         \A t \in Requests : Mentions(session[s].messages, t) => Mentions(x.messages, t),
         table' \subseteq Requests, older' \subseteq Requests \X Requests, peak' \in Nat,
         attempt[r].at # "none" => q.sid = req[r].sid,
         attempt[r].at \in Over => a.at \in Over /\ a.messages = attempt[r].messages,
         Placed(q, a), Concluded(r, q, a)', Heard(r)'
  PROVE  IInv'
<1>1. session \in [Requests -> Sessions] /\ x \in Sessions
  BY OneRequest DEF Later
<1>2. session' \in [Requests -> Sessions] /\ session'[s] = x
      /\ \A t \in Requests : t # s => session'[t] = session[t]
  BY <1>1
<1>3. \A t \in Requests : Later(session[t], session'[t])
  BY <1>1, <1>2, LaterRefl
<1>4. ASSUME NEW t \in Requests, attempt[t].at = "queued",
             Mentions(session[req[t].sid].messages, t)
      PROVE  Mentions(session'[req[t].sid].messages, t)
  <2>1. req[t].sid \in Requests
    BY <1>4, OneRequest DEF Placed
  <2>2. QED
    BY <1>2, <1>4, <2>1
<1>5. QED
  BY <1>2, <1>3, <1>4, RequestMoves

(* What comes of r's message when its session keeps its history and its    *)
(* task keeps its copy.                                                    *)
LEMMA HeardStays ==
  ASSUME IInv, NEW r \in Requests, NEW q \in ReqStates, NEW a \in Attempts,
         req' = [req EXCEPT ![r] = q], attempt' = [attempt EXCEPT ![r] = a],
         attempt[r].at # "none", a.at # "none", q.sid = req[r].sid,
         a.at = "queued" => attempt[r].at = "queued",
         a.at \in InPool \union {"done"} => attempt[r].at \in InPool \union {"done"},
         attempt[r].at \in Over => a.at \in Over,
         a.messages = attempt[r].messages,
         Mentions(session[q.sid].messages, r) => Mentions(session'[q.sid].messages, r)
  PROVE  Heard(r)'
<1>1. Dropped(r) => Dropped(r)'
  BY DroppedStays
<1>2. req'[r] = q /\ attempt'[r] = a
  BY DEF IInv, TypeOK
<1>3. Heard(r)
  BY OneRequest
<1>4. QED
  BY <1>1, <1>2, <1>3 DEF Heard

----------------------------------------------------------------------------
(* The steps of a request                                                  *)

LEMMA BeginKeeps ==
  ASSUME IInv, NEW r \in Requests, Begin(r)
  PROVE  IInv'
<1>1. PICK q \in ReqStates : q = req[r]
  BY OneRequest
<1>2. attempt[r].at = "none" /\ q.at = "idle"
  BY <1>1, OneRequest DEF Begin, Placed
<1>3. peak' \in Nat
  BY OneRequest, PeakType DEF Begin, At
<1>4. CASE Move(r, WithAt(q, IF Full THEN "choose" ELSE "insert"))
  <2>1. PICK v \in {"choose", "insert"} : v = IF Full THEN "choose" ELSE "insert"
    OBVIOUS
  <2>2. v \in ReqAts
    BY DEF ReqAts, Serving
  <2>3. PICK p \in ReqStates : /\ p = WithAt(q, v)
                              /\ p.at = v /\ p.sid = q.sid /\ p.seen = q.seen
    BY <2>2, ReqAt
  <2>4. Move(r, p)
    BY <1>4, <2>1, <2>3
  <2>5. Placed(p, attempt[r]) /\ Concluded(r, p, attempt[r])
    BY <1>1, <1>2, <2>3, OneRequest DEF Placed, Concluded
  <2>6. QED
    BY <1>2, <1>3, <2>4, <2>5, OneRequest, HandlerMoves DEF Begin
<1>5. ASSUME NEW s \in Known \intersect table, Move(r, WithSid(q, "found", s))
      PROVE  IInv'
  <2>1. s \in Requests /\ s \in Names /\ "found" \in ReqAts
    BY OneRequest DEF Names, ReqAts, Serving
  <2>2. PICK p \in ReqStates : /\ p = WithSid(q, "found", s)
                              /\ p.at = "found" /\ p.sid = s /\ p.seen = q.seen
    BY <2>1, ReqAtSid
  <2>3. Move(r, p)
    BY <1>5, <2>2
  <2>4. Placed(p, attempt[r]) /\ Concluded(r, p, attempt[r])
    BY <1>1, <1>2, <2>1, <2>2, OneRequest DEF Placed, Concluded
  <2>5. QED
    BY <1>2, <1>3, <2>3, <2>4, OneRequest, HandlerMoves DEF Begin
<1>6. QED
  BY <1>1, <1>4, <1>5, Zenon DEF Begin, WithAt, WithSid

LEMMA FailKeeps ==
  ASSUME IInv, NEW r \in Requests, Fail(r), req[r].at \in {"found", "choose", "evict"},
         UNCHANGED <<table, session, older, attempt, watch, peak>>
  PROVE  IInv'
<1>1. PICK q \in ReqStates : q = req[r]
  BY OneRequest
<1>2. attempt[r].at = "none"
  BY OneRequest DEF Placed
<1>3. NoSession \in Names /\ "failed" \in ReqAts
  BY DEF Names, ReqAts
<1>4. PICK p \in ReqStates : /\ p = WithSid(q, "failed", NoSession)
                            /\ p.at = "failed" /\ p.sid = NoSession /\ p.seen = q.seen
  BY <1>3, ReqAtSid
<1>5. Move(r, p)
  BY <1>1, <1>4, Zenon DEF Fail, WithSid
<1>6. Placed(p, attempt[r]) /\ Concluded(r, p, attempt[r])
  BY <1>1, <1>2, <1>4, OneRequest DEF Placed, Concluded
<1>7. QED
  BY <1>2, <1>5, <1>6, OneRequest, HandlerMoves

LEMMA ChooseOldestKeeps ==
  ASSUME IInv, NEW r \in Requests, ChooseOldest(r)
  PROVE  IInv'
<1>1. PICK q \in ReqStates : q = req[r]
  BY OneRequest
<1>2. attempt[r].at = "none" /\ q.at = "choose"
  BY <1>1, OneRequest DEF ChooseOldest, Placed
<1>3. ASSUME NEW s \in Oldest, Move(r, WithOldest(q, "evict", s))
      PROVE  IInv'
  <2>1. s \in Names /\ "evict" \in ReqAts
    BY OneRequest DEF Oldest, Names, ReqAts, Serving
  <2>2. PICK p \in ReqStates : /\ p = WithOldest(q, "evict", s)
                              /\ p.at = "evict" /\ p.sid = q.sid /\ p.seen = q.seen
    BY <2>1, ReqAtOldest
  <2>3. Move(r, p)
    BY <1>3, <2>2
  <2>4. Placed(p, attempt[r]) /\ Concluded(r, p, attempt[r])
    BY <1>1, <1>2, <2>2, OneRequest DEF Placed, Concluded
  <2>5. QED
    BY <1>2, <2>3, <2>4, OneRequest, HandlerMoves DEF ChooseOldest
<1>4. ASSUME Fail(r)
      PROVE  IInv'
  BY <1>1, <1>2, <1>4, FailKeeps DEF ChooseOldest
<1>5. QED
  BY <1>1, <1>3, <1>4, Zenon DEF ChooseOldest, WithOldest

LEMMA EvictKeeps ==
  ASSUME IInv, NEW r \in Requests, Evict(r)
  PROVE  IInv'
<1>1. PICK q \in ReqStates : q = req[r]
  BY OneRequest
<1>2. attempt[r].at = "none" /\ q.at = "evict"
  BY <1>1, OneRequest DEF Evict, Placed
<1>3. CASE req[r].oldest \in table
  <2>1. NoSession \in Names /\ "insert" \in ReqAts
    BY DEF Names, ReqAts, Serving
  <2>2. PICK p \in ReqStates : /\ p = WithOldest(q, "insert", NoSession)
                              /\ p.at = "insert" /\ p.sid = q.sid /\ p.seen = q.seen
    BY <2>1, ReqAtOldest
  <2>3. Move(r, p)
    BY <1>1, <1>3, <2>2, Zenon DEF Evict, WithOldest
  <2>4. Placed(p, attempt[r]) /\ Concluded(r, p, attempt[r])
    BY <1>1, <1>2, <2>2, OneRequest DEF Placed, Concluded
  <2>5. table' \subseteq Requests /\ older' \subseteq Requests \X Requests
    BY <1>3, OneRequest DEF Evict, Without
  <2>6. peak' \in Nat
    BY <1>3, OneRequest, PeakType DEF Evict, At
  <2>7. UNCHANGED <<session, attempt, watch>>
    BY DEF Evict
  <2>8. QED
    BY <1>2, <2>3, <2>4, <2>5, <2>6, <2>7, HandlerMoves
<1>4. CASE req[r].oldest \notin table
  BY <1>1, <1>2, <1>4, FailKeeps DEF Evict
<1>5. QED
  BY <1>3, <1>4

LEMMA ServeKeeps ==
  ASSUME IInv, NEW r \in Requests, NEW s \in Requests, NEW t \in SUBSET Requests,
         Serve(r, s, t), attempt[r].at = "none",
         table' \subseteq Requests, UNCHANGED <<watch, peak>>
  PROVE  IInv'
<1>1. PICK q \in ReqStates : q = req[r]
  BY OneRequest
<1>2. PICK a \in Attempts : a = attempt[r]
  BY OneRequest
<1>3. PICK x \in Sessions : x = session[s]
  BY OneRequest
<1>4. s \in Names /\ "awaiting" \in ReqAts /\ "queued" \in AttemptAts /\ "user" \in Kinds
  BY DEF Names, ReqAts, Serving, AttemptAts, Kinds
<1>5. PICK p \in ReqStates : /\ p = WithSid(q, "awaiting", s)
                            /\ p.at = "awaiting" /\ p.sid = s /\ p.seen = q.seen
  BY <1>4, ReqAtSid
<1>6. PICK b \in Attempts : /\ b = WithAt(a, "queued")
                           /\ b.at = "queued" /\ b.messages = a.messages
  BY <1>4, TaskAt
<1>7. req' = [req EXCEPT ![r] = p]
  BY <1>1, <1>5, Zenon DEF Serve, Move, WithSid
<1>8. attempt' = [attempt EXCEPT ![r] = b]
  BY <1>2, <1>6, Zenon DEF Serve, Task, WithAt
<1>9. PICK y \in Sessions : /\ y = AddMessage(x, r)
                           /\ Later(x, y)
                           /\ Mentions(y.messages, r)
                           /\ \A u : Mentions(x.messages, u) => Mentions(y.messages, u)
  BY MessageAdded DEF Later
<1>10. PICK z \in Sessions : /\ z = AddEvent(y, r, "user")
                            /\ Later(y, z)
                            /\ z.messages = y.messages
  <2>1. y \in Sessions /\ r \in Requests /\ "user" \in Kinds
    BY <1>4, <1>9
  <2>2. AddEvent(y, r, "user") \in Sessions
    BY <2>1, EventAdded DEF Later
  <2>3. QED
    BY <2>1, <2>2, EventAdded
<1>11. Later(x, z)
  BY <1>9, <1>10, LaterTrans
<1>12. session' = [session EXCEPT ![s] = z]
  BY <1>3, <1>9, <1>10 DEF Serve, Change
<1>13. older' \subseteq Requests \X Requests
  BY TouchType, OneRequest DEF Serve, Change
<1>14. Placed(p, b)
  BY <1>5, <1>6 DEF Placed
<1>15. Concluded(r, p, b)'
  BY <1>1, <1>5, <1>6, OneRequest DEF Concluded
<1>16. Mentions(session'[s].messages, r)
  BY <1>9, <1>10, <1>12, OneRequest
<1>17. req'[r] = p /\ attempt'[r] = b
  BY <1>7, <1>8 DEF IInv, TypeOK
<1>18. Heard(r)'
  BY <1>5, <1>6, <1>16, <1>17 DEF Heard, InPool
<1>19. \A u \in Requests : Mentions(session[s].messages, u) => Mentions(z.messages, u)
  BY <1>3, <1>9, <1>10
<1>20. Later(session[s], z) /\ peak' \in Nat /\ attempt[r].at \notin Over
  BY <1>3, <1>11, OneRequest DEF Over
<1>21. QED
  BY <1>7, <1>8, <1>12, <1>13, <1>14, <1>15, <1>18, <1>19, <1>20, SessionMoves

LEMMA ResumeKeeps ==
  ASSUME IInv, NEW r \in Requests, Resume(r)
  PROVE  IInv'
<1>1. attempt[r].at = "none" /\ req[r].at = "found" /\ req[r].sid \in Requests
  BY OneRequest DEF Resume, Placed
<1>2. CASE req[r].sid \in table
  BY <1>1, <1>2, ServeKeeps, OneRequest DEF Resume
<1>3. CASE req[r].sid \notin table
  BY <1>1, <1>3, FailKeeps DEF Resume
<1>4. QED
  BY <1>2, <1>3

LEMMA InsertKeeps ==
  ASSUME IInv, NEW r \in Requests, Insert(r)
  PROVE  IInv'
<1>1. attempt[r].at = "none"
  BY OneRequest DEF Insert, Placed
<1>2. table \union {r} \in SUBSET Requests
  BY OneRequest
<1>3. QED
  BY <1>1, <1>2, ServeKeeps DEF Insert

LEMMA AnswerKeeps ==
  ASSUME IInv, NEW r \in Requests, Answer(r)
  PROVE  IInv'
<1>1. PICK q \in ReqStates : q = req[r]
  BY OneRequest
<1>2. q.at = "awaiting" /\ attempt[r].at = "done" /\ "answered" \in ReqAts
  BY <1>1 DEF Answer, ReqAts
<1>3. PICK p \in ReqStates : /\ p = WithAt(q, "answered")
                            /\ p.at = "answered" /\ p.sid = q.sid /\ p.seen = q.seen
  BY <1>2, ReqAt
<1>4. Move(r, p)
  BY <1>1, <1>3, Zenon DEF Answer, WithAt
<1>5. Placed(p, attempt[r]) /\ Concluded(r, p, attempt[r])
  BY <1>1, <1>2, <1>3, OneRequest DEF Placed, Concluded
<1>6. QED
  BY <1>1, <1>3, <1>4, <1>5, OneRequest, HandlerMoves DEF Answer

LEMMA TimeOutKeeps ==
  ASSUME IInv, NEW r \in Requests, TimeOut(r)
  PROVE  IInv'
<1>1. PICK q \in ReqStates : q = req[r]
  BY OneRequest
<1>2. PICK a \in Attempts : a = attempt[r]
  BY OneRequest
<1>3. /\ q.at = "awaiting" /\ a.at # "done" /\ q.sid \in Requests
      /\ "answered" \in ReqAts /\ "end" \in Kinds
  BY <1>1, <1>2, OneRequest DEF TimeOut, Placed, ReqAts, Kinds
<1>4. PICK s \in Requests : s = q.sid
  BY <1>3
<1>5. PICK x \in Sessions : x = session[s]
  BY OneRequest
<1>6. PICK p \in ReqStates : /\ p = WithAt(q, "answered")
                            /\ p.at = "answered" /\ p.sid = q.sid /\ p.seen = q.seen
  BY <1>3, ReqAt
<1>7. PICK y \in Sessions : /\ y = AddEvent(x, r, "end")
                           /\ Later(x, y)
                           /\ y.messages = x.messages
                           /\ HasEnd(r, y)
  BY <1>3, EventAdded DEF Later
<1>8. req' = [req EXCEPT ![r] = p]
  BY <1>1, <1>6, Zenon DEF TimeOut, Move, WithAt
<1>9. attempt' = [attempt EXCEPT ![r] = a] /\ UNCHANGED <<table, watch, peak>>
  BY <1>2, OneRequest DEF TimeOut
<1>10. session' = [session EXCEPT ![s] = y]
  BY <1>1, <1>4, <1>5, <1>7 DEF TimeOut, Change, TimeoutEvent
<1>11. older' \subseteq Requests \X Requests
  BY <1>1, <1>3, TouchType, OneRequest DEF TimeOut, Change
<1>12. session'[s] = y
  BY <1>10, OneRequest
<1>13. Placed(p, a)
  BY <1>1, <1>2, <1>3, <1>6, OneRequest DEF Placed
<1>14. Concluded(r, p, a)'
  BY <1>1, <1>4, <1>6, <1>7, <1>12, OneRequest DEF Concluded
<1>15. Heard(r)'
  <2>1. CASE a.at = "none"
    <3>1. attempt'[r].at = "none"
      BY <1>9, <2>1 DEF IInv, TypeOK
    <3>2. QED
      BY <3>1 DEF Heard, InPool
  <2>2. CASE a.at # "none"
    <3>1. Mentions(session[p.sid].messages, r) => Mentions(session'[p.sid].messages, r)
      BY <1>4, <1>5, <1>6, <1>7, <1>12
    <3>2. QED
      BY <1>1, <1>2, <1>6, <1>8, <1>9, <2>2, <3>1, HeardStays
  <2>3. QED
    BY <2>1, <2>2
<1>16. \A u \in Requests : Mentions(session[s].messages, u) => Mentions(y.messages, u)
  BY <1>5, <1>7
<1>17. table' \subseteq Requests /\ peak' \in Nat /\ Later(session[s], y)
  BY <1>5, <1>7, <1>9, OneRequest
<1>18. QED
  BY <1>1, <1>2, <1>6, <1>8, <1>9, <1>10, <1>11, <1>13, <1>14, <1>15, <1>16, <1>17, SessionMoves

LEMMA PollChatKeeps ==
  ASSUME IInv, NEW r \in Requests, PollChat(r)
  PROVE  IInv'
<1>1. PICK q \in ReqStates : q = req[r]
  BY OneRequest
<1>2. q.at \in {"answered", "failed"} /\ "polled" \in ReqAts
  BY <1>1 DEF PollChat, ReqAts
<1>3. UNCHANGED <<table, session, attempt, watch, peak>>
  BY DEF PollChat
<1>4. Placed(q, attempt[r]) /\ Concluded(r, q, attempt[r])
  BY <1>1, OneRequest
<1>5. CASE q.sid \in table
  <2>1. q.sid \in Requests /\ q.at = "answered"
    BY <1>2, <1>4, <1>5, OneRequest, DirectAssumption DEF Placed
  <2>2. PICK x \in Sessions : x = session[q.sid]
    BY <2>1, OneRequest
  <2>3. PICK K \in SUBSET Kinds : K = KindsOf(r, x.events)
    <3>1. x.events \in Seq(Events)
      BY DEF Sessions
    <3>2. \A e \in Range(x.events) : e.kind \in Kinds
      <4>1. \A i \in DOMAIN x.events : x.events[i] \in Events
        BY <3>1
      <4>2. \A i \in DOMAIN x.events : x.events[i].kind \in Kinds
        BY <4>1 DEF Events
      <4>3. QED
        BY <4>2, Zenon DEF Range
    <3>3. KindsOf(r, x.events) \subseteq Kinds
      BY <3>2 DEF KindsOf
    <3>4. QED
      BY <3>3
  <2>4. "end" \in K
    <3>1. PICK i \in DOMAIN x.events : x.events[i] = [by |-> r, kind |-> "end"]
      BY <1>4, <2>1, <2>2 DEF Concluded, HasEnd
    <3>2. [by |-> r, kind |-> "end"] \in Range(x.events)
      BY <3>1 DEF Range
    <3>3. QED
      BY <2>3, <3>2 DEF KindsOf
  <2>5. PICK p \in ReqStates : /\ p = WithSeen(q, "polled", K)
                              /\ p.at = "polled" /\ p.sid = q.sid /\ p.seen = K
    BY <1>2, ReqAtSeen
  <2>6. Move(r, p)
    BY <1>1, <1>5, <2>2, <2>3, <2>5, Zenon DEF PollChat, WithSeen
  <2>7. older' \subseteq Requests \X Requests
    BY <1>1, <1>5, <2>1, TouchType, OneRequest DEF PollChat
  <2>8. Placed(p, attempt[r]) /\ Concluded(r, p, attempt[r])
    BY <1>4, <2>1, <2>4, <2>5 DEF Placed, Concluded
  <2>9. QED
    BY <1>1, <1>3, <2>5, <2>6, <2>7, <2>8, OneRequest, HandlerMoves
<1>6. CASE q.sid \notin table
  <2>1. PICK p \in ReqStates : /\ p = WithAt(q, "polled")
                              /\ p.at = "polled" /\ p.sid = q.sid /\ p.seen = q.seen
    BY <1>2, ReqAt
  <2>2. Move(r, p)
    BY <1>1, <1>6, <2>1, Zenon DEF PollChat, WithAt
  <2>3. UNCHANGED older
    BY <1>1, <1>6 DEF PollChat
  <2>4. Placed(p, attempt[r]) /\ Concluded(r, p, attempt[r])
    BY <1>2, <1>4, <2>1 DEF Placed, Concluded
  <2>5. QED
    BY <1>1, <1>3, <2>1, <2>2, <2>3, <2>4, OneRequest, HandlerMoves
<1>7. QED
  BY <1>5, <1>6

----------------------------------------------------------------------------
(* The steps of a task                                                     *)

LEMMA StartAttemptKeeps ==
  ASSUME IInv, NEW r \in Requests, StartAttempt(r)
  PROVE  IInv'
<1>1. PICK q \in ReqStates : q = req[r]
  BY OneRequest
<1>2. PICK a \in Attempts : a = attempt[r]
  BY OneRequest
<1>3. Placed(q, a) /\ Concluded(r, q, a) /\ a.at = "queued" /\ "running" \in AttemptAts
  BY <1>1, <1>2, OneRequest DEF StartAttempt, AttemptAts, InPool
<1>4. PICK c \in Seq(Requests) : c = session[q.sid].messages
  BY <1>3, OneRequest DEF Placed, Sessions
<1>5. PICK b \in Attempts : b = WithCopy(a, "running", c) /\ b.at = "running" /\ b.messages = c
  BY <1>3, TaskStarts
<1>6. attempt' = [attempt EXCEPT ![r] = b]
  BY <1>1, <1>2, <1>4, <1>5, Zenon DEF StartAttempt, Task, WithCopy
<1>7. /\ UNCHANGED <<table, session, older, req, watch, peak>>
      /\ req' = [req EXCEPT ![r] = q]
      /\ session' \in [Requests -> Sessions]
  BY <1>1, OneRequest DEF StartAttempt
<1>8. \A s \in Requests : Later(session[s], session'[s])
  BY <1>7, LaterRefl, OneRequest
<1>9. Placed(q, b) /\ Concluded(r, q, b)'
  BY <1>3, <1>5, <1>7 DEF Placed, Concluded
<1>10. Dropped(r) => Dropped(r)'
  BY <1>1, <1>2, <1>3, <1>5, <1>6, <1>7, DroppedStays DEF Over
<1>11. Mentions(c, r) \/ Dropped(r)
  BY <1>1, <1>2, <1>3, <1>4, OneRequest DEF Heard
<1>12. attempt'[r] = b
  BY <1>6 DEF IInv, TypeOK
<1>13. Heard(r)'
  BY <1>5, <1>10, <1>11, <1>12 DEF Heard
<1>14. \A t \in Requests \ {r} :
         attempt[t].at = "queued" /\ Mentions(session[req[t].sid].messages, t)
           => Mentions(session'[req[t].sid].messages, t)
  BY <1>7
<1>15. /\ attempt[r].at \notin Over
       /\ table' \subseteq Requests /\ older' \subseteq Requests \X Requests /\ peak' \in Nat
  BY <1>2, <1>3, <1>7, OneRequest DEF Over
<1>16. QED
  BY <1>1, <1>6, <1>7, <1>8, <1>9, <1>13, <1>14, <1>15, RequestMoves

LEMMA AddStepKeeps ==
  ASSUME IInv, NEW r \in Requests, AddStep(r)
  PROVE  IInv'
<1>1. PICK q \in ReqStates : q = req[r]
  BY OneRequest
<1>2. PICK a \in Attempts : a = attempt[r]
  BY OneRequest
<1>3. /\ Placed(q, a) /\ Concluded(r, q, a) /\ a.at = "running" /\ "step" \in Kinds
      /\ a.steps + 1 \in Nat
  BY <1>1, <1>2, OneRequest DEF AddStep, Kinds, Attempts
<1>4. PICK s \in Requests : s = q.sid
  BY <1>3 DEF Placed
<1>5. PICK x \in Sessions : x = session[s]
  BY OneRequest
<1>6. PICK y \in Sessions : /\ y = AddEvent(x, r, "step")
                           /\ Later(x, y)
                           /\ y.messages = x.messages
  BY <1>3, EventAdded DEF Later
<1>7. PICK b \in Attempts : /\ b = WithSteps(a, a.steps + 1)
                           /\ b.at = a.at /\ b.messages = a.messages
  BY <1>3, TaskSteps
<1>8. attempt' = [attempt EXCEPT ![r] = b]
  BY <1>2, <1>7, Zenon DEF AddStep, Task, WithSteps
<1>9. req' = [req EXCEPT ![r] = q] /\ UNCHANGED <<table, watch, peak>>
  BY <1>1, OneRequest DEF AddStep
<1>10. session' = [session EXCEPT ![s] = y]
  BY <1>1, <1>4, <1>5, <1>6 DEF AddStep, Change
<1>11. older' \subseteq Requests \X Requests
  BY <1>1, <1>4, TouchType, OneRequest DEF AddStep, Change
<1>12. session'[s] = y
  BY <1>10, OneRequest
<1>13. Placed(q, b) /\ Concluded(r, q, b)'
  <2>1. q.at = "answered" => HasEnd(r, y)
    BY <1>3, <1>4, <1>5, <1>6, EndStays DEF Concluded
  <2>2. QED
    BY <1>3, <1>4, <1>7, <1>12, <2>1 DEF Placed, Concluded
<1>14. Heard(r)'
  <2>1. Mentions(session[q.sid].messages, r) => Mentions(session'[q.sid].messages, r)
    BY <1>4, <1>5, <1>6, <1>12
  <2>2. QED
    BY <1>1, <1>2, <1>3, <1>7, <1>8, <1>9, <2>1, HeardStays
<1>15. \A u \in Requests : Mentions(session[s].messages, u) => Mentions(y.messages, u)
  BY <1>5, <1>6
<1>16. /\ table' \subseteq Requests /\ peak' \in Nat /\ Later(session[s], y)
       /\ attempt[r].at \notin Over
  BY <1>2, <1>3, <1>5, <1>6, <1>9, OneRequest DEF Over
<1>17. QED
  BY <1>1, <1>8, <1>9, <1>10, <1>11, <1>13, <1>14, <1>15, <1>16, SessionMoves

(* The loop of r has returned, and its session now has its history. *)
LEMMA HistoryPutBack ==
  ASSUME IInv, NEW r \in Requests, attempt[r].at = "running",
         NEW v \in {"completed", "stopped"}, NEW y \in Sessions,
         NEW s \in Requests, s = req[r].sid,
         Later(session[s], y), y.messages = attempt[r].messages,
         v = "completed" => HasEnd(r, y),
         session' = [session EXCEPT ![s] = y],
         attempt' = [attempt EXCEPT ![r] = WithAt(attempt[r], v)],
         older' \subseteq Requests \X Requests, UNCHANGED <<table, req, watch, peak>>
  PROVE  IInv'
<1>1. PICK q \in ReqStates : q = req[r]
  BY OneRequest
<1>2. PICK a \in Attempts : a = attempt[r]
  BY OneRequest
<1>3. PICK b \in Attempts : b = WithAt(a, v) /\ b.at = v /\ b.messages = a.messages
  BY TaskAt DEF AttemptAts, InPool
<1>4. attempt' = [attempt EXCEPT ![r] = b] /\ req' = [req EXCEPT ![r] = q]
  BY <1>1, <1>2, <1>3, OneRequest
<1>5. attempt'[r] = b /\ b.at \in Over
      /\ \A t \in Requests : t # r => attempt'[t] = attempt[t]
  BY <1>3, <1>4 DEF IInv, TypeOK, Over
<1>6. session' \in [Requests -> Sessions] /\ session'[s] = y
      /\ \A t \in Requests : t # s => session'[t] = session[t]
  BY OneRequest
<1>7. \A t \in Requests : Later(session[t], session'[t])
  BY <1>6, LaterRefl, OneRequest
<1>8. Placed(q, a) /\ Concluded(r, q, a) /\ Heard(r)
  BY <1>1, <1>2, OneRequest
<1>9. Placed(q, b) /\ Concluded(r, q, b)'
  <2>1. q.at = "answered" => HasEnd(r, y)
    BY <1>1, <1>8, EndStays, OneRequest DEF Concluded
  <2>2. QED
    BY <1>1, <1>2, <1>3, <1>6, <1>8, <2>1 DEF Placed, Concluded
<1>10. Heard(r)'
  <2>1. Dropped(r) => Dropped(r)'
    BY <1>1, <1>2, <1>4, DroppedStays DEF Over
  <2>2. Mentions(b.messages, r) \/ Dropped(r)'
    BY <1>2, <1>3, <1>8, <2>1 DEF Heard, InPool
  <2>3. QED
    BY <1>3, <1>5, <2>2 DEF Heard
<1>11. ASSUME NEW t \in Requests \ {r}, attempt[t].at = "queued",
              Mentions(session[req[t].sid].messages, t)
       PROVE  Mentions(session'[req[t].sid].messages, t) \/ Dropped(t)'
  <2>1. req[t].sid \in Requests
    BY <1>11, OneRequest DEF Placed
  <2>2. CASE req[t].sid = s
    <3>1. ASSUME ~Mentions(b.messages, t)
          PROVE  Dropped(t)'
      <4>1. req'[r].sid = req'[t].sid /\ attempt'[r].at \in Over
            /\ ~Mentions(attempt'[r].messages, t) /\ r \in Requests \ {t}
        BY <1>5, <1>11, <2>2, <3>1
      <4>2. QED
        BY <4>1 DEF Dropped
    <3>2. QED
      BY <1>2, <1>3, <1>6, <2>2, <3>1
  <2>3. CASE req[t].sid # s
    BY <1>6, <1>11, <2>1, <2>3
  <2>4. QED
    BY <2>2, <2>3
<1>12. attempt[r].at \notin Over /\ table' \subseteq Requests /\ peak' \in Nat
  BY OneRequest DEF Over
<1>13. QED
  BY <1>1, <1>4, <1>6, <1>7, <1>9, <1>10, <1>11, <1>12, RequestMoves

LEMMA EndLoopKeeps ==
  ASSUME IInv, NEW r \in Requests, EndLoop(r)
  PROVE  IInv'
<1>1. attempt[r].at = "running" /\ req[r].sid \in Requests
  BY OneRequest DEF EndLoop, Placed
<1>2. PICK s \in Requests : s = req[r].sid
  BY <1>1
<1>3. PICK c \in Seq(Requests) : c = attempt[r].messages
  BY OneRequest DEF Attempts
<1>4. session[s] \in Sessions
  BY OneRequest
<1>5. PICK x \in Sessions : x = PutBack(session[s], c) /\ Later(session[s], x) /\ x.messages = c
  BY <1>4, PutBackKeeps DEF Later
<1>6. UNCHANGED <<table, req, watch, peak>>
  BY DEF EndLoop
<1>7. CASE /\ Change(s, Finish(AddEvent(x, r, "end")), table)
           /\ Task(r, WithAt(attempt[r], "completed"))
  <2>1. "end" \in Kinds
    BY DEF Kinds
  <2>2. PICK y \in Sessions : /\ y = AddEvent(x, r, "end") /\ Later(x, y)
                             /\ y.messages = x.messages /\ HasEnd(r, y)
    BY <2>1, EventAdded DEF Later
  <2>3. PICK z \in Sessions : /\ z = Finish(y) /\ Later(y, z)
                             /\ z.messages = y.messages /\ HasEnd(r, z)
    BY <2>2, FinishKeeps DEF Later
  <2>4. Later(session[s], z)
    BY <1>4, <1>5, <2>2, <2>3, LaterTrans
  <2>5. session' = [session EXCEPT ![s] = z] /\ Touch(s, table)
    BY <1>7, <2>2, <2>3 DEF Change
  <2>6. older' \subseteq Requests \X Requests
    BY <2>5, TouchType, OneRequest
  <2>7. attempt' = [attempt EXCEPT ![r] = WithAt(attempt[r], "completed")]
    BY <1>7 DEF Task
  <2>8. QED
    BY <1>1, <1>2, <1>3, <1>5, <1>6, <2>2, <2>3, <2>4, <2>5, <2>6, <2>7, HistoryPutBack
<1>8. CASE /\ session' = [session EXCEPT ![s] = Finish(x)]
           /\ Task(r, WithAt(attempt[r], "stopped"))
           /\ UNCHANGED older
  <2>1. PICK z \in Sessions : z = Finish(x) /\ Later(x, z) /\ z.messages = x.messages
    BY FinishKeeps DEF Later
  <2>2. Later(session[s], z)
    BY <1>4, <1>5, <2>1, LaterTrans
  <2>3. attempt' = [attempt EXCEPT ![r] = WithAt(attempt[r], "stopped")]
    BY <1>8 DEF Task
  <2>4. QED
    BY <1>1, <1>2, <1>3, <1>5, <1>6, <1>8, <2>1, <2>2, <2>3, OneRequest, HistoryPutBack
<1>9. QED
  BY <1>2, <1>3, <1>5, <1>7, <1>8, Zenon DEF EndLoop, WithAt

LEMMA EndAttemptKeeps ==
  ASSUME IInv, NEW r \in Requests, EndAttempt(r)
  PROVE  IInv'
<1>1. PICK q \in ReqStates : q = req[r]
  BY OneRequest
<1>2. PICK a \in Attempts : a = attempt[r]
  BY OneRequest
<1>3. /\ Placed(q, a) /\ Concluded(r, q, a) /\ a.at \in InPool
      /\ "done" \in AttemptAts /\ "end" \in Kinds
  BY <1>1, <1>2, OneRequest DEF EndAttempt, AttemptAts, Kinds
<1>4. PICK s \in Requests : s = q.sid
  BY <1>3 DEF Placed, InPool
<1>5. PICK x \in Sessions : x = session[s]
  BY OneRequest
<1>6. PICK b \in Attempts : b = WithAt(a, "done") /\ b.at = "done" /\ b.messages = a.messages
  BY <1>3, TaskAt
<1>7. attempt' = [attempt EXCEPT ![r] = b]
  BY <1>2, <1>6, Zenon DEF EndAttempt, Task, WithAt
<1>8. req' = [req EXCEPT ![r] = q] /\ UNCHANGED <<table, watch, peak>>
  BY <1>1, OneRequest DEF EndAttempt
<1>9. ASSUME NEW z \in Sessions, Later(x, z), z.messages = x.messages, HasEnd(r, z),
             session' = [session EXCEPT ![s] = z], older' \subseteq Requests \X Requests
      PROVE  IInv'
  <2>1. session'[s] = z
    BY <1>9, OneRequest
  <2>2. Placed(q, b) /\ Concluded(r, q, b)'
    BY <1>3, <1>4, <1>6, <1>9, <2>1 DEF Placed, Concluded, InPool
  <2>3. Heard(r)'
    <3>1. Mentions(session[q.sid].messages, r) => Mentions(session'[q.sid].messages, r)
      BY <1>4, <1>5, <1>9, <2>1
    <3>2. QED
      BY <1>1, <1>2, <1>3, <1>6, <1>7, <1>8, <3>1, HeardStays DEF InPool, Over
  <2>4. \A u \in Requests : Mentions(session[s].messages, u) => Mentions(z.messages, u)
    BY <1>5, <1>9
  <2>5. table' \subseteq Requests /\ peak' \in Nat /\ Later(session[s], z) /\ b.at \in Over
    BY <1>5, <1>6, <1>8, <1>9, OneRequest DEF Over
  <2>6. QED
    BY <1>1, <1>2, <1>6, <1>7, <1>8, <1>9, <2>2, <2>3, <2>4, <2>5, SessionMoves
<1>10. CASE Change(s, Finish(AddEvent(x, r, "end")), table)
  <2>1. PICK y \in Sessions : /\ y = AddEvent(x, r, "end") /\ Later(x, y)
                             /\ y.messages = x.messages /\ HasEnd(r, y)
    BY <1>3, EventAdded DEF Later
  <2>2. PICK z \in Sessions : /\ z = Finish(y) /\ Later(y, z)
                             /\ z.messages = y.messages /\ HasEnd(r, z)
    BY <2>1, FinishKeeps DEF Later
  <2>3. Later(x, z)
    BY <2>1, <2>2, LaterTrans
  <2>4. session' = [session EXCEPT ![s] = z] /\ Touch(s, table)
    BY <1>10, <2>1, <2>2 DEF Change
  <2>5. older' \subseteq Requests \X Requests
    BY <2>4, TouchType, OneRequest
  <2>6. QED
    BY <1>9, <2>1, <2>2, <2>3, <2>4, <2>5
<1>11. CASE a.at = "completed" /\ UNCHANGED <<session, older>>
  <2>1. HasEnd(r, x) /\ session' = [session EXCEPT ![s] = x]
    BY <1>3, <1>4, <1>5, <1>11, OneRequest DEF Concluded
  <2>2. QED
    BY <1>9, <1>11, <2>1, LaterRefl, OneRequest
<1>12. QED
  BY <1>1, <1>2, <1>4, <1>5, <1>10, <1>11, Zenon DEF EndAttempt

----------------------------------------------------------------------------
(* The steps of a stream                                                   *)

LEMMA WatchMoves ==
  ASSUME IInv, NEW w \in Watchers, NEW v \in WatchStates, Watch(w, v),
         UNCHANGED <<table, session, req, attempt, peak>>,
         older' \subseteq Requests \X Requests, Sent(v)
  PROVE  IInv'
<1>1. watch \in [Watchers -> WatchStates] /\ watch' = [watch EXCEPT ![w] = v]
  BY DEF IInv, TypeOK, Watch
<1>2. watch' \in [Watchers -> WatchStates] /\ watch'[w] = v
      /\ \A u \in Watchers : u # w => watch'[u] = watch[u]
  BY <1>1
<1>3. TypeOK'
  BY <1>2 DEF IInv, TypeOK
<1>4. ASSUME NEW u \in Watchers
      PROVE  Sent(watch[u])'
  <2>1. PICK x \in WatchStates : x = watch'[u] /\ Sent(x)
    BY <1>2 DEF IInv, TypeOK
  <2>2. Sent(x)'
    BY <2>1 DEF Sent
  <2>3. QED
    BY <2>1, <2>2
<1>5. ASSUME NEW r \in Requests
      PROVE  (Placed(req[r], attempt[r]) /\ Concluded(r, req[r], attempt[r]) /\ Heard(r))'
  <2>1. Placed(req[r], attempt[r]) /\ Concluded(r, req[r], attempt[r]) /\ Heard(r)
    BY OneRequest
  <2>2. Dropped(r) => Dropped(r)'
    BY DEF Dropped
  <2>3. QED
    BY <2>1, <2>2 DEF Placed, Concluded, Heard
<1>6. QED
  BY <1>3, <1>4, <1>5 DEF IInv

WatchFacts(v) ==
  /\ v.base \in Nat /\ v.last \in Nat /\ v.count \in Nat
  /\ Sent(v)
  /\ v.at # "idle" => v.sid \in Requests /\ Len(session[v.sid].events) \in Nat

LEMMA OneStream ==
  ASSUME IInv, NEW w \in Watchers
  PROVE  watch[w] \in WatchStates /\ WatchFacts(watch[w])
<1>1. PICK v \in WatchStates : v = watch[w]
  BY DEF IInv, TypeOK
<1>2. v.base \in Nat /\ v.last \in Nat /\ v.count \in Nat /\ Sent(v)
  BY <1>1 DEF IInv, WatchStates
<1>3. v.at # "idle" => v.sid \in Requests
  BY <1>2 DEF Sent
<1>4. \A s \in Requests : Len(session[s].events) \in Nat
  BY DEF IInv, TypeOK, Sessions
<1>5. QED
  BY <1>1, <1>2, <1>3, <1>4 DEF WatchFacts

(* The changes of a stream's record, by name. *)
Joined(v, s, n, l) ==
  [v EXCEPT !.at = "count", !.sid = s, !.base = n, !.last = n, !.live = l]
Counted(v, n)      == [v EXCEPT !.at = "slice", !.count = n]
Sliced(v, n)       ==
  [v EXCEPT !.at = "check", !.last = v.count, !.count = 0,
            !.sent = @ \union NextPositions(v.last, n)]
Expired(v)         == [v EXCEPT !.at = "closed", !.live = FALSE]

LEMMA JoinedFields ==
  ASSUME NEW v \in WatchStates, NEW s \in Names, NEW n \in Nat, NEW l \in BOOLEAN
  PROVE  /\ Joined(v, s, n, l) \in WatchStates
         /\ Joined(v, s, n, l).at = "count"
         /\ Joined(v, s, n, l).sid = s
         /\ Joined(v, s, n, l).base = n
         /\ Joined(v, s, n, l).last = n
         /\ Joined(v, s, n, l).sent = v.sent
BY DEF Joined, WatchStates

LEMMA CountedFields ==
  ASSUME NEW v \in WatchStates, NEW n \in Nat
  PROVE  /\ Counted(v, n) \in WatchStates
         /\ Counted(v, n).at = "slice"
         /\ Counted(v, n).sid = v.sid
         /\ Counted(v, n).base = v.base
         /\ Counted(v, n).last = v.last
         /\ Counted(v, n).count = n
         /\ Counted(v, n).sent = v.sent
BY DEF Counted, WatchStates

LEMMA SlicedFields ==
  ASSUME NEW v \in WatchStates, NEW n \in Nat
  PROVE  /\ Sliced(v, n) \in WatchStates
         /\ Sliced(v, n).at = "check"
         /\ Sliced(v, n).sid = v.sid
         /\ Sliced(v, n).base = v.base
         /\ Sliced(v, n).last = v.count
         /\ Sliced(v, n).sent = v.sent \union ((v.last + 1)..n)
<1>1. v.last \in Nat /\ v.count \in Nat /\ v.sent \in SUBSET Nat
  BY DEF WatchStates
<1>2. PICK more \in SUBSET Nat : more = v.sent \union ((v.last + 1)..n)
  <2>1. (v.last + 1)..n \subseteq Nat
    BY <1>1
  <2>2. v.sent \union ((v.last + 1)..n) \in SUBSET Nat
    BY <1>1, <2>1
  <2>3. QED
    BY <2>2
<1>3. Sliced(v, n) = [v EXCEPT !.at = "check", !.last = v.count, !.count = 0, !.sent = more]
  BY <1>2 DEF Sliced, NextPositions
<1> DEFINE u == [v EXCEPT !.at = "check", !.last = v.count, !.count = 0, !.sent = more]
<1>4. u \in WatchStates /\ u.at = "check" /\ u.sid = v.sid /\ u.base = v.base
      /\ u.last = v.count /\ u.sent = more
  BY <1>1 DEF WatchStates
<1> HIDE DEF u
<1>5. Sliced(v, n) = u
  BY <1>3, Zenon DEF u
<1>6. QED
  BY <1>2, <1>4, <1>5

LEMMA ClosedFields ==
  ASSUME NEW v \in WatchStates, NEW at \in {"check", "count", "closed"}
  PROVE  /\ WithAt(v, at) \in WatchStates
         /\ WithAt(v, at).at = at
         /\ WithAt(v, at).sid = v.sid
         /\ WithAt(v, at).base = v.base
         /\ WithAt(v, at).last = v.last
         /\ WithAt(v, at).sent = v.sent
         /\ Expired(v) \in WatchStates
         /\ Expired(v).at = "closed"
         /\ Expired(v).sid = v.sid
         /\ Expired(v).base = v.base
         /\ Expired(v).last = v.last
         /\ Expired(v).sent = v.sent
BY DEF WithAt, Expired, WatchStates

(* A stream that goes on without a slice to send. *)
LEMMA SentStays ==
  ASSUME NEW v \in WatchStates, NEW u \in WatchStates, WatchFacts(v),
         v.at # "idle", u.at \in {"check", "count", "closed"},
         u.sid = v.sid, u.base = v.base, u.last = v.last, u.sent = v.sent
  PROVE  Sent(u)
BY DEF WatchFacts, Sent

LEMMA JoinKeeps ==
  ASSUME IInv, NEW w \in Watchers, Join(w)
  PROVE  IInv'
<1>1. PICK v \in WatchStates : v = watch[w] /\ WatchFacts(v) /\ v.at = "idle"
  BY OneStream DEF Join
<1>2. table \subseteq Requests /\ older \subseteq Requests \X Requests
      /\ session \in [Requests -> Sessions]
  BY DEF IInv, TypeOK
<1>3. PICK s \in Known \intersect table :
        /\ Watch(w, Joined(v, s, Len(session[s].events), ~session[s].finished))
        /\ Touch(s, table)
  BY <1>1, Zenon DEF Join, Joined
<1>4. s \in Requests /\ s \in Names
  BY <1>2 DEF Names
<1>5. PICK n \in Nat : n = Len(session[s].events)
  BY <1>2, <1>4 DEF Sessions
<1>6. PICK l \in BOOLEAN : l = ~session[s].finished
  OBVIOUS
<1>7. PICK u \in WatchStates : /\ u = Joined(v, s, n, l)
                              /\ u.at = "count" /\ u.sid = s /\ u.base = n
                              /\ u.last = n /\ u.sent = v.sent
  BY <1>4, JoinedFields
<1>8. Watch(w, u)
  BY <1>3, <1>5, <1>6, <1>7
<1>9. v.sent = (n + 1)..n
  <2>1. v.sent = {}
    BY <1>1 DEF WatchFacts, Sent
  <2>2. (n + 1)..n = {}
    OBVIOUS
  <2>3. QED
    BY <2>1, <2>2
<1>10. Sent(u)
  BY <1>4, <1>5, <1>7, <1>9 DEF Sent
<1>11. older' \subseteq Requests \X Requests
  BY <1>2, <1>3, <1>4, TouchType
<1>12. UNCHANGED <<table, session, req, attempt, peak>>
  BY DEF Join
<1>13. QED
  BY <1>8, <1>10, <1>11, <1>12, WatchMoves

LEMMA CountKeeps ==
  ASSUME IInv, NEW w \in Watchers, Count(w)
  PROVE  IInv'
<1>1. PICK v \in WatchStates : v = watch[w] /\ WatchFacts(v) /\ v.at = "count"
  BY OneStream DEF Count
<1>2. PICK n \in Nat : n = Len(session[v.sid].events)
  BY <1>1 DEF WatchFacts
<1>3. UNCHANGED <<table, session, req, attempt, peak>> /\ older' \subseteq Requests \X Requests
  BY DEF Count, IInv, TypeOK
<1>4. CASE n > v.last /\ Watch(w, Counted(v, n))
  <2>1. PICK u \in WatchStates : /\ u = Counted(v, n)
                                /\ u.at = "slice" /\ u.sid = v.sid /\ u.base = v.base
                                /\ u.last = v.last /\ u.count = n /\ u.sent = v.sent
    BY CountedFields
  <2>2. Sent(u)
    BY <1>1, <1>2, <1>4, <2>1 DEF WatchFacts, Sent
  <2>3. QED
    BY <1>3, <1>4, <2>1, <2>2, WatchMoves
<1>5. CASE Watch(w, WithAt(v, "check"))
  <2>1. PICK u \in WatchStates : /\ u = WithAt(v, "check")
                                /\ u.at = "check" /\ u.sid = v.sid /\ u.base = v.base
                                /\ u.last = v.last /\ u.sent = v.sent
    BY ClosedFields
  <2>2. Sent(u)
    BY <1>1, <2>1, SentStays
  <2>3. QED
    BY <1>3, <1>5, <2>1, <2>2, WatchMoves
<1>6. QED
  BY <1>1, <1>2, <1>4, <1>5, Zenon DEF Count, Counted, WithAt

LEMMA SliceKeeps ==
  ASSUME IInv, NEW w \in Watchers, Slice(w)
  PROVE  IInv'
<1>1. PICK v \in WatchStates : v = watch[w] /\ WatchFacts(v) /\ v.at = "slice"
  BY OneStream DEF Slice
<1>2. PICK n \in Nat : n = Len(session[v.sid].events)
  BY <1>1 DEF WatchFacts
<1>3. UNCHANGED <<table, session, req, attempt, peak>> /\ older' \subseteq Requests \X Requests
  BY DEF Slice, IInv, TypeOK
<1>4. PICK u \in WatchStates : /\ u = Sliced(v, n)
                              /\ u.at = "check" /\ u.sid = v.sid /\ u.base = v.base
                              /\ u.last = v.count /\ u.sent = v.sent \union ((v.last + 1)..n)
  BY SlicedFields
<1>5. Watch(w, u)
  BY <1>1, <1>2, <1>4, Zenon DEF Slice, Sliced
<1>6. /\ v.base \in Nat /\ v.last \in Nat /\ v.count \in Nat /\ v.sid \in Requests
      /\ v.base <= v.last /\ v.last <= v.count /\ v.count <= n
  BY <1>1, <1>2 DEF WatchFacts, Sent
<1>7. PICK m \in Nat : v.last <= m /\ m <= n /\ v.sent = (v.base + 1)..m
  BY <1>1, <1>2 DEF WatchFacts, Sent
<1>8. u.sent = (v.base + 1)..n
  BY <1>4, <1>6, <1>7
<1>9. Sent(u)
  <2>1. u.sent = (u.base + 1)..n
    BY <1>4, <1>8
  <2>2. Len(session[u.sid].events) = n /\ u.last <= n /\ u.base <= u.last
    BY <1>2, <1>4, <1>6
  <2>3. \E k \in Nat : u.last <= k /\ k <= Len(session[u.sid].events) /\ u.sent = (u.base + 1)..k
    BY <2>1, <2>2
  <2>4. QED
    BY <1>4, <1>6, <2>2, <2>3 DEF Sent
<1>10. QED
  BY <1>3, <1>5, <1>9, WatchMoves

LEMMA CheckKeeps ==
  ASSUME IInv, NEW w \in Watchers, Check(w)
  PROVE  IInv'
<1>1. PICK v \in WatchStates : v = watch[w] /\ WatchFacts(v) /\ v.at = "check"
  BY OneStream DEF Check
<1>2. PICK at \in {"check", "count", "closed"} : at = IF Ended(v.sid) THEN "closed" ELSE "count"
  OBVIOUS
<1>3. UNCHANGED <<table, session, req, attempt, peak>> /\ older' \subseteq Requests \X Requests
  BY DEF Check, IInv, TypeOK
<1>4. PICK u \in WatchStates : /\ u = WithAt(v, at)
                              /\ u.at = at /\ u.sid = v.sid /\ u.base = v.base
                              /\ u.last = v.last /\ u.sent = v.sent
  BY ClosedFields
<1>5. Watch(w, WithAt(v, IF Ended(v.sid) THEN "closed" ELSE "count"))
  BY <1>1, Zenon DEF Check, WithAt
<1>6. Watch(w, u)
  BY <1>2, <1>4, <1>5
<1>7. Sent(u)
  BY <1>1, <1>4, SentStays
<1>8. QED
  BY <1>3, <1>6, <1>7, WatchMoves

LEMMA ExpireKeeps ==
  ASSUME IInv, NEW w \in Watchers, Expire(w)
  PROVE  IInv'
<1>1. PICK v \in WatchStates : v = watch[w] /\ WatchFacts(v) /\ v.at = "count"
  BY OneStream DEF Expire
<1>2. UNCHANGED <<table, session, req, attempt, peak>> /\ older' \subseteq Requests \X Requests
  BY DEF Expire, IInv, TypeOK
<1>3. PICK u \in WatchStates : /\ u = Expired(v)
                              /\ u.at = "closed" /\ u.sid = v.sid /\ u.base = v.base
                              /\ u.last = v.last /\ u.sent = v.sent
  BY ClosedFields
<1>4. Watch(w, u)
  BY <1>1, <1>3, Zenon DEF Expire, Expired
<1>5. Sent(u)
  BY <1>1, <1>3, SentStays
<1>6. QED
  BY <1>2, <1>4, <1>5, WatchMoves

----------------------------------------------------------------------------
(* The theorems                                                            *)

LEMMA IInvStarts == Init => IInv
<1> SUFFICES ASSUME Init
             PROVE  IInv
  OBVIOUS
<1>1. NewSession \in Sessions
  BY DEF NewSession, Sessions
<1>2. TypeOK
  <2>1. session \in [Requests -> Sessions]
    BY <1>1 DEF Init
  <2>2. req \in [Requests -> ReqStates]
    BY DEF Init, ReqStates, Names, Serving
  <2>3. attempt \in [Requests -> Attempts]
    BY DEF Init, Attempts
  <2>4. watch \in [Watchers -> WatchStates]
    BY DEF Init, WatchStates, Names
  <2>5. QED
    BY <2>1, <2>2, <2>3, <2>4 DEF Init, TypeOK
<1>3. \A r \in Requests : req[r].at = "idle" /\ req[r].seen = {} /\ attempt[r].at = "none"
  BY DEF Init
<1>4. \A w \in Watchers : watch[w].at = "idle" /\ watch[w].sent = {}
  BY DEF Init
<1>5. QED
  BY <1>2, <1>3, <1>4 DEF IInv, Placed, Concluded, Heard, Sent, InPool

LEMMA IInvStays == IInv /\ [Next]_vars => IInv'
<1> SUFFICES ASSUME IInv, [Next]_vars
             PROVE  IInv'
  OBVIOUS
<1>1. ASSUME NEW r \in Requests, HandlerStep(r)
      PROVE  IInv'
  BY <1>1, ResumeKeeps, ChooseOldestKeeps, EvictKeeps, InsertKeeps, AnswerKeeps,
     TimeOutKeeps DEF HandlerStep
<1>2. ASSUME NEW r \in Requests, AttemptStep(r)
      PROVE  IInv'
  BY <1>2, StartAttemptKeeps, AddStepKeeps, EndLoopKeeps, EndAttemptKeeps DEF AttemptStep
<1>3. ASSUME NEW w \in Watchers, WatchStep(w)
      PROVE  IInv'
  BY <1>3, CountKeeps, SliceKeeps, CheckKeeps DEF WatchStep
<1>4. CASE UNCHANGED vars
  BY <1>4 DEF vars, IInv, TypeOK, Placed, Concluded, Heard, Dropped, Sent
<1>5. QED
  BY <1>1, <1>2, <1>3, <1>4, BeginKeeps, PollChatKeeps, JoinKeeps, ExpireKeeps DEF Next

LEMMA IInvHolds == Spec => []IInv
BY IInvStarts, IInvStays, PTL DEF Spec

(* The executor, its handlers, tasks and streams keep their types. *)
THEOREM DirectTypeCorrect == Spec => []TypeOK
<1>1. IInv => TypeOK
  BY DEF IInv
<1>2. QED
  BY <1>1, IInvHolds, PTL

(* A chat that is shown anything of its request is shown how it ended: the *)
(* agent's end or the handler's timeout is in the session before the       *)
(* request is answered, and the events of a session only grow.             *)
THEOREM DirectChatSeesItsEnd == Spec => []ChatSeesItsEnd
<1>1. IInv => ChatSeesItsEnd
  BY DEF IInv, Concluded, ChatSeesItsEnd
<1>2. QED
  BY <1>1, IInvHolds, PTL

(* A stream sends one stretch of its session's events from where it joined *)
(* on, although its count and its slice are taken at different times.      *)
THEOREM DirectStreamHasNoGaps == Spec => []StreamHasNoGaps
<1>1. ASSUME IInv, NEW w \in Watchers
      PROVE  watch[w].sent = (watch[w].base + 1)..(watch[w].base + Cardinality(watch[w].sent))
  <2>1. PICK v \in WatchStates : v = watch[w] /\ WatchFacts(v)
    BY <1>1, OneStream
  <2>2. CASE v.at = "idle"
    <3>1. v.sent = {} /\ Cardinality(v.sent) = 0 /\ v.base \in Nat
      BY <2>1, <2>2, FS_EmptySet DEF WatchFacts, Sent
    <3>2. QED
      BY <2>1, <3>1
  <2>3. CASE v.at # "idle"
    <3>1. PICK m \in Nat : v.last <= m /\ v.sent = (v.base + 1)..m
      BY <2>1, <2>3 DEF WatchFacts, Sent
    <3>2. v.base \in Nat /\ v.last \in Nat /\ v.base <= v.last
      BY <2>1, <2>3 DEF WatchFacts, Sent
    <3>3. Cardinality((v.base + 1)..m) = IF v.base + 1 > m THEN 0 ELSE m - (v.base + 1) + 1
      <4>1. v.base + 1 \in Int /\ m \in Int
        BY <3>2
      <4>2. QED
        BY <4>1, FS_Interval
    <3>4. Cardinality(v.sent) = m - v.base
      BY <3>1, <3>2, <3>3
    <3>5. QED
      BY <2>1, <3>1, <3>2, <3>4
  <2>4. QED
    BY <2>2, <2>3
<1>2. IInv => StreamHasNoGaps
  BY <1>1 DEF StreamHasNoGaps
<1>3. QED
  BY <1>2, IInvHolds, PTL

(* A message misses its agent only when another request on the session,    *)
(* which had copied the history before, put its copy back.                 *)
THEOREM DirectMessageReachesItsAgent == Spec => []MessageReachesItsAgent
<1>1. IInv => MessageReachesItsAgent
  BY DEF IInv, Heard, Mentions, Dropped, Over, MessageReachesItsAgent
<1>2. QED
  BY <1>1, IInvHolds, PTL

----------------------------------------------------------------------------
(* The size of the table                                                   *)

(* What the counts are taken of. *)
LEMMA Counts ==
  ASSUME IInv
  PROVE  /\ IsFiniteSet(table) /\ Cardinality(table) \in Nat
         /\ IsFiniteSet(At("insert")) /\ Cardinality(At("insert")) \in Nat
<1>1. table \in SUBSET Requests /\ At("insert") \in SUBSET Requests
  BY DEF IInv, TypeOK, At
<1>2. QED
  BY <1>1, DirectAssumption, FS_Subset, FS_CardinalityType

LEMMA Inserting ==
  ASSUME IInv, NEW r \in Requests, NEW q, Move(r, q)
  PROVE  /\ q.at = "insert" => At("insert")' = At("insert") \union {r}
         /\ q.at # "insert" => At("insert")' = At("insert") \ {r}
<1>1. req' = [req EXCEPT ![r] = q] /\ req \in [Requests -> ReqStates]
  BY DEF IInv, TypeOK, Move
<1>2. req'[r] = q /\ \A t \in Requests : t # r => req'[t] = req[t]
  BY <1>1
<1>3. QED
  BY <1>2 DEF At

(* The bound is about three numbers: sessions, requests that insert, and   *)
(* the most that did.                                                      *)
Bounded(n, i, p) == n + i < MaxSessions + Max({p, 1})

LEMMA BoundGrows ==
  ASSUME NEW n \in Nat, NEW i \in Nat, NEW p \in Nat,
         NEW m \in Nat, NEW j \in Nat, NEW o \in Nat,
         Bounded(n, i, p), m + j <= n + i, p <= o
  PROVE  Bounded(m, j, o)
<1>1. Max({p, 1}) \in {p, 1} /\ Max({o, 1}) \in {o, 1} /\ Max({o, 1}) >= o /\ Max({o, 1}) >= 1
  BY MaxOfTwo
<1>2. MaxSessions \in Nat
  BY DirectAssumption
<1> DEFINE a == Max({p, 1})
           b == Max({o, 1})
<1>3. a \in Nat /\ b \in Nat /\ a <= b
  BY <1>1
<1>4. n + i < MaxSessions + a
  BY DEF Bounded
<1> HIDE DEF a, b
<1>5. m + j < MaxSessions + b
  BY <1>2, <1>3, <1>4
<1>6. QED
  BY <1>5 DEF Bounded, b

(* Nothing is added to the table, and nobody comes to insert. *)
LEMMA BoundKept ==
  ASSUME IInv, TableBounded, UNCHANGED table,
         At("insert")' \subseteq At("insert"), peak' \in Nat, peak' >= peak
  PROVE  TableBounded'
<1>1. At("insert")' \in SUBSET At("insert")
  OBVIOUS
<1>2. IsFiniteSet(At("insert")') /\ Cardinality(At("insert")') <= Cardinality(At("insert"))
  BY <1>1, Counts, FS_Subset
<1>3. Cardinality(At("insert")') \in Nat
  BY <1>2, FS_CardinalityType
<1>4. peak \in Nat
  BY DEF IInv, TypeOK
<1>5. Bounded(Cardinality(table), Cardinality(At("insert")), peak)
  BY DEF TableBounded, Bounded
<1>6. Cardinality(table') + Cardinality(At("insert")') <= Cardinality(table) + Cardinality(At("insert"))
  BY <1>2, <1>3, Counts
<1>7. Bounded(Cardinality(table'), Cardinality(At("insert")'), peak')
  BY <1>3, <1>4, <1>5, <1>6, Counts, BoundGrows
<1>8. QED
  BY <1>7 DEF TableBounded, Bounded

LEMMA OneMore ==
  ASSUME NEW S, IsFiniteSet(S), NEW r, NEW T, T = S \union {r}
  PROVE  Cardinality(T) <= Cardinality(S) + 1 /\ Cardinality(T) \in Nat
<1>1. Cardinality(T) = Cardinality(S) \/ Cardinality(T) = Cardinality(S) + 1
  BY FS_AddElement
<1>2. Cardinality(S) \in Nat
  BY FS_CardinalityType
<1>3. QED
  BY <1>1, <1>2

LEMMA BoundBegin ==
  ASSUME IInv, TableBounded, NEW r \in Requests, Begin(r)
  PROVE  TableBounded'
<1>1. req[r] \in ReqStates /\ peak \in Nat /\ table \subseteq Requests
  BY OneRequest
<1>2. At("insert")' \in SUBSET Requests /\ peak' = Max({peak, Cardinality(At("insert")')})
  BY DEF Begin, At
<1>3. peak' \in Nat /\ peak' >= peak /\ peak' >= Cardinality(At("insert")')
  BY <1>1, <1>2, PeakType
<1>4. PICK q \in ReqStates : Move(r, q) /\ (q.at = "insert" => ~Full)
  <2>1. PICK v \in ReqAts : v = IF Full THEN "choose" ELSE "insert"
    BY DEF ReqAts, Serving
  <2>2. CASE Move(r, WithAt(req[r], IF Full THEN "choose" ELSE "insert"))
    <3>1. Move(r, WithAt(req[r], v)) /\ WithAt(req[r], v) \in ReqStates /\ WithAt(req[r], v).at = v
      BY <1>1, <2>1, <2>2, ReqAt
    <3>2. QED
      BY <2>1, <3>1
  <2>3. ASSUME NEW s \in Known \intersect table, Move(r, WithSid(req[r], "found", s))
        PROVE  \E q \in ReqStates : Move(r, q) /\ (q.at = "insert" => ~Full)
    <3>1. s \in Names /\ "found" \in ReqAts
      BY <1>1 DEF Names, ReqAts, Serving
    <3>2. WithSid(req[r], "found", s) \in ReqStates /\ WithSid(req[r], "found", s).at = "found"
      BY <1>1, <3>1, ReqAtSid
    <3>3. QED
      BY <2>3, <3>2
  <2>4. QED
    BY <2>2, <2>3, Zenon DEF Begin, WithAt, WithSid
<1>5. CASE q.at # "insert"
  <2>1. At("insert")' \subseteq At("insert") /\ UNCHANGED table
    BY <1>4, <1>5, Inserting DEF Begin
  <2>2. QED
    BY <1>3, <2>1, BoundKept
<1>6. CASE q.at = "insert"
  <2>1. Cardinality(table) < MaxSessions /\ table' = table /\ MaxSessions \in Nat
    <3>1. ~(Cardinality(table) >= MaxSessions)
      BY <1>4, <1>6 DEF Full
    <3>2. MaxSessions \in Nat
      BY DirectAssumption
    <3>3. Cardinality(table) < MaxSessions
      BY <3>1, <3>2, Counts
    <3>4. table' = table
      BY DEF Begin
    <3>5. QED
      BY <3>2, <3>3, <3>4
  <2>2. Max({peak', 1}) >= peak' /\ Max({peak', 1}) \in Nat
    BY <1>3, MaxOfTwo
  <2>3. Cardinality(At("insert")') \in Nat
    BY <1>2, DirectAssumption, FS_Subset, FS_CardinalityType
  <2>4. Cardinality(table') + Cardinality(At("insert")') < MaxSessions + Max({peak', 1})
    BY <1>3, <2>1, <2>2, <2>3, Counts
  <2>5. QED
    BY <2>4 DEF TableBounded
<1>7. QED
  BY <1>5, <1>6

LEMMA BoundEvict ==
  ASSUME IInv, TableBounded, NEW r \in Requests, Evict(r), req[r].oldest \in table
  PROVE  TableBounded'
<1>1. PICK o \in table : o = req[r].oldest
  OBVIOUS
<1>2. /\ table' = table \ {o}
      /\ Move(r, WithOldest(req[r], "insert", NoSession))
      /\ peak' = Max({peak, Cardinality(At("insert")')})
  BY <1>1, Zenon DEF Evict, WithOldest
<1>3. req[r] \in ReqStates /\ peak \in Nat /\ NoSession \in Names /\ "insert" \in ReqAts
  BY OneRequest DEF Names, ReqAts, Serving
<1>4. WithOldest(req[r], "insert", NoSession).at = "insert"
  BY <1>3, ReqAtOldest
<1>5. At("insert")' = At("insert") \union {r}
  BY <1>2, <1>4, Inserting
<1>6. Cardinality(table') = Cardinality(table) - 1 /\ Cardinality(table') \in Nat
  BY <1>1, <1>2, Counts, FS_RemoveElement, FS_CardinalityType
<1>7. Cardinality(At("insert")') <= Cardinality(At("insert")) + 1
      /\ Cardinality(At("insert")') \in Nat
  BY <1>5, Counts, OneMore
<1>8. At("insert")' \in SUBSET Requests
  BY DEF At
<1>9. peak' \in Nat /\ peak' >= peak
  BY <1>2, <1>3, <1>8, PeakType
<1>10. Bounded(Cardinality(table), Cardinality(At("insert")), peak)
  BY DEF TableBounded, Bounded
<1>11. Cardinality(table') + Cardinality(At("insert")') <= Cardinality(table) + Cardinality(At("insert"))
  BY <1>6, <1>7, Counts
<1>12. Bounded(Cardinality(table'), Cardinality(At("insert")'), peak')
  BY <1>3, <1>6, <1>7, <1>9, <1>10, <1>11, Counts, BoundGrows
<1>13. QED
  BY <1>12 DEF TableBounded, Bounded

LEMMA BoundInsert ==
  ASSUME IInv, TableBounded, NEW r \in Requests, Insert(r)
  PROVE  TableBounded'
<1>1. r \in At("insert") /\ table' = table \union {r} /\ UNCHANGED peak /\ peak \in Nat
  BY OneRequest DEF Insert, At
<1>2. Move(r, WithSid(req[r], "awaiting", r))
  BY Zenon DEF Insert, Serve, WithSid
<1>3. req[r] \in ReqStates /\ r \in Names /\ "awaiting" \in ReqAts
  BY OneRequest DEF Names, ReqAts, Serving
<1>4. WithSid(req[r], "awaiting", r).at = "awaiting"
  BY <1>3, ReqAtSid
<1>5. At("insert")' = At("insert") \ {r}
  BY <1>2, <1>4, Inserting
<1>6. Cardinality(At("insert")') = Cardinality(At("insert")) - 1
      /\ Cardinality(At("insert")') \in Nat
  BY <1>1, <1>5, Counts, FS_RemoveElement, FS_CardinalityType
<1>7. Cardinality(table') <= Cardinality(table) + 1 /\ Cardinality(table') \in Nat
  BY <1>1, Counts, OneMore
<1>8. Bounded(Cardinality(table), Cardinality(At("insert")), peak)
  BY DEF TableBounded, Bounded
<1>9. Cardinality(table') + Cardinality(At("insert")') <= Cardinality(table) + Cardinality(At("insert"))
  BY <1>6, <1>7, Counts
<1>10. peak' \in Nat /\ peak <= peak'
  BY <1>1
<1>11. Bounded(Cardinality(table'), Cardinality(At("insert")'), peak')
  BY <1>1, <1>6, <1>7, <1>8, <1>9, <1>10, Counts, BoundGrows
<1>12. QED
  BY <1>11 DEF TableBounded, Bounded

(* The other steps of a request do not lead to an insertion. *)
LEMMA BoundOther ==
  ASSUME IInv, TableBounded, NEW r \in Requests,
         NEW q, Move(r, q), q.at # "insert", UNCHANGED <<table, peak>>
  PROVE  TableBounded'
<1>1. At("insert")' \subseteq At("insert")
  BY Inserting
<1>2. peak' \in Nat /\ peak' >= peak
  BY OneRequest
<1>3. QED
  BY <1>1, <1>2, BoundKept

LEMMA BoundQuiet ==
  ASSUME IInv, TableBounded, UNCHANGED <<req, table, peak>>
  PROVE  TableBounded'
<1>1. At("insert")' \subseteq At("insert")
  BY DEF At
<1>2. peak' \in Nat /\ peak' >= peak
  BY DEF IInv, TypeOK
<1>3. QED
  BY <1>1, <1>2, BoundKept

LEMMA BoundRequest ==
  ASSUME IInv, TableBounded, NEW r \in Requests,
         \/ Resume(r) \/ ChooseOldest(r) \/ Answer(r) \/ TimeOut(r) \/ PollChat(r)
         \/ Evict(r) /\ req[r].oldest \notin table
  PROVE  TableBounded'
<1>1. req[r] \in ReqStates /\ NoSession \in Names
      /\ {"failed", "awaiting", "evict", "answered", "polled"} \subseteq ReqAts
  BY OneRequest DEF Names, ReqAts, Serving
<1>2. ASSUME Fail(r), UNCHANGED <<table, peak>>
      PROVE  TableBounded'
  <2>1. Move(r, WithSid(req[r], "failed", NoSession))
    BY <1>2, Zenon DEF Fail, WithSid
  <2>2. WithSid(req[r], "failed", NoSession).at = "failed"
    BY <1>1, ReqAtSid
  <2>3. QED
    BY <1>2, <2>1, <2>2, BoundOther
<1>3. CASE Resume(r)
  <2>1. CASE req[r].sid \in table
    <3>1. Move(r, WithSid(req[r], "awaiting", req[r].sid)) /\ UNCHANGED <<table, peak>>
      BY <1>3, <2>1, Zenon DEF Resume, Serve, WithSid
    <3>2. req[r].sid \in Names
      BY <2>1, OneRequest DEF Names
    <3>3. WithSid(req[r], "awaiting", req[r].sid).at = "awaiting"
      BY <1>1, <3>2, ReqAtSid
    <3>4. QED
      BY <3>1, <3>3, BoundOther
  <2>2. CASE req[r].sid \notin table
    BY <1>2, <1>3, <2>2 DEF Resume
  <2>3. QED
    BY <2>1, <2>2
<1>4. CASE ChooseOldest(r)
  <2>1. ASSUME NEW s \in Oldest, Move(r, WithOldest(req[r], "evict", s))
        PROVE  TableBounded'
    <3>1. s \in Names
      BY OneRequest DEF Names, Oldest
    <3>2. WithOldest(req[r], "evict", s).at = "evict"
      BY <1>1, <3>1, ReqAtOldest
    <3>3. QED
      BY <1>4, <2>1, <3>2, BoundOther DEF ChooseOldest
  <2>2. UNCHANGED <<table, peak>>
    BY <1>4 DEF ChooseOldest
  <2>3. QED
    BY <1>2, <1>4, <2>1, <2>2, Zenon DEF ChooseOldest, WithOldest
<1>5. CASE Answer(r) \/ TimeOut(r)
  <2>1. Move(r, WithAt(req[r], "answered")) /\ UNCHANGED <<table, peak>>
    BY <1>5, Zenon DEF Answer, TimeOut, WithAt
  <2>2. WithAt(req[r], "answered").at = "answered"
    BY <1>1, ReqAt
  <2>3. QED
    BY <2>1, <2>2, BoundOther
<1>6. CASE PollChat(r)
  <2>1. UNCHANGED <<table, peak>>
    BY <1>6 DEF PollChat
  <2>2. CASE Move(r, WithAt(req[r], "polled"))
    <3>1. WithAt(req[r], "polled").at = "polled"
      BY <1>1, ReqAt
    <3>2. QED
      BY <2>1, <2>2, <3>1, BoundOther
  <2>3. ASSUME NEW K, Move(r, WithSeen(req[r], "polled", K))
        PROVE  TableBounded'
    <3>1. WithSeen(req[r], "polled", K).at = "polled"
      BY <1>1 DEF WithSeen, ReqStates
    <3>2. QED
      BY <2>1, <2>3, <3>1, BoundOther
  <2>4. QED
    BY <1>6, <2>2, <2>3, Zenon DEF PollChat, WithAt, WithSeen
<1>7. CASE Evict(r) /\ req[r].oldest \notin table
  BY <1>2, <1>7 DEF Evict
<1>8. QED
  BY <1>3, <1>4, <1>5, <1>6, <1>7

LEMMA BoundStarts == Init => TableBounded
<1> SUFFICES ASSUME Init
             PROVE  TableBounded
  OBVIOUS
<1>1. At("insert") = {} /\ table = {} /\ peak = 0
  BY DEF Init, At
<1>2. Max({peak, 1}) >= 1 /\ Max({peak, 1}) \in Nat
  BY <1>1, MaxOfTwo
<1>3. QED
  BY <1>1, <1>2, FS_EmptySet, DirectAssumption DEF TableBounded

LEMMA BoundStays == IInv /\ TableBounded /\ [Next]_vars => TableBounded'
<1> SUFFICES ASSUME IInv, TableBounded, [Next]_vars
             PROVE  TableBounded'
  OBVIOUS
<1>1. ASSUME NEW r \in Requests, HandlerStep(r)
      PROVE  TableBounded'
  BY <1>1, BoundRequest, BoundEvict, BoundInsert DEF HandlerStep
<1>2. ASSUME NEW r \in Requests, AttemptStep(r)
      PROVE  TableBounded'
  BY <1>2, BoundQuiet DEF AttemptStep, StartAttempt, AddStep, EndLoop, EndAttempt
<1>3. ASSUME NEW w \in Watchers, Join(w) \/ WatchStep(w) \/ Expire(w)
      PROVE  TableBounded'
  BY <1>3, BoundQuiet DEF Join, WatchStep, Count, Slice, Check, Expire
<1>4. CASE UNCHANGED vars
  BY <1>4, BoundQuiet DEF vars
<1>5. QED
  BY <1>1, <1>2, <1>3, <1>4, BoundBegin, BoundRequest DEF Next

(* The table and the requests about to insert never outnumber the limit by *)
(* more than the requests that inserted at one time, less one.             *)
THEOREM DirectTableBounded == Spec => []TableBounded
BY IInvHolds, BoundStarts, BoundStays, PTL DEF Spec
============================================================================
