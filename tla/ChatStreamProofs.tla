------------------------- MODULE ChatStreamProofs -------------------------
(***************************************************************************)
(* Proofs about the chat streams, for any number of chats, milliseconds,   *)
(* events and faults.                                                      *)
(***************************************************************************)
EXTENDS ChatStreamFeed, SequenceTheorems, TLAPS

(* An id that has not been left behind by the clock has no events yet and  *)
(* is not over.                                                            *)
Fresh ==
  \A id \in Ids : id >= clock => /\ run[id].log = <<>>
                                 /\ run[id].status \notin Terminal

(* What a stream has sent is the part of the log before its cursor, and    *)
(* the events of its poll come next.                                       *)
Reads(s, log) ==
  /\ s.cursor <= Len(log)
  /\ s.sent = SubSeq(log, 1, s.cursor)
  /\ s.at \in Open =>
       /\ s.cursor + Len(s.events) <= Len(log)
       /\ s.events = SubSeq(log, s.cursor + 1, s.cursor + Len(s.events))

Follows(s) ==
  /\ s.at = "idle" => s.id = 0
  /\ s.id = 0 => /\ s.at \in {"idle", "closed"}
                 /\ s.cursor = 0
                 /\ s.sent = <<>>
                 /\ s.end \notin Terminal
                 /\ s.stop = "none"
  /\ s.id # 0 => Reads(s, run[s.id].log)
  /\ s.at \in {"idle", "poll", "fallback"} => s.events = <<>>

(* A status a poll has read, or a stream has ended with, is that of the    *)
(* run for good, or it is the COMPLETED of a failed query.                 *)
Told(status, id) ==
  /\ status \in {"FAILED", "TERMINATED"} => run[id].status = status
  /\ status = "COMPLETED" =>
       run[id].status = "COMPLETED" \/ faults["query_failed"] > 0

Knows(s) ==
  /\ s.at = "fallback" => faults["query_failed"] > 0
  /\ s.at = "reply" => Told(s.status, s.id)
  /\ Told(s.end, s.id)

IInv ==
  /\ TypeOK
  /\ Fresh
  /\ \A i \in Streams : Follows(stream[i]) /\ Knows(stream[i])

(* Logs only grow, and a run that is over stays as it is. *)
Grows ==
  \A id \in Ids :
    /\ \E n \in Nat : run'[id].log = Numbered(run[id].log, n)
    /\ run[id].status \in Terminal => run'[id].status = run[id].status

----------------------------------------------------------------------------
(* The runs                                                                *)

LEMMA NumberedType ==
  ASSUME NEW q \in Seq(Nat), NEW n \in Nat
  PROVE  /\ Numbered(q, n) \in Seq(Nat)
         /\ Len(Numbered(q, n)) = Len(q) + n
         /\ \A a, b \in Nat : a >= 1 /\ b <= Len(q) =>
              SubSeq(Numbered(q, n), a, b) = SubSeq(q, a, b)
         /\ n = 0 => Numbered(q, n) = q
<1> DEFINE new == [k \in 1..n |-> Len(q) + k]
<1>1. new \in Seq(Nat) /\ Len(new) = n
  <2>1. Len(q) \in Nat
    OBVIOUS
  <2>2. QED
    BY <2>1
<1>2. Numbered(q, n) = q \o new
  BY DEF Numbered
<1> HIDE DEF new
<1>3. Numbered(q, n) \in Seq(Nat) /\ Len(Numbered(q, n)) = Len(q) + n
  BY <1>1, <1>2, ConcatProperties
<1>4. ASSUME NEW a \in Nat, NEW b \in Nat, a >= 1, b <= Len(q)
      PROVE  SubSeq(Numbered(q, n), a, b) = SubSeq(q, a, b)
  <2>1. CASE a <= b + 1
    <3>1. a \in 1..(Len(q) + 1) /\ b \in (a - 1)..Len(q)
      BY <1>4, <2>1
    <3>2. QED
      BY <3>1, <1>1, <1>2, SubSeqOfConcat1
  <2>2. CASE ~(a <= b + 1)
    BY <1>4, <2>2, SubSeqEmpty
  <2>3. QED
    BY <2>1, <2>2
<1>5. n = 0 => Numbered(q, n) = q
  <2>1. ASSUME n = 0 PROVE new = <<>>
    BY <2>1 DEF new
  <2>2. QED
    BY <1>2, <2>1, ConcatEmptySeq
<1>6. QED
  BY <1>3, <1>4, <1>5

(* What any change of the runs keeps. *)
RunsKept == RunsTypeOK' /\ Fresh' /\ Grows

LEMMA RunsStutter ==
  ASSUME RunsTypeOK, Fresh, UNCHANGED run,
         clock' \in Ids \union {MaxClock + 1}, clock' >= clock
  PROVE  RunsKept
<1>1. \A id \in Ids : run[id].log \in Seq(Nat)
  BY DEF RunsTypeOK, Runs
<1>2. \A id \in Ids : run'[id].log = Numbered(run[id].log, 0)
  BY <1>1, NumberedType
<1>3. clock \in Nat /\ clock' \in Nat /\ Ids \subseteq Nat
  BY RunsAssumption DEF RunsTypeOK, Ids
<1>4. QED
  BY <1>2, <1>3 DEF RunsKept, RunsTypeOK, Fresh, Grows

(* One run changes, without going back on its log or its end. *)
LEMMA OneRunMoves ==
  ASSUME RunsTypeOK, Fresh, UNCHANGED clock,
         NEW id \in Ids, NEW st \in Statuses, NEW n \in Nat,
         run[id].status \notin Terminal,
         id < clock \/ (n = 0 /\ st = "RUNNING"),
         MoveRun(id, st, n)
  PROVE  RunsKept /\ run'[id].log = Numbered(run[id].log, n)
<1> DEFINE r == [status |-> st, log |-> Numbered(run[id].log, n)]
<1>1. \A k \in Ids : run[k] \in Runs /\ run[k].log \in Seq(Nat)
  BY DEF RunsTypeOK, Runs
<1>2. r \in Runs /\ r.status = st /\ r.log = Numbered(run[id].log, n)
  BY <1>1, NumberedType DEF Runs
<1>3. r.log = Numbered(run[id].log, n) /\ (n = 0 => r.log = run[id].log)
  BY <1>1, <1>2, NumberedType
<1> HIDE DEF r
<1>4. run' = [run EXCEPT ![id] = r] /\ run \in [Ids -> Runs]
  BY DEF r, RunsTypeOK, MoveRun
<1>5. run' \in [Ids -> Runs] /\ run'[id] = r /\ \A k \in Ids : k # id => run'[k] = run[k]
  BY <1>2, <1>4
<1>6. RunsTypeOK'
  BY <1>5 DEF RunsTypeOK
<1>7. \A k \in Ids : run[k].log = Numbered(run[k].log, 0)
  BY <1>1, NumberedType
<1>8. Grows
  BY <1>3, <1>5, <1>7 DEF Grows
<1>9. clock \in Nat /\ Ids \subseteq Nat
  BY RunsAssumption DEF RunsTypeOK, Ids
<1>10. Fresh'
  <2> SUFFICES ASSUME NEW k \in Ids, k >= clock
               PROVE  run'[k].log = <<>> /\ run'[k].status \notin Terminal
    BY DEF Fresh
  <2>1. CASE k = id
    BY <1>2, <1>3, <1>5, <1>9, <2>1 DEF Fresh, Terminal
  <2>2. CASE k # id
    BY <1>5, <2>2 DEF Fresh
  <2>3. QED
    BY <2>1, <2>2
<1>11. QED
  BY <1>3, <1>5, <1>6, <1>8, <1>10 DEF RunsKept

LEMMA RunsStepKeeps ==
  ASSUME RunsTypeOK, Fresh, RunsStep
  PROVE  RunsKept
<1>1. CASE Tick
  BY <1>1, RunsStutter, RunsAssumption DEF Tick, RunsTypeOK, Ids
<1>2. ASSUME NEW id \in Ids, EmitEvent(id)
      PROVE  RunsKept
  BY <1>2, OneRunMoves DEF EmitEvent, Running, Statuses, Terminal
<1>3. ASSUME NEW id \in Ids, CompleteRun(id)
      PROVE  RunsKept
  BY <1>3, OneRunMoves DEF CompleteRun, Running, Statuses, Terminal
<1>4. ASSUME NEW id \in Ids, FailRun(id)
      PROVE  RunsKept
  BY <1>4, OneRunMoves DEF FailRun, Running, Statuses, Terminal
<1>5. QED
  BY <1>1, <1>2, <1>3, <1>4 DEF RunsStep

LEMMA ExecuteKeeps ==
  ASSUME RunsTypeOK, Fresh, ExecuteWorkflow, UNCHANGED clock
  PROVE  RunsKept /\ run'[clock].log = <<>>
<1>1. clock \in Ids /\ run[clock] \in Runs /\ clock >= clock
  BY RunsAssumption DEF ExecuteWorkflow, RunsTypeOK, Ids
<1>2. run[clock].status \notin Terminal /\ run[clock].log = <<>>
  BY <1>1 DEF Fresh
<1>3. Numbered(run[clock].log, 0) = <<>>
  BY <1>1, <1>2, NumberedType DEF Runs
<1>4. MoveRun(clock, "RUNNING", 0)
  BY DEF ExecuteWorkflow
<1>5. "RUNNING" \in Statuses /\ 0 \in Nat
  BY DEF Statuses
<1>6. RunsKept /\ run'[clock].log = Numbered(run[clock].log, 0)
  BY <1>1, <1>2, <1>4, <1>5, OneRunMoves
<1>7. QED
  BY <1>3, <1>6

LEMMA TerminateKeeps ==
  ASSUME RunsTypeOK, Fresh, NEW id \in Ids, Running(id), TerminateRun(id),
         UNCHANGED clock
  PROVE  RunsKept
BY OneRunMoves DEF TerminateRun, Running, Statuses, Terminal

----------------------------------------------------------------------------
(* The streams                                                             *)

(* A log that grows still has what was read of it. *)
LEMMA ReadsOn ==
  ASSUME NEW s \in StreamStates, NEW q \in Seq(Nat), NEW n \in Nat, Reads(s, q)
  PROVE  Reads(s, Numbered(q, n))
<1> DEFINE M == Numbered(q, n)
           c == s.cursor
           k == Len(s.events)
<1>1. c \in Nat /\ k \in Nat /\ Len(q) \in Nat
  BY DEF StreamStates
<1>2. Len(M) = Len(q) + n
      /\ \A a, b \in Nat : a >= 1 /\ b <= Len(q) => SubSeq(M, a, b) = SubSeq(q, a, b)
  BY NumberedType
<1> HIDE DEF M
<1>3. c <= Len(q) /\ (s.at \in Open => c + k <= Len(q))
  BY DEF Reads
<1> HIDE DEF c, k
<1>4. c <= Len(M) /\ (c + k <= Len(q) => c + k <= Len(M))
  BY <1>1, <1>2, <1>3
<1>5. SubSeq(M, 1, c) = SubSeq(q, 1, c)
  <2>1. 1 \in Nat /\ 1 >= 1 /\ c \in Nat /\ c <= Len(q)
    BY <1>1, <1>3
  <2>2. QED
    BY <1>2, <2>1
<1>6. ASSUME c + k <= Len(q)
      PROVE  SubSeq(M, c + 1, c + k) = SubSeq(q, c + 1, c + k)
  <2>1. c + 1 \in Nat /\ c + k \in Nat /\ c + 1 >= 1
    BY <1>1
  <2>2. QED
    BY <1>2, <1>6, <2>1
<1>7. QED
  BY <1>3, <1>4, <1>5, <1>6 DEF Reads, M, c, k

(* A stream that does not move goes on following its run. *)
LEMMA Unmoved ==
  ASSUME RunsTypeOK, Grows, NEW s \in StreamStates, Follows(s), Knows(s),
         faults["query_failed"] > 0 => faults'["query_failed"] > 0
  PROVE  Follows(s)' /\ Knows(s)'
<1>1. CASE s.id = 0
  BY <1>1 DEF Follows, Knows, Told, Open, Answering, Terminal
<1>2. CASE s.id # 0
  <2>1. s.id \in Ids /\ run[s.id].log \in Seq(Nat)
    BY <1>2 DEF StreamStates, RunsTypeOK, Runs
  <2>2. PICK n \in Nat : run'[s.id].log = Numbered(run[s.id].log, n)
    BY <2>1 DEF Grows
  <2>3. Reads(s, run[s.id].log)
    BY <1>2 DEF Follows
  <2>4. Reads(s, run'[s.id].log)
    BY <2>1, <2>2, <2>3, ReadsOn
  <2>5. Follows(s)'
    BY <1>2, <2>4 DEF Follows, Reads
  <2>6. Knows(s)'
    BY <2>1 DEF Knows, Told, Grows, Terminal
  <2>7. QED
    BY <2>5, <2>6
<1>3. QED
  BY <1>1, <1>2

(* Faults are counted up. *)
FaultsKept ==
  /\ faults' \in [FaultKinds -> Nat]
  /\ faults["query_failed"] > 0 => faults'["query_failed"] > 0

LEMMA FaultCounts ==
  ASSUME faults \in [FaultKinds -> Nat], NEW kind \in FaultKinds, Fault(kind)
  PROVE  FaultsKept /\ faults'[kind] > 0
<1>1. faults' = [faults EXCEPT ![kind] = @ + 1] /\ "query_failed" \in FaultKinds
  BY DEF Fault, FaultKinds
<1>2. \A k \in FaultKinds : faults[k] \in Nat
  OBVIOUS
<1>3. QED
  BY <1>1, <1>2 DEF FaultsKept

LEMMA NoFault ==
  ASSUME faults \in [FaultKinds -> Nat], UNCHANGED faults
  PROVE  FaultsKept
BY DEF FaultsKept

(* One stream moves. *)
LEMMA StreamMoves ==
  ASSUME IInv, RunsKept, FaultsKept, NEW i \in Streams, NEW t \in StreamStates,
         Move(i, t), Follows(t)', Knows(t)'
  PROVE  IInv'
<1>1. stream \in [Streams -> StreamStates] /\ stream' = [stream EXCEPT ![i] = t]
  BY DEF IInv, TypeOK, Move
<1>2. stream' \in [Streams -> StreamStates] /\ stream'[i] = t
      /\ \A j \in Streams : j # i => stream'[j] = stream[j]
  BY <1>1
<1>3. ASSUME NEW j \in Streams
      PROVE  (Follows(stream[j]) /\ Knows(stream[j]))'
  <2>1. CASE j = i
    BY <1>2, <2>1
  <2>2. CASE j # i
    <3>1. PICK u \in StreamStates : u = stream[j]
      BY <1>1
    <3>2. Follows(u) /\ Knows(u)
      BY <3>1 DEF IInv
    <3>3. Follows(u)' /\ Knows(u)'
      BY <3>2, Unmoved DEF IInv, TypeOK, RunsKept, FaultsKept
    <3>4. QED
      BY <1>2, <2>2, <3>1, <3>3
  <2>3. QED
    BY <2>1, <2>2
<1>4. QED
  BY <1>2, <1>3 DEF IInv, TypeOK, RunsKept, FaultsKept

(* One stream moves and the runs stay. *)
LEMMA QuietMoves ==
  ASSUME IInv, UNCHANGED runVars, FaultsKept, NEW i \in Streams, NEW t \in StreamStates,
         Move(i, t), Follows(t), Knows(t)'
  PROVE  IInv'
<1>1. UNCHANGED run /\ UNCHANGED clock
  BY DEF runVars
<1>2. clock' \in Ids \union {MaxClock + 1} /\ clock' >= clock
  BY <1>1, RunsAssumption DEF IInv, TypeOK, RunsTypeOK, Ids
<1>3. RunsKept
  BY <1>1, <1>2, RunsStutter DEF IInv, TypeOK
<1>4. Follows(t)'
  BY <1>1 DEF Follows, Reads
<1>5. QED
  BY <1>3, <1>4, StreamMoves

(* What IInv says of one stream. *)
LEMMA OneStream ==
  ASSUME IInv, NEW i \in Streams
  PROVE  /\ stream[i] \in StreamStates
         /\ Follows(stream[i])
         /\ Knows(stream[i])
         /\ faults \in [FaultKinds -> Nat]
         /\ stream[i].at \in Open => /\ stream[i].id \in Ids
                                     /\ run[stream[i].id] \in Runs
                                     /\ run[stream[i].id].log \in Seq(Nat)
<1>1. stream[i] \in StreamStates /\ Follows(stream[i]) /\ Knows(stream[i])
      /\ faults \in [FaultKinds -> Nat] /\ run \in [Ids -> Runs]
  BY DEF IInv, TypeOK, RunsTypeOK
<1>2. stream[i].at \in Open => stream[i].id \in Ids
  BY <1>1 DEF Follows, StreamStates, Open, Answering
<1>3. QED
  BY <1>1, <1>2 DEF Runs

(* all[from:] is what follows the cursor. *)
LEMMA NewEventsRead ==
  ASSUME NEW q \in Seq(Nat), NEW c \in Nat, c <= Len(q)
  PROVE  /\ NewEvents(q, c) \in Seq(Nat)
         /\ c + Len(NewEvents(q, c)) = Len(q)
         /\ NewEvents(q, c) = SubSeq(q, c + 1, c + Len(NewEvents(q, c)))
<1>1. Len(q) \in Nat
  OBVIOUS
<1>2. NewEvents(q, c) \in Seq(Nat) /\ Len(NewEvents(q, c)) = Len(q) - c
  BY <1>1 DEF NewEvents
<1>3. c + Len(NewEvents(q, c)) = Len(q)
  BY <1>1, <1>2
<1>4. QED
  BY <1>2, <1>3 DEF NewEvents

(* A status goes on being told while the run stays. *)
LEMMA StillTold ==
  ASSUME NEW st, NEW id, Told(st, id), UNCHANGED run, FaultsKept
  PROVE  Told(st, id)'
BY DEF Told, FaultsKept

(* A poll without events. *)
LEMMA NothingRead ==
  ASSUME NEW q \in Seq(Nat), NEW c \in Nat
  PROVE  /\ c + Len(<<>>) = c
         /\ SubSeq(q, c + 1, c + Len(<<>>)) = <<>>
<1>1. c + Len(<<>>) = c /\ c + 1 \in Int /\ c \in Int /\ c < c + 1
  OBVIOUS
<1>2. QED
  BY <1>1, SubSeqEmpty

LEMMA QueryEventsKeeps ==
  ASSUME IInv, NEW i \in Streams, QueryEvents(i)
  PROVE  IInv'
<1>1. PICK s : s = stream[i]
  OBVIOUS
<1>2. PICK q : q = run[s.id].log
  OBVIOUS
<1>3. PICK c : c = s.cursor
  OBVIOUS
<1>4. s \in StreamStates /\ Follows(s) /\ Knows(s) /\ s.at = "poll"
      /\ s.id \in Ids /\ q \in Seq(Nat) /\ s.id # 0
  BY <1>1, <1>2, OneStream, RunsAssumption DEF QueryEvents, Open, Ids
<1>5. Reads(s, q)
  BY <1>2, <1>4 DEF Follows
<1>6. c \in Nat /\ c <= Len(q)
  BY <1>3, <1>4, <1>5 DEF Reads, StreamStates
<1>7. PICK e : e = NewEvents(q, c)
  OBVIOUS
<1>8. e \in Seq(Nat) /\ c + Len(e) = Len(q) /\ e = SubSeq(q, c + 1, c + Len(e))
  BY <1>4, <1>6, <1>7, NewEventsRead
<1>9. PICK t : t = [s EXCEPT !.at = "describe", !.events = e]
  OBVIOUS
<1>10. t \in StreamStates /\ t.at = "describe" /\ t.events = e
       /\ t.id = s.id /\ t.cursor = s.cursor /\ t.sent = s.sent /\ t.end = s.end
  BY <1>4, <1>8, <1>9 DEF StreamStates, Open, Answering
<1>11. Reads(t, q)
  BY <1>3, <1>4, <1>5, <1>6, <1>8, <1>10 DEF Reads
<1>12. Follows(t)
  BY <1>2, <1>4, <1>10, <1>11 DEF Follows
<1>13. UNCHANGED runVars /\ UNCHANGED run /\ UNCHANGED faults /\ FaultsKept /\ Move(i, t)
  BY <1>1, <1>2, <1>3, <1>7, <1>9, NoFault, OneStream DEF QueryEvents, runVars
<1>14. Knows(t)'
  BY <1>4, <1>10, <1>13, StillTold DEF Knows
<1>15. QED
  BY <1>10, <1>12, <1>13, <1>14, QuietMoves

LEMMA QueryFailsKeeps ==
  ASSUME IInv, NEW i \in Streams, QueryFails(i)
  PROVE  IInv'
<1>1. PICK s : s = stream[i]
  OBVIOUS
<1>2. s \in StreamStates /\ Follows(s) /\ Knows(s) /\ s.at = "poll"
      /\ s.id \in Ids /\ s.id # 0
  BY <1>1, OneStream, RunsAssumption DEF QueryFails, Open, Ids
<1>3. PICK t : t = [s EXCEPT !.at = "fallback"]
  OBVIOUS
<1>4. t \in StreamStates /\ t.at = "fallback" /\ t.events = s.events
      /\ t.id = s.id /\ t.cursor = s.cursor /\ t.sent = s.sent /\ t.end = s.end
  BY <1>2, <1>3 DEF StreamStates, Open, Answering
<1>5. Follows(t)
  BY <1>2, <1>4 DEF Follows, Reads, Open, Answering
<1>6. Fault("query_failed") /\ "query_failed" \in FaultKinds
      /\ faults \in [FaultKinds -> Nat]
  BY OneStream DEF QueryFails, FaultKinds
<1>7. FaultsKept /\ faults'["query_failed"] > 0
  BY <1>6, FaultCounts
<1>8. UNCHANGED runVars /\ UNCHANGED run /\ Move(i, t)
  BY <1>1, <1>3 DEF QueryFails, runVars
<1>9. Knows(t)'
  BY <1>2, <1>4, <1>7, <1>8, StillTold DEF Knows
<1>10. QED
  BY <1>4, <1>5, <1>7, <1>8, <1>9, QuietMoves

LEMMA DescribeKeeps ==
  ASSUME IInv, NEW i \in Streams, Describe(i)
  PROVE  IInv'
<1>1. PICK s : s = stream[i]
  OBVIOUS
<1>2. s \in StreamStates /\ Follows(s) /\ Knows(s) /\ s.at = "describe"
      /\ s.id \in Ids /\ s.id # 0 /\ run[s.id] \in Runs
  BY <1>1, OneStream, RunsAssumption DEF Describe, Open, Answering, Ids
<1>5. PICK y \in Statuses \union {"UNKNOWN"} :
        /\ Move(i, [s EXCEPT !.at = "reply", !.status = y])
        /\ \/ y = run[s.id].status /\ UNCHANGED faults
           \/ y = "UNKNOWN" /\ Fault("describe_failed")
  BY <1>1, <1>2 DEF Describe, Undescribed, Runs
<1>6. PICK t : t = [s EXCEPT !.at = "reply", !.status = y]
  OBVIOUS
<1>7. t \in StreamStates /\ t.at = "reply" /\ t.status = y /\ t.events = s.events
      /\ t.id = s.id /\ t.cursor = s.cursor /\ t.sent = s.sent /\ t.end = s.end
  BY <1>2, <1>6 DEF StreamStates, Open, Answering
<1>8. Follows(t)
  BY <1>2, <1>7 DEF Follows, Reads, Open, Answering
<1>9. FaultsKept
  <2>1. "describe_failed" \in FaultKinds /\ faults \in [FaultKinds -> Nat]
    BY OneStream DEF FaultKinds
  <2>2. QED
    BY <1>5, <2>1, NoFault, FaultCounts
<1>10. UNCHANGED runVars /\ UNCHANGED run /\ Move(i, t)
  BY <1>5, <1>6 DEF Describe, runVars
<1>11. Told(y, s.id)
  BY <1>5 DEF Told
<1>12. Knows(t)'
  BY <1>2, <1>7, <1>9, <1>10, <1>11, StillTold DEF Knows
<1>13. QED
  BY <1>7, <1>8, <1>9, <1>10, <1>12, QuietMoves

(* The stream polls again. *)
LEMMA NextPollKeeps ==
  ASSUME IInv, NEW i \in Streams, stream[i].at \in Open, FaultsKept,
         UNCHANGED runVars, Move(i, NextPoll(stream[i]))
  PROVE  IInv'
<1>1. PICK s : s = stream[i]
  OBVIOUS
<1>2. s \in StreamStates /\ Follows(s) /\ Knows(s) /\ s.at \in Open
      /\ s.id \in Ids /\ s.id # 0 /\ run[s.id].log \in Seq(Nat)
  BY <1>1, OneStream, RunsAssumption DEF Ids
<1>3. PICK t : t = [s EXCEPT !.at = "poll", !.events = <<>>, !.status = "none"]
  OBVIOUS
<1>4. t \in StreamStates /\ t.at = "poll" /\ t.events = <<>>
      /\ t.id = s.id /\ t.cursor = s.cursor /\ t.sent = s.sent /\ t.end = s.end
  <2>1. <<>> \in Seq(Nat) /\ "none" \in Statuses
    BY DEF Statuses
  <2>2. PICK e \in Seq(Nat) : e = <<>>
    BY <2>1
  <2>3. t = [s EXCEPT !.at = "poll", !.events = e, !.status = "none"]
    BY <1>3, <2>2
  <2>4. QED
    BY <1>2, <2>1, <2>2, <2>3 DEF StreamStates, Open
<1>5. Reads(s, run[s.id].log)
  BY <1>2 DEF Follows
<1>6. Reads(t, run[s.id].log)
  <2>1. PICK q \in Seq(Nat) : q = run[s.id].log
    BY <1>2
  <2>2. PICK c \in Nat : c = s.cursor
    BY <1>2 DEF StreamStates
  <2>3. c <= Len(q) /\ s.sent = SubSeq(q, 1, c)
    BY <1>5, <2>1, <2>2 DEF Reads
  <2>4. c + Len(<<>>) = c /\ SubSeq(q, c + 1, c + Len(<<>>)) = <<>>
    BY NothingRead
  <2>5. QED
    BY <1>4, <2>1, <2>2, <2>3, <2>4 DEF Reads
<1>7. Follows(t)
  BY <1>2, <1>4, <1>6 DEF Follows
<1>8. Move(i, t) /\ UNCHANGED run
  BY <1>1, <1>3 DEF runVars, NextPoll
<1>9. Knows(t)'
  BY <1>2, <1>4, <1>8, StillTold DEF Knows
<1>10. QED
  BY <1>4, <1>7, <1>8, <1>9, QuietMoves

LEMMA PollLostKeeps ==
  ASSUME IInv, NEW i \in Streams, PollLost(i)
  PROVE  IInv'
<1>1. "poll_lost" \in FaultKinds /\ faults \in [FaultKinds -> Nat] /\ Fault("poll_lost")
  BY OneStream DEF PollLost, FaultKinds
<1>2. FaultsKept
  BY <1>1, FaultCounts
<1>3. QED
  BY <1>2, NextPollKeeps DEF PollLost, Open

LEMMA FallbackKeeps ==
  ASSUME IInv, NEW i \in Streams, Fallback(i)
  PROVE  IInv'
<1>1. PICK s : s = stream[i]
  OBVIOUS
<1>2. s \in StreamStates /\ Follows(s) /\ Knows(s) /\ s.at = "fallback"
      /\ s.id \in Ids /\ s.id # 0
  BY <1>1, OneStream, RunsAssumption DEF Fallback, Open, Answering, Ids
<1>3. FaultsKept /\ UNCHANGED faults /\ UNCHANGED runVars /\ UNCHANGED run
  BY NoFault, OneStream DEF Fallback, runVars
<1>4. CASE Move(i, NextPoll(s))
  BY <1>1, <1>2, <1>3, <1>4, NextPollKeeps DEF Open, Answering
<1>5. CASE Move(i, [s EXCEPT !.at = "reply", !.events = <<>>, !.status = "COMPLETED"])
  <2>1. PICK t : t = [s EXCEPT !.at = "reply", !.events = <<>>, !.status = "COMPLETED"]
    OBVIOUS
  <2>2. PICK e \in Seq(Nat) : e = <<>> /\ s.events = e
    <3>1. <<>> \in Seq(Nat) /\ s.events = <<>>
      BY <1>2 DEF Follows
    <3>2. QED
      BY <3>1, Zenon
  <2>3. t = [s EXCEPT !.at = "reply", !.events = e, !.status = "COMPLETED"]
    BY <2>1, <2>2, Zenon
  <2>4. t \in StreamStates /\ t.at = "reply" /\ t.events = s.events /\ t.status = "COMPLETED"
        /\ t.id = s.id /\ t.cursor = s.cursor /\ t.sent = s.sent /\ t.end = s.end
    BY <1>2, <2>2, <2>3 DEF StreamStates, Open, Answering, Statuses, Terminal
  <2>5. Follows(t)
    BY <1>2, <2>4 DEF Follows, Reads, Open, Answering
  <2>6. Told("COMPLETED", s.id)
    BY <1>2 DEF Knows, Told
  <2>7. Knows(t)'
    BY <1>2, <1>3, <2>4, <2>6, StillTold DEF Knows
  <2>8. QED
    BY <1>3, <1>5, <2>1, <2>4, <2>5, <2>7, QuietMoves
<1>6. QED
  BY <1>1, <1>4, <1>5 DEF Fallback

(* The first n of some events. *)
Cut(d, e, n) == d = SubSeq(e, 1, n)

LEMMA CutSegment ==
  ASSUME NEW q \in Seq(Nat), NEW c \in Nat, NEW k \in Nat, c + k <= Len(q),
         NEW n \in 0..k
  PROVE  /\ SubSeq(SubSeq(q, c + 1, c + k), 1, n) = SubSeq(q, c + 1, c + n)
         /\ SubSeq(q, c + 1, c + n) \in Seq(Nat)
         /\ Len(SubSeq(q, c + 1, c + n)) = n
<1> DEFINE e == SubSeq(q, c + 1, c + k)
           d == SubSeq(e, 1, n)
           f == SubSeq(q, c + 1, c + n)
<1>1. Len(q) \in Nat
  OBVIOUS
<1>2. e \in Seq(Nat) /\ Len(e) = k /\ \A j \in 1..k : e[j] = q[c + j]
  BY <1>1
<1>3. f \in Seq(Nat) /\ Len(f) = n /\ \A j \in 1..n : f[j] = q[c + j]
  BY <1>1
<1> HIDE DEF e, f
<1>4. d \in Seq(Nat) /\ Len(d) = n /\ \A j \in 1..n : d[j] = e[j]
  BY <1>2
<1> HIDE DEF d
<1>5. ASSUME NEW j \in 1..n
      PROVE  d[j] = f[j]
  <2>1. j \in 1..k
    OBVIOUS
  <2>2. QED
    BY <1>2, <1>3, <1>4, <2>1
<1>6. d = f
  BY <1>3, <1>4, <1>5, SeqEqual
<1>7. QED
  BY <1>3, <1>6 DEF d, e, f

(* What is written of a poll is appended to what was sent. *)
LEMMA WriteReads ==
  ASSUME NEW s \in StreamStates, NEW q \in Seq(Nat), Reads(s, q), s.at \in Open,
         NEW n \in 0..Len(s.events), NEW d, Cut(d, s.events, n)
  PROVE  /\ Write(s, d) \in StreamStates
         /\ Write(s, d).cursor = s.cursor + n
         /\ Write(s, d).cursor <= Len(q)
         /\ Write(s, d).sent = SubSeq(q, 1, Write(s, d).cursor)
         /\ Write(s, d).id = s.id
         /\ Write(s, d).end = s.end
<1>1. PICK c \in Nat : c = s.cursor
  BY DEF StreamStates
<1>2. PICK e \in Seq(Nat) : e = s.events
  BY DEF StreamStates
<1>3. PICK k \in Nat : k = Len(e)
  OBVIOUS
<1>4. c + k <= Len(q) /\ e = SubSeq(q, c + 1, c + k) /\ s.sent = SubSeq(q, 1, c)
  BY <1>1, <1>2, <1>3 DEF Reads
<1>5. Len(q) \in Nat /\ n \in 0..k
  BY <1>2, <1>3
<1>6. d = SubSeq(e, 1, n)
  BY <1>2 DEF Cut
<1>7. d = SubSeq(q, c + 1, c + n) /\ d \in Seq(Nat) /\ Len(d) = n
  BY <1>4, <1>5, <1>6, CutSegment
<1>8. 1 \in 1..(Len(q) + 1) /\ c \in (1 - 1)..Len(q) /\ (c + n) \in c..Len(q)
  BY <1>4, <1>5
<1>9. SubSeq(q, 1, c) \o SubSeq(q, c + 1, c + n) = SubSeq(q, 1, c + n)
  BY <1>8, ConcatAdjacentSubSeq
<1>10. PICK u : u = s.sent \o d
  OBVIOUS
<1>11. u \in Seq(Nat) /\ u = SubSeq(q, 1, c + n)
  <2>1. s.sent \in Seq(Nat)
    BY DEF StreamStates
  <2>2. u \in Seq(Nat)
    BY <1>7, <1>10, <2>1, ConcatProperties
  <2>3. QED
    BY <1>4, <1>7, <1>9, <1>10, <2>2
<1>12. PICK m \in Nat : m = c + n
  BY <1>5
<1>13. Write(s, d) = [s EXCEPT !.sent = u, !.cursor = m]
  BY <1>1, <1>7, <1>10, <1>12 DEF Write
<1>14. PICK w : w = [s EXCEPT !.sent = u, !.cursor = m]
  OBVIOUS
<1>15. w \in StreamStates /\ w.sent = u /\ w.cursor = m /\ w.id = s.id /\ w.end = s.end
  BY <1>11, <1>12, <1>14 DEF StreamStates
<1>16. QED
  BY <1>1, <1>8, <1>11, <1>12, <1>13, <1>14, <1>15

LEMMA CutWhole ==
  ASSUME NEW s \in StreamStates
  PROVE  Cut(s.events, s.events, Len(s.events)) /\ Len(s.events) \in 0..Len(s.events)
<1>1. PICK e \in Seq(Nat) : e = s.events
  BY DEF StreamStates
<1>2. e = SubSeq(e, 1, Len(e)) /\ Len(e) \in Nat
  OBVIOUS
<1>3. QED
  BY <1>1, <1>2 DEF Cut

LEMMA DeliverKeeps ==
  ASSUME IInv, NEW i \in Streams, Deliver(i)
  PROVE  IInv'
<1>1. PICK s : s = stream[i]
  OBVIOUS
<1>2. s \in StreamStates /\ Follows(s) /\ Knows(s) /\ s.at = "reply" /\ s.at \in Open
      /\ s.id \in Ids /\ s.id # 0 /\ run[s.id].log \in Seq(Nat)
  BY <1>1, OneStream, RunsAssumption DEF Deliver, Open, Answering, Ids
<1>3. FaultsKept /\ UNCHANGED faults /\ UNCHANGED runVars /\ UNCHANGED run
  BY NoFault, OneStream DEF Deliver, runVars
<1>4. PICK q \in Seq(Nat) : q = run[s.id].log
  BY <1>2
<1>5. Reads(s, q)
  BY <1>2, <1>4 DEF Follows
<1>6. PICK w : w = Write(s, s.events)
  OBVIOUS
<1>7. w \in StreamStates /\ w.cursor <= Len(q) /\ w.sent = SubSeq(q, 1, w.cursor)
      /\ w.id = s.id /\ w.end = s.end
  BY <1>2, <1>5, <1>6, WriteReads, CutWhole
<1>8. CASE s.status \in EndsOn /\ Move(i, [w EXCEPT !.at = "closed", !.end = s.status])
  <2>1. PICK t : t = [w EXCEPT !.at = "closed", !.end = s.status]
    OBVIOUS
  <2>2. t \in StreamStates /\ t.at = "closed" /\ t.end = s.status
        /\ t.id = s.id /\ t.cursor = w.cursor /\ t.sent = w.sent
    BY <1>7, <1>8, <2>1 DEF StreamStates, EndsOn, Ends
  <2>3. Follows(t)
    BY <1>2, <1>4, <1>7, <2>2 DEF Follows, Reads, Open, Answering
  <2>4. Knows(t)'
    BY <1>2, <1>3, <2>2, StillTold DEF Knows
  <2>5. QED
    BY <1>3, <1>8, <2>1, <2>2, <2>3, <2>4, QuietMoves
<1>9. CASE Move(i, NextPoll(w))
  <2>1. PICK t : t = [w EXCEPT !.at = "poll", !.events = <<>>, !.status = "none"]
    OBVIOUS
  <2>2. PICK e \in Seq(Nat) : e = <<>>
    <3>1. <<>> \in Seq(Nat)
      OBVIOUS
    <3>2. QED
      BY <3>1, Zenon
  <2>3. t = [w EXCEPT !.at = "poll", !.events = e, !.status = "none"]
    BY <2>1, <2>2
  <2>4. t \in StreamStates /\ t.at = "poll" /\ t.events = <<>>
        /\ t.id = s.id /\ t.cursor = w.cursor /\ t.sent = w.sent /\ t.end = s.end
    BY <1>7, <2>2, <2>3 DEF StreamStates, Open, Statuses
  <2>5. PICK c \in Nat : c = w.cursor
    BY <1>7 DEF StreamStates
  <2>6. c + Len(<<>>) = c /\ SubSeq(q, c + 1, c + Len(<<>>)) = <<>>
    BY NothingRead
  <2>7. Reads(t, q)
    BY <1>7, <2>4, <2>5, <2>6 DEF Reads
  <2>8. Follows(t)
    BY <1>2, <1>4, <2>4, <2>7 DEF Follows
  <2>9. Move(i, t)
    BY <1>9, <2>1 DEF NextPoll
  <2>10. Knows(t)'
    BY <1>2, <1>3, <2>4, StillTold DEF Knows
  <2>11. QED
    BY <1>3, <2>4, <2>8, <2>9, <2>10, QuietMoves
<1>10. QED
  BY <1>1, <1>6, <1>8, <1>9 DEF Deliver

LEMMA LeaveKeeps ==
  ASSUME IInv, NEW i \in Streams, Leave(i)
  PROVE  IInv'
<1>1. PICK s : s = stream[i]
  OBVIOUS
<1>2. s \in StreamStates /\ Follows(s) /\ Knows(s) /\ s.at = "poll" /\ s.id \in Ids /\ s.id # 0
  BY <1>1, OneStream, RunsAssumption DEF Leave, Open, Ids
<1>3. PICK t : t = [s EXCEPT !.at = "closed", !.end = "left"]
  OBVIOUS
<1>4. t \in StreamStates /\ t.at = "closed" /\ t.end = "left"
      /\ t.id = s.id /\ t.cursor = s.cursor /\ t.sent = s.sent
  BY <1>2, <1>3 DEF StreamStates, Ends
<1>5. Follows(t)
  BY <1>2, <1>4 DEF Follows, Reads, Open, Answering
<1>6. FaultsKept /\ UNCHANGED runVars /\ Move(i, t)
  BY <1>1, <1>3, NoFault, OneStream DEF Leave
<1>7. Knows(t)'
  BY <1>4 DEF Knows, Told
<1>8. QED
  BY <1>4, <1>5, <1>6, <1>7, QuietMoves

LEMMA WriteFailsCut ==
  ASSUME NEW i \in Streams, stream[i] \in StreamStates, WriteFails(i)
  PROVE  \E n \in 0..Len(stream[i].events) : \E d :
           /\ Cut(d, stream[i].events, n)
           /\ Move(i, [Write(stream[i], d) EXCEPT !.at = "closed", !.end = "left"])
<1>1. PICK s \in StreamStates : s = stream[i]
  OBVIOUS
<1>2. PICK k \in Nat : k = Len(s.events)
  BY DEF StreamStates
<1>3. PICK n \in 0..(k - 1) :
        Move(i, [Write(s, SubSeq(s.events, 1, n)) EXCEPT !.at = "closed", !.end = "left"])
  BY <1>1, <1>2 DEF WriteFails
<1>4. n \in 0..k
  BY <1>2
<1>5. Cut(SubSeq(s.events, 1, n), s.events, n)
  BY DEF Cut
<1>6. QED
  BY <1>1, <1>2, <1>3, <1>4, <1>5, Zenon

LEMMA WriteFailsKeeps ==
  ASSUME IInv, NEW i \in Streams, WriteFails(i)
  PROVE  IInv'
<1>1. PICK s : s = stream[i]
  OBVIOUS
<1>2. s \in StreamStates /\ Follows(s) /\ s.at = "reply" /\ s.at \in Open
      /\ s.id \in Ids /\ s.id # 0 /\ run[s.id].log \in Seq(Nat)
  BY <1>1, OneStream, RunsAssumption DEF WriteFails, Open, Answering, Ids
<1>3. FaultsKept /\ UNCHANGED runVars
  BY NoFault, OneStream DEF WriteFails
<1>4. PICK q \in Seq(Nat) : q = run[s.id].log
  BY <1>2
<1>5. Reads(s, q)
  BY <1>2, <1>4 DEF Follows
<1>6a. PICK n \in 0..Len(s.events) :
         \E d : /\ Cut(d, s.events, n)
               /\ Move(i, [Write(s, d) EXCEPT !.at = "closed", !.end = "left"])
  BY <1>1, <1>2, WriteFailsCut
<1>6. PICK d : /\ n \in 0..Len(s.events)
               /\ Cut(d, s.events, n)
               /\ Move(i, [Write(s, d) EXCEPT !.at = "closed", !.end = "left"])
  BY <1>6a
<1>7. PICK w : w = Write(s, d)
  OBVIOUS
<1>8. w \in StreamStates /\ w.cursor <= Len(q) /\ w.sent = SubSeq(q, 1, w.cursor)
      /\ w.id = s.id
  BY <1>2, <1>5, <1>6, <1>7, WriteReads
<1>9. PICK t : t = [w EXCEPT !.at = "closed", !.end = "left"]
  OBVIOUS
<1>10. t \in StreamStates /\ t.at = "closed" /\ t.end = "left"
       /\ t.id = s.id /\ t.cursor = w.cursor /\ t.sent = w.sent
  BY <1>8, <1>9 DEF StreamStates, Ends
<1>11. Follows(t)
  BY <1>2, <1>4, <1>8, <1>10 DEF Follows, Reads, Open, Answering
<1>12. Knows(t)'
  BY <1>10 DEF Knows, Told
<1>13. Move(i, t)
  BY <1>6, <1>7, <1>9
<1>14. QED
  BY <1>3, <1>10, <1>11, <1>12, <1>13, QuietMoves

LEMMA AskStopKeeps ==
  ASSUME IInv, NEW i \in Streams, AskStop(i)
  PROVE  IInv'
<1>1. PICK s : s = stream[i]
  OBVIOUS
<1>2. s \in StreamStates /\ Follows(s) /\ Knows(s) /\ s.at \in Open /\ s.id \in Ids /\ s.id # 0
  BY <1>1, OneStream, RunsAssumption DEF AskStop, Ids
<1>3. PICK t : t = [s EXCEPT !.stop = "asked"]
  OBVIOUS
<1>4. t \in StreamStates /\ t.at = s.at /\ t.end = s.end /\ t.events = s.events
      /\ t.id = s.id /\ t.cursor = s.cursor /\ t.sent = s.sent /\ t.status = s.status
  BY <1>2, <1>3 DEF StreamStates
<1>5. Follows(t)
  BY <1>2, <1>4 DEF Follows, Reads, Open, Answering
<1>6. FaultsKept /\ UNCHANGED runVars /\ Move(i, t) /\ UNCHANGED run /\ UNCHANGED faults
  BY <1>1, <1>3, NoFault, OneStream DEF AskStop, runVars
<1>7. Knows(t)'
  BY <1>2, <1>4, <1>6, StillTold DEF Knows
<1>8. QED
  BY <1>4, <1>5, <1>6, <1>7, QuietMoves

LEMMA StartKeeps ==
  ASSUME IInv, NEW i \in Streams, Start(i)
  PROVE  IInv' /\ RunsKept
<1>1. PICK s : s = stream[i]
  OBVIOUS
<1>2. s \in StreamStates /\ Follows(s) /\ s.at = "idle" /\ s.id = 0
      /\ s.events = <<>> /\ s.sent = <<>> /\ s.cursor = 0 /\ s.end \notin Terminal
      /\ s.stop = "none"
  BY <1>1, OneStream DEF Start, Follows
<1>3. FaultsKept
  <2>1. "start_reply_lost" \in FaultKinds /\ faults \in [FaultKinds -> Nat]
    BY OneStream DEF FaultKinds
  <2>2. UNCHANGED faults \/ Fault("start_reply_lost")
    BY DEF Start
  <2>3. QED
    BY <2>1, <2>2, NoFault, FaultCounts
<1>4. RunsTypeOK /\ Fresh /\ UNCHANGED clock
  BY DEF IInv, TypeOK, Start
<1>5. RunsKept
  <2>1. CASE ExecuteWorkflow
    BY <1>4, <2>1, ExecuteKeeps
  <2>2. CASE UNCHANGED run
    BY <1>4, <2>2, RunsStutter, RunsAssumption DEF RunsTypeOK, Ids
  <2>3. QED
    BY <2>1, <2>2 DEF Start
<1>6. CASE ExecuteWorkflow /\ Move(i, [s EXCEPT !.at = "poll", !.id = clock])
  <2>1. PICK t : t = [s EXCEPT !.at = "poll", !.id = clock]
    OBVIOUS
  <2>2. clock \in Ids /\ clock # 0
    BY <1>6, RunsAssumption DEF ExecuteWorkflow, Ids
  <2>3. t \in StreamStates /\ t.at = "poll" /\ t.id = clock /\ t.end = s.end
        /\ t.cursor = 0 /\ t.sent = <<>> /\ t.events = <<>>
    BY <1>2, <2>1, <2>2 DEF StreamStates, Open
  <2>4. run'[clock].log = <<>>
    BY <1>4, <1>6, ExecuteKeeps
  <2>5. Reads(t, <<>>)
    BY <2>3 DEF Reads
  <2>6. Follows(t)'
    BY <2>2, <2>3, <2>4, <2>5 DEF Follows, Reads
  <2>7. Knows(t)'
    BY <1>2, <2>3 DEF Knows, Told, Terminal
  <2>8. QED
    BY <1>3, <1>5, <1>6, <2>1, <2>3, <2>6, <2>7, StreamMoves
<1>7. CASE Move(i, [s EXCEPT !.at = "closed", !.end = "refused"])
  <2>1. PICK t : t = [s EXCEPT !.at = "closed", !.end = "refused"]
    OBVIOUS
  <2>2. t \in StreamStates /\ t.at = "closed" /\ t.id = 0 /\ t.end = "refused"
        /\ t.cursor = 0 /\ t.sent = <<>> /\ t.stop = "none"
    BY <1>2, <2>1 DEF StreamStates, Ends
  <2>3. Follows(t)'
    BY <2>2 DEF Follows, Terminal
  <2>4. Knows(t)'
    BY <2>2 DEF Knows, Told
  <2>5. QED
    BY <1>3, <1>5, <1>7, <2>1, <2>2, <2>3, <2>4, StreamMoves
<1>8. QED
  BY <1>1, <1>5, <1>6, <1>7 DEF Start

LEMMA TerminateKeepsAll ==
  ASSUME IInv, NEW i \in Streams, Terminate(i)
  PROVE  IInv' /\ RunsKept
<1>1. PICK s : s = stream[i]
  OBVIOUS
<1>2. s \in StreamStates /\ Follows(s) /\ Knows(s) /\ s.stop = "asked"
      /\ s.id # 0 /\ s.id \in Ids
  BY <1>1, OneStream DEF Terminate, Follows, StreamStates
<1>3. FaultsKept /\ UNCHANGED clock
  BY NoFault, OneStream DEF Terminate
<1>4. RunsTypeOK /\ Fresh
  BY DEF IInv, TypeOK
<1>5. RunsKept
  <2>1. CASE Running(s.id) /\ TerminateRun(s.id)
    BY <1>2, <1>3, <1>4, <2>1, TerminateKeeps
  <2>2. CASE UNCHANGED run
    BY <1>3, <1>4, <2>2, RunsStutter, RunsAssumption DEF RunsTypeOK, Ids
  <2>3. QED
    BY <1>1, <2>1, <2>2 DEF Terminate
<1>6. PICK y \in {"done", "failed"} : Move(i, [s EXCEPT !.stop = y])
  BY <1>1 DEF Terminate
<1>7. PICK t : t = [s EXCEPT !.stop = y]
  OBVIOUS
<1>8. t \in StreamStates /\ t.at = s.at /\ t.end = s.end /\ t.events = s.events
      /\ t.id = s.id /\ t.cursor = s.cursor /\ t.sent = s.sent /\ t.status = s.status
  BY <1>2, <1>7 DEF StreamStates
<1>9. Follows(s)' /\ Knows(s)'
  BY <1>2, <1>3, <1>4, <1>5, Unmoved DEF FaultsKept, RunsKept
<1>10. Follows(t)'
  BY <1>2, <1>8, <1>9 DEF Follows, Reads, Open, Answering
<1>11. Knows(t)'
  BY <1>8, <1>9 DEF Knows
<1>12. QED
  BY <1>3, <1>5, <1>6, <1>7, <1>8, <1>10, <1>11, StreamMoves

LEMMA RunsMoveKeeps ==
  ASSUME IInv, RunsKept, UNCHANGED <<stream, faults>>
  PROVE  IInv'
<1>1. ASSUME NEW j \in Streams
      PROVE  (Follows(stream[j]) /\ Knows(stream[j]))'
  <2>1. PICK u : u = stream[j]
    OBVIOUS
  <2>2. u \in StreamStates /\ Follows(u) /\ Knows(u)
    BY <2>1, OneStream
  <2>3. Follows(u)' /\ Knows(u)'
    BY <2>2, Unmoved DEF IInv, TypeOK, RunsKept
  <2>4. QED
    BY <2>1, <2>3
<1>2. QED
  BY <1>1 DEF IInv, TypeOK, RunsKept

----------------------------------------------------------------------------
(* The theorems                                                            *)

LEMMA InitIInv == Init => IInv
<1> SUFFICES ASSUME Init PROVE IInv
  OBVIOUS
<1>1. <<>> \in Seq(Nat)
  OBVIOUS
<1>2. RunsTypeOK
  BY <1>1, RunsAssumption DEF Init, RunsInit, RunsTypeOK, Ids, Runs, NoRun, Statuses
<1>3. stream \in [Streams -> StreamStates]
  BY <1>1 DEF Init, StreamStates, Open, Ends, Statuses
<1>4. faults \in [FaultKinds -> Nat]
  BY DEF Init
<1>5. Fresh
  BY DEF Init, RunsInit, Fresh, NoRun, Terminal
<1>6. \A i \in Streams : Follows(stream[i]) /\ Knows(stream[i])
  BY DEF Init, Follows, Knows, Told, Terminal
<1>7. QED
  BY <1>2, <1>3, <1>4, <1>5, <1>6 DEF IInv, TypeOK

LEMMA QuietRuns ==
  ASSUME IInv, UNCHANGED runVars
  PROVE  RunsKept
<1>1. clock' = clock /\ run' = run
  BY DEF runVars
<1>2. clock' \in Ids \union {MaxClock + 1} /\ clock' >= clock
  BY <1>1, RunsAssumption DEF IInv, TypeOK, RunsTypeOK, Ids
<1>3. QED
  BY <1>1, <1>2, RunsStutter DEF IInv, TypeOK

LEMMA StepKeeps ==
  ASSUME IInv, [Next]_vars
  PROVE  IInv' /\ RunsKept
<1>1. CASE RunsMove
  <2>1. RunsKept
    BY <1>1, RunsStepKeeps DEF RunsMove, IInv, TypeOK
  <2>2. QED
    BY <1>1, <2>1, RunsMoveKeeps DEF RunsMove
<1>2. ASSUME NEW i \in Streams, Start(i)
      PROVE  IInv' /\ RunsKept
  BY <1>2, StartKeeps
<1>3. ASSUME NEW i \in Streams, StreamStep(i)
      PROVE  IInv' /\ RunsKept
  <2>1. UNCHANGED runVars
    BY <1>3 DEF StreamStep, QueryEvents, Describe, Fallback, Deliver
  <2>2. IInv'
    BY <1>3, QueryEventsKeeps, DescribeKeeps, FallbackKeeps, DeliverKeeps DEF StreamStep
  <2>3. QED
    BY <2>1, <2>2, QuietRuns
<1>4. ASSUME NEW i \in Streams, \/ QueryFails(i) \/ PollLost(i)
                              \/ Leave(i) \/ WriteFails(i) \/ AskStop(i)
      PROVE  IInv' /\ RunsKept
  <2>1. UNCHANGED runVars
    BY <1>4 DEF QueryFails, PollLost, Leave, WriteFails, AskStop
  <2>2. IInv'
    BY <1>4, QueryFailsKeeps, PollLostKeeps, LeaveKeeps, WriteFailsKeeps, AskStopKeeps
  <2>3. QED
    BY <2>1, <2>2, QuietRuns
<1>5. ASSUME NEW i \in Streams, Terminate(i)
      PROVE  IInv' /\ RunsKept
  BY <1>5, TerminateKeepsAll
<1>6. CASE UNCHANGED vars
  <2>1. UNCHANGED runVars /\ UNCHANGED <<stream, faults>>
    BY <1>6 DEF vars
  <2>2. QED
    BY <2>1, QuietRuns, RunsMoveKeeps
<1>7. QED
  BY <1>1, <1>2, <1>3, <1>4, <1>5, <1>6 DEF Next

(* Everything IInv says holds of every state the gateway, the initiator    *)
(* and the runs reach.                                                     *)
LEMMA AlwaysIInv == Spec => []IInv
<1>1. Init => IInv
  BY InitIInv
<1>2. IInv /\ [Next]_vars => IInv'
  BY StepKeeps
<1>3. QED
  BY <1>1, <1>2, PTL DEF Spec

(* Every state the handlers of the chat streams reach is well formed: the  *)
(* cursor, the events and the status a loop holds are always of the kind   *)
(* its next line expects.                                                  *)
THEOREM ChatStreamTypeOK == Spec => []TypeOK
<1>1. IInv => TypeOK
  BY DEF IInv
<1>2. QED
  BY <1>1, AlwaysIInv, PTL

(* However many chats, faults and runs there are, a stream that ends with  *)
(* a status of its run has the status the run ended with, but for the      *)
(* COMPLETED that a failed query is mapped to.                             *)
THEOREM ChatStreamClosedByStatus == Spec => []ClosedByStatus
<1>1. ASSUME IInv, NEW i \in Streams
      PROVE  /\ stream[i].end \in {"FAILED", "TERMINATED"} =>
                  run[stream[i].id].status = stream[i].end
             /\ stream[i].end = "COMPLETED" =>
                  run[stream[i].id].status = "COMPLETED" \/ faults["query_failed"] > 0
  BY <1>1, OneStream DEF Knows, Told
<1>2. IInv => ClosedByStatus
  BY <1>1 DEF ClosedByStatus
<1>3. QED
  BY <1>2, AlwaysIInv, PTL

----------------------------------------------------------------------------
(* The refinement                                                          *)

LEMMA PrefixGrows ==
  ASSUME NEW q \in Seq(Nat), NEW n \in Nat
  PROVE  IsPrefix(q, Numbered(q, n))
<1>1. PICK k \in Nat : k = Len(q)
  OBVIOUS
<1>2. Len(Numbered(q, n)) = k + n
  BY <1>1, NumberedType
<1>3. SubSeq(Numbered(q, n), 1, k) = SubSeq(q, 1, k)
  <2>1. 1 \in Nat /\ 1 >= 1 /\ k <= Len(q)
    BY <1>1
  <2>2. QED
    BY <2>1, NumberedType
<1>4. QED
  BY <1>1, <1>2, <1>3 DEF IsPrefix

(* A step in which the watched stream does not start, write or end. *)
Unseen ==
  /\ UNCHANGED stream[Watched].id
  /\ UNCHANGED stream[Watched].sent
  /\ UNCHANGED FeedPhase

(* The feed sees no more of it than its log grow. *)
LEMMA OnlyEmits ==
  ASSUME IInv, RunsKept, Unseen
  PROVE  Feed!Emit
<1>1. PICK d : d = stream[Watched].id
  OBVIOUS
<1>2. stream[Watched] \in StreamStates
  BY OneStream, WatchedAssumption
<1>3. d \in Ids \union {0} /\ stream'[Watched].id = d
  BY <1>1, <1>2 DEF StreamStates, Unseen
<1>4. IsPrefix(FeedLog, FeedLog')
  <2>1. CASE d = 0
    <3>1. FeedLog = <<>> /\ FeedLog' = <<>>
      BY <1>1, <1>3, <2>1 DEF FeedLog
    <3>2. IsPrefix(<<>>, <<>>)
      BY DEF IsPrefix
    <3>3. QED
      BY <3>1, <3>2
  <2>2. CASE d # 0
    <3>1. d \in Ids /\ run[d].log \in Seq(Nat)
      BY <1>3, <2>2 DEF IInv, TypeOK, RunsTypeOK, Runs
    <3>2. FeedLog = run[d].log /\ FeedLog' = run'[d].log
      BY <1>1, <1>3, <2>2 DEF FeedLog
    <3>3. PICK n \in Nat : run'[d].log = Numbered(run[d].log, n)
      BY <3>1 DEF RunsKept, Grows
    <3>4. QED
      BY <3>1, <3>2, <3>3, PrefixGrows
  <2>3. QED
    BY <2>1, <2>2
<1>5. QED
  BY <1>4 DEF Feed!Emit, Feed!IsPrefix, IsPrefix, Unseen

LEMMA WatchedStarts ==
  ASSUME IInv, IInv', Start(Watched)
  PROVE  Feed!Join
<1>1. PICK s : s = stream[Watched]
  OBVIOUS
<1>2. s \in StreamStates /\ s.at = "idle" /\ s.id = 0 /\ s.sent = <<>>
  BY <1>1, OneStream, WatchedAssumption DEF Start, Follows
<1>3. FeedLog = <<>> /\ FeedPhase = "idle"
  BY <1>1, <1>2 DEF FeedLog, FeedPhase
<1>4. stream \in [Streams -> StreamStates]
  BY DEF IInv, TypeOK
<1>5. CASE ExecuteWorkflow /\ Move(Watched, [s EXCEPT !.at = "poll", !.id = clock])
  <2>1. clock \in Ids /\ clock # 0
    BY <1>5, RunsAssumption DEF ExecuteWorkflow, Ids
  <2>2. PICK t : t = [s EXCEPT !.at = "poll", !.id = clock]
    OBVIOUS
  <2>3. t.at = "poll" /\ t.id = clock /\ t.sent = <<>>
    BY <1>2, <2>2 DEF StreamStates
  <2>4. stream'[Watched] = t
    BY <1>4, <1>5, <2>2, WatchedAssumption DEF Move
  <2>5. UNCHANGED clock /\ RunsTypeOK /\ Fresh
    BY DEF Start, IInv, TypeOK
  <2>6. run'[clock].log = <<>>
    BY <1>5, <2>5, ExecuteKeeps
  <2>7. FeedLog' = <<>> /\ FeedPhase' = "open" /\ stream'[Watched].sent = <<>>
    BY <2>1, <2>3, <2>4, <2>6 DEF FeedLog, FeedPhase
  <2>8. QED
    BY <1>1, <1>2, <1>3, <2>7 DEF Feed!Join
<1>6. CASE Move(Watched, [s EXCEPT !.at = "closed", !.end = "refused"])
  <2>1. PICK t : t = [s EXCEPT !.at = "closed", !.end = "refused"]
    OBVIOUS
  <2>2. t.at = "closed" /\ t.id = 0 /\ t.sent = <<>>
    BY <1>2, <2>1 DEF StreamStates
  <2>3. stream'[Watched] = t
    BY <1>4, <1>6, <2>1, WatchedAssumption DEF Move
  <2>4. FeedLog' = <<>> /\ FeedPhase' = "closed" /\ stream'[Watched].sent = <<>>
    BY <2>2, <2>3 DEF FeedLog, FeedPhase
  <2>5. QED
    BY <1>1, <1>2, <1>3, <2>4 DEF Feed!Join
<1>7. QED
  BY <1>1, <1>5, <1>6 DEF Start

LEMMA WatchedSends ==
  ASSUME IInv, Deliver(Watched)
  PROVE  Feed!Send
<1>1. PICK s : s = stream[Watched]
  OBVIOUS
<1>2. s \in StreamStates /\ Follows(s) /\ s.at = "reply" /\ s.at \in Open
      /\ s.id \in Ids /\ s.id # 0 /\ run[s.id].log \in Seq(Nat)
  BY <1>1, OneStream, WatchedAssumption, RunsAssumption DEF Deliver, Open, Answering, Ids
<1>3. PICK q \in Seq(Nat) : q = run[s.id].log
  BY <1>2
<1>4. Reads(s, q)
  BY <1>2, <1>3 DEF Follows
<1>5. PICK w : w = Write(s, s.events)
  OBVIOUS
<1>6. PICK c \in Nat : c = s.cursor
  BY <1>2 DEF StreamStates
<1>7. PICK k \in Nat : k = Len(s.events)
  BY <1>2 DEF StreamStates
<1>8. w \in StreamStates /\ w.id = s.id /\ w.sent = SubSeq(q, 1, c + k) /\ c + k <= Len(q)
  <2>1. Cut(s.events, s.events, k) /\ k \in 0..Len(s.events)
    BY <1>2, <1>7, CutWhole
  <2>2. w.cursor = c + k /\ w \in StreamStates /\ w.id = s.id /\ w.cursor <= Len(q)
        /\ w.sent = SubSeq(q, 1, w.cursor)
    BY <1>2, <1>4, <1>5, <1>6, <2>1, WriteReads
  <2>3. QED
    BY <2>2
<1>9. Len(s.sent) = c
  <2>1. s.sent = SubSeq(q, 1, c) /\ c <= Len(q) /\ Len(q) \in Nat
    BY <1>4, <1>6 DEF Reads
  <2>2. QED
    BY <2>1
<1>10. PICK t : /\ Move(Watched, t)
                /\ \/ t = [w EXCEPT !.at = "closed", !.end = s.status]
                   \/ t = [w EXCEPT !.at = "poll", !.events = <<>>, !.status = "none"]
  BY <1>1, <1>5 DEF Deliver, NextPoll
<1>11. t.id = s.id /\ t.sent = w.sent /\ t.at \in {"poll", "closed"}
  <2>1. CASE t = [w EXCEPT !.at = "closed", !.end = s.status]
    BY <1>8, <2>1 DEF StreamStates
  <2>2. CASE t = [w EXCEPT !.at = "poll", !.events = <<>>, !.status = "none"]
    BY <1>8, <2>2 DEF StreamStates
  <2>3. QED
    BY <1>10, <2>1, <2>2
<1>12. stream'[Watched] = t
  BY <1>10, WatchedAssumption DEF Move, IInv, TypeOK
<1>13. UNCHANGED run
  BY DEF Deliver, runVars
<1>14. FeedLog = q /\ FeedLog' = q
  BY <1>1, <1>2, <1>3, <1>11, <1>12, <1>13 DEF FeedLog
<1>15. FeedPhase = "open" /\ FeedPhase' \in {"open", "closed"}
  BY <1>1, <1>2, <1>11, <1>12 DEF FeedPhase
<1>16. PICK n : n = c + k
  OBVIOUS
<1>17. n \in Len(stream[Watched].sent)..(Len(FeedLog) - 0)
  BY <1>1, <1>8, <1>9, <1>14, <1>16
<1>18. stream'[Watched].sent = SubSeq(FeedLog, 0 + 1, 0 + n)
  BY <1>8, <1>11, <1>12, <1>14, <1>16
<1>19. QED
  BY <1>14, <1>15, <1>17, <1>18 DEF Feed!Send, Feed!Segment

LEMMA WatchedWriteFails ==
  ASSUME IInv, WriteFails(Watched)
  PROVE  Feed!Send
<1>1. PICK s : s = stream[Watched]
  OBVIOUS
<1>2. s \in StreamStates /\ Follows(s) /\ s.at = "reply" /\ s.at \in Open
      /\ s.id \in Ids /\ s.id # 0 /\ run[s.id].log \in Seq(Nat)
  BY <1>1, OneStream, WatchedAssumption, RunsAssumption DEF WriteFails, Open, Answering, Ids
<1>3. PICK q \in Seq(Nat) : q = run[s.id].log
  BY <1>2
<1>4. Reads(s, q)
  BY <1>2, <1>3 DEF Follows
<1>5a. PICK n \in 0..Len(s.events) :
         \E d : /\ Cut(d, s.events, n)
               /\ Move(Watched, [Write(s, d) EXCEPT !.at = "closed", !.end = "left"])
  BY <1>1, <1>2, WriteFailsCut, WatchedAssumption
<1>5. PICK d : /\ n \in 0..Len(s.events)
               /\ Cut(d, s.events, n)
               /\ Move(Watched, [Write(s, d) EXCEPT !.at = "closed", !.end = "left"])
  BY <1>5a
<1>6. PICK w : w = Write(s, d)
  OBVIOUS
<1>7. PICK c \in Nat : c = s.cursor
  BY <1>2 DEF StreamStates
<1>8. n \in Nat
  BY <1>2, <1>5 DEF StreamStates
<1>9. w \in StreamStates /\ w.id = s.id /\ w.sent = SubSeq(q, 1, c + n) /\ c + n <= Len(q)
  <2>1. w.cursor = c + n /\ w \in StreamStates /\ w.id = s.id /\ w.cursor <= Len(q)
        /\ w.sent = SubSeq(q, 1, w.cursor)
    BY <1>2, <1>4, <1>5, <1>6, <1>7, WriteReads
  <2>2. QED
    BY <2>1
<1>10. Len(s.sent) = c
  <2>1. s.sent = SubSeq(q, 1, c) /\ c <= Len(q) /\ Len(q) \in Nat
    BY <1>4, <1>7 DEF Reads
  <2>2. QED
    BY <2>1
<1>11. PICK t : t = [w EXCEPT !.at = "closed", !.end = "left"]
  OBVIOUS
<1>12. t.id = s.id /\ t.sent = w.sent /\ t.at = "closed"
  BY <1>9, <1>11 DEF StreamStates
<1>13. stream'[Watched] = t /\ UNCHANGED run
  BY <1>5, <1>6, <1>11, WatchedAssumption DEF WriteFails, Move, IInv, TypeOK, runVars
<1>14. FeedLog = q /\ FeedLog' = q
  BY <1>1, <1>2, <1>3, <1>12, <1>13 DEF FeedLog
<1>15. FeedPhase = "open" /\ FeedPhase' = "closed"
  BY <1>1, <1>2, <1>12, <1>13 DEF FeedPhase
<1>16. PICK m : m = c + n
  OBVIOUS
<1>17. m \in Len(stream[Watched].sent)..(Len(FeedLog) - 0)
  BY <1>1, <1>8, <1>9, <1>10, <1>14, <1>16
<1>18. stream'[Watched].sent = SubSeq(FeedLog, 0 + 1, 0 + m)
  BY <1>9, <1>12, <1>13, <1>14, <1>16
<1>19. QED
  BY <1>14, <1>15, <1>17, <1>18 DEF Feed!Send, Feed!Segment

LEMMA WatchedLeaves ==
  ASSUME IInv, Leave(Watched)
  PROVE  Feed!Close
<1>1. PICK s : s = stream[Watched]
  OBVIOUS
<1>2. PICK t : t = [s EXCEPT !.at = "closed", !.end = "left"]
  OBVIOUS
<1>3. s \in StreamStates /\ s.at = "poll"
  BY <1>1, OneStream, WatchedAssumption DEF Leave
<1>4. t.id = s.id /\ t.sent = s.sent /\ t.at = "closed"
  BY <1>2, <1>3 DEF StreamStates
<1>5. stream'[Watched] = t /\ UNCHANGED run
  BY <1>1, <1>2, WatchedAssumption DEF Leave, Move, IInv, TypeOK, runVars
<1>6. QED
  BY <1>1, <1>3, <1>4, <1>5 DEF Feed!Close, FeedLog, FeedPhase

(* The watched stream moves in some other way. *)
LEMMA UnseenMove ==
  ASSUME IInv, NEW u, Move(Watched, u),
         u.id = stream[Watched].id, u.sent = stream[Watched].sent,
         u.at = stream[Watched].at \/ (stream[Watched].at \in Open /\ u.at \in Open)
  PROVE  Unseen
<1>1. stream'[Watched] = u
  BY WatchedAssumption DEF Move, IInv, TypeOK
<1>2. QED
  BY <1>1 DEF Unseen, FeedPhase, Open, Answering

LEMMA UnseenPoll ==
  ASSUME IInv, stream[Watched].at \in Open, Move(Watched, NextPoll(stream[Watched]))
  PROVE  Unseen
<1>1. PICK s \in StreamStates : s = stream[Watched]
  BY OneStream, WatchedAssumption
<1>2. PICK u : u = [s EXCEPT !.at = "poll", !.events = <<>>, !.status = "none"]
  OBVIOUS
<1>3. u.id = s.id /\ u.sent = s.sent /\ u.at = "poll"
  BY <1>2 DEF StreamStates
<1>4. Move(Watched, u)
  BY <1>1, <1>2 DEF NextPoll
<1>5. QED
  BY <1>1, <1>3, <1>4, UnseenMove DEF Open

LEMMA WatchedMoves ==
  ASSUME IInv,
         \/ QueryEvents(Watched) \/ Describe(Watched) \/ Fallback(Watched)
         \/ QueryFails(Watched) \/ PollLost(Watched) \/ AskStop(Watched)
         \/ Terminate(Watched)
  PROVE  Unseen
<1>1. PICK s \in StreamStates : s = stream[Watched]
  BY OneStream, WatchedAssumption
<1>2. CASE QueryEvents(Watched)
  <2>1. PICK e : Move(Watched, [s EXCEPT !.at = "describe", !.events = e])
    BY <1>1, <1>2 DEF QueryEvents
  <2>2. PICK u : u = [s EXCEPT !.at = "describe", !.events = e]
    OBVIOUS
  <2>3. u.id = s.id /\ u.sent = s.sent /\ u.at = "describe"
    BY <2>2 DEF StreamStates
  <2>4. QED
    BY <1>1, <1>2, <2>1, <2>2, <2>3, UnseenMove DEF QueryEvents, Open, Answering
<1>3. CASE Describe(Watched)
  <2>1. PICK y : Move(Watched, [s EXCEPT !.at = "reply", !.status = y])
    BY <1>1, <1>3 DEF Describe
  <2>2. PICK u : u = [s EXCEPT !.at = "reply", !.status = y]
    OBVIOUS
  <2>3. u.id = s.id /\ u.sent = s.sent /\ u.at = "reply"
    BY <2>2 DEF StreamStates
  <2>4. QED
    BY <1>1, <1>3, <2>1, <2>2, <2>3, UnseenMove DEF Describe, Open, Answering
<1>4. CASE Fallback(Watched)
  <2>1. CASE Move(Watched, NextPoll(s))
    BY <1>1, <1>4, <2>1, UnseenPoll DEF Fallback, Open, Answering
  <2>2. CASE Move(Watched, [s EXCEPT !.at = "reply", !.events = <<>>, !.status = "COMPLETED"])
    <3>1. PICK u : u = [s EXCEPT !.at = "reply", !.events = <<>>, !.status = "COMPLETED"]
      OBVIOUS
    <3>2. u.id = s.id /\ u.sent = s.sent /\ u.at = "reply"
      BY <3>1 DEF StreamStates
    <3>3. QED
      BY <1>1, <1>4, <2>2, <3>1, <3>2, UnseenMove DEF Fallback, Open, Answering
  <2>3. QED
    BY <1>1, <1>4, <2>1, <2>2 DEF Fallback
<1>5. CASE QueryFails(Watched)
  <2>1. PICK u : u = [s EXCEPT !.at = "fallback"]
    OBVIOUS
  <2>2. u.id = s.id /\ u.sent = s.sent /\ u.at = "fallback"
    BY <2>1 DEF StreamStates
  <2>3. QED
    BY <1>1, <1>5, <2>1, <2>2, UnseenMove DEF QueryFails, Open, Answering
<1>6. CASE PollLost(Watched)
  BY <1>6, UnseenPoll DEF PollLost, Open
<1>7. CASE AskStop(Watched)
  <2>1. PICK u : u = [s EXCEPT !.stop = "asked"]
    OBVIOUS
  <2>2. u.id = s.id /\ u.sent = s.sent /\ u.at = s.at
    BY <2>1 DEF StreamStates
  <2>3. QED
    BY <1>1, <1>7, <2>1, <2>2, UnseenMove DEF AskStop
<1>8. CASE Terminate(Watched)
  <2>1. PICK y : Move(Watched, [s EXCEPT !.stop = y])
    BY <1>1, <1>8 DEF Terminate
  <2>2. PICK u : u = [s EXCEPT !.stop = y]
    OBVIOUS
  <2>3. u.id = s.id /\ u.sent = s.sent /\ u.at = s.at
    BY <2>2 DEF StreamStates
  <2>4. QED
    BY <1>1, <2>1, <2>2, <2>3, UnseenMove
<1>9. QED
  BY <1>2, <1>3, <1>4, <1>5, <1>6, <1>7, <1>8

(* Another stream moves, or the runs do. *)
LEMMA OthersMove ==
  ASSUME IInv, NEW j \in Streams \ {Watched}, NEW u, Move(j, u)
  PROVE  Unseen
<1>1. stream'[Watched] = stream[Watched]
  BY WatchedAssumption DEF Move, IInv, TypeOK
<1>2. QED
  BY <1>1 DEF Unseen, FeedPhase

LEMMA OtherStreams ==
  ASSUME IInv, NEW j \in Streams \ {Watched},
         \/ Start(j) \/ StreamStep(j) \/ QueryFails(j)
         \/ PollLost(j) \/ Leave(j) \/ WriteFails(j) \/ AskStop(j) \/ Terminate(j)
  PROVE  Unseen
<1>1. CASE Start(j)
  BY <1>1, OthersMove DEF Start
<1>2. CASE QueryEvents(j)
  BY <1>2, OthersMove DEF QueryEvents
<1>3. CASE Describe(j)
  BY <1>3, OthersMove DEF Describe
<1>4. CASE Fallback(j)
  BY <1>4, OthersMove DEF Fallback
<1>5. CASE Deliver(j)
  BY <1>5, OthersMove DEF Deliver
<1>6. CASE QueryFails(j) \/ PollLost(j) \/ Leave(j) \/ WriteFails(j) \/ AskStop(j)
  BY <1>6, OthersMove DEF QueryFails, PollLost, Leave, WriteFails, AskStop
<1>7. CASE Terminate(j)
  BY <1>7, OthersMove DEF Terminate
<1>8. QED
  BY <1>1, <1>2, <1>3, <1>4, <1>5, <1>6, <1>7 DEF StreamStep

LEMMA StepRefines ==
  ASSUME IInv, [Next]_vars
  PROVE  [Feed!FeedNext]_Feed!feedVars
<1>1. IInv' /\ RunsKept
  BY StepKeeps
<1>2. CASE Unseen
  BY <1>1, <1>2, OnlyEmits DEF Feed!FeedNext
<1>3. CASE Start(Watched)
  BY <1>1, <1>3, WatchedStarts DEF Feed!FeedNext
<1>4. CASE Deliver(Watched)
  BY <1>4, WatchedSends DEF Feed!FeedNext
<1>5. CASE Leave(Watched)
  BY <1>5, WatchedLeaves DEF Feed!FeedNext
<1>6. CASE WriteFails(Watched)
  BY <1>6, WatchedWriteFails DEF Feed!FeedNext
<1>7. CASE UNCHANGED stream
  BY <1>2, <1>7 DEF Unseen, FeedPhase
<1>8. ASSUME NEW j \in Streams,
             \/ Start(j) \/ StreamStep(j) \/ QueryFails(j)
             \/ PollLost(j) \/ Leave(j) \/ WriteFails(j) \/ AskStop(j) \/ Terminate(j)
      PROVE  [Feed!FeedNext]_Feed!feedVars
  <2>1. CASE j # Watched
    BY <1>2, <1>8, <2>1, OtherStreams
  <2>2. CASE j = Watched
    BY <1>2, <1>3, <1>4, <1>5, <1>6, <1>8, <2>2, WatchedMoves DEF StreamStep
  <2>3. QED
    BY <2>1, <2>2
<1>9. CASE RunsMove \/ UNCHANGED vars
  BY <1>7, <1>9 DEF RunsMove, vars
<1>10. QED
  BY <1>8, <1>9 DEF Next

(* What a client of a chat stream is promised, whatever other chats, runs  *)
(* and faults there are: the log of its run from the start, every event    *)
(* once and in order, and nothing after the end (the cursor that           *)
(* HandleChatStream keeps over lost and repeated polls).                   *)
THEOREM ChatStreamFollowsTheFeed == Spec => FollowsTheFeed
<1>1. Init => Feed!FeedInit
  BY WatchedAssumption DEF Init, Feed!FeedInit, FeedLog, FeedPhase
<1>2. IInv /\ [Next]_vars => [Feed!FeedNext]_Feed!feedVars
  BY StepRefines
<1>3. QED
  BY <1>1, <1>2, AlwaysIInv, PTL DEF Spec, FollowsTheFeed, Feed!FeedSpec
============================================================================
