------------------------ MODULE ApprovalStoreProofs ------------------------
(***************************************************************************)
(* Proofs about the approval store, for any number of reviewers and ids.   *)
(***************************************************************************)
EXTENDS ApprovalStore, FiniteSetTheorems, TLAPS

(* Every action of the store keeps the types of its variables. *)
LEMMA StoreInitType == StoreInit => StoreTypeOK
  BY StoreAssumption
  DEF StoreInit, StoreTypeOK, Word, Words, Idle, ReviewerStates, Ids

LEMMA StoreApprovalType ==
  ASSUME StoreTypeOK, NEW t \in Tools, StoreHITLApproval(t)
  PROVE  StoreTypeOK'
  BY StoreAssumption DEF StoreTypeOK, StoreHITLApproval, Word, Words, Ids

LEMMA ReviewerStepType ==
  ASSUME StoreTypeOK, NEW r \in Reviewers, ReviewerStep(r)
  PROVE  StoreTypeOK'
<1>1. ASSUME NEW id \in Ids, RefuseDecision(r, id) PROVE StoreTypeOK'
  BY <1>1 DEF RefuseDecision, StoreTypeOK, storeVars
<1>2. ASSUME NEW id \in Ids, NEW d \in Decisions, CheckPending(r, id, d)
      PROVE  StoreTypeOK'
  BY <1>2 DEF CheckPending, StoreTypeOK, ReviewerStates
<1>3. CASE WriteStatus(r)
  <2>1. rev[r] \in [at : {"write", "store", "signal"}, id : Ids, verdict : Decisions]
    BY <1>3 DEF WriteStatus, StoreTypeOK, ReviewerStates
  <2>2. rev' \in [Reviewers -> ReviewerStates]
    BY <1>3, <2>1 DEF WriteStatus, StoreTypeOK, ReviewerStates
  <2>3. status' \in [Ids -> [ptr : Words, len : Words]]
    BY <1>3, <2>1 DEF WriteStatus, StoreTypeOK, Words
  <2>4. QED
    BY <1>3, <2>2, <2>3 DEF WriteStatus, StoreTypeOK
<1>4. CASE FinishWrite(r)
  <2>1. rev[r] \in [at : {"write", "store", "signal"}, id : Ids, verdict : Decisions]
    BY <1>4 DEF FinishWrite, StoreTypeOK, ReviewerStates
  <2>2. rev' \in [Reviewers -> ReviewerStates]
    BY <1>4, <2>1 DEF FinishWrite, StoreTypeOK, ReviewerStates
  <2>3. status' \in [Ids -> [ptr : Words, len : Words]]
    BY <1>4, <2>1 DEF FinishWrite, StoreTypeOK, Words
  <2>4. decided' \in [Ids -> Seq(Decisions)]
    BY <1>4, <2>1 DEF FinishWrite, StoreTypeOK
  <2>5. QED
    BY <1>4, <2>2, <2>3, <2>4 DEF FinishWrite, StoreTypeOK
<1>5. QED
  BY <1>1, <1>2, <1>3, <1>4 DEF ReviewerStep, HandlerStep

LEMMA SendSignalType ==
  ASSUME StoreTypeOK, NEW r \in Reviewers, SendSignal(r)
  PROVE  StoreTypeOK'
  BY DEF StoreTypeOK, SendSignal, Idle, ReviewerStates

LEMMA RestartType ==
  ASSUME StoreTypeOK, RestartInitiator
  PROVE  StoreTypeOK'
  BY DEF StoreTypeOK, RestartInitiator, Idle, ReviewerStates, Word, Words

LEMMA StoreStepType == StoreTypeOK /\ [StoreNext]_storeVars => StoreTypeOK'
<1> SUFFICES ASSUME StoreTypeOK, [StoreNext]_storeVars PROVE StoreTypeOK'
  OBVIOUS
<1>1. CASE UNCHANGED storeVars
  BY <1>1 DEF StoreTypeOK, storeVars
<1>2. CASE StoreNext
  BY <1>2, StoreApprovalType, ReviewerStepType, SendSignalType, RestartType
  DEF StoreNext
<1>3. QED
  BY <1>1, <1>2

(* The variables of the store keep their types. *)
THEOREM StoreTypeCorrect == StoreSpec => []StoreTypeOK
  BY StoreInitType, StoreStepType, PTL DEF StoreSpec

----------------------------------------------------------------------------
(* SettledStatus is not inductive: it speaks of a request only once its    *)
(* single decision is written.  Before that, the status pointer belongs to *)
(* one of the handlers between their two writes, and a decided request has *)
(* lost the word "pending" for good; ids not yet stored are untouched.     *)
Writers(id) == {r \in Reviewers : rev[r].id = id /\ rev[r].at \in {"write", "store"}}

PointerIsAWriters ==
  \A id \in Ids :
    decided[id] = <<>> =>
      \A r \in Writers(id) : rev[r].at = "store" =>
        \E q \in Writers(id) : rev[q].at = "store" /\ status[id].ptr = rev[q].verdict

SettledWord ==
  \A id \in Ids :
    Len(decided[id]) = 1 /\ Writers(id) = {}
      => status[id] \in {Word("absent"), Word(decided[id][1])}

DecidedIsClosed ==
  \A id \in Ids : decided[id] # <<>> => status[id].len # "pending"

FreshIds ==
  /\ \A r \in Reviewers : rev[r].at # "idle" => rev[r].id < nextId
  /\ \A id \in Ids : id >= nextId => /\ decided[id] = <<>>
                                     /\ status[id] = Word("absent")

StoreIInv ==
  /\ StoreTypeOK
  /\ PointerIsAWriters
  /\ SettledWord
  /\ DecidedIsClosed
  /\ FreshIds

LEMMA StoreInitIInv == StoreInit => StoreIInv
<1> SUFFICES ASSUME StoreInit PROVE StoreIInv
  OBVIOUS
<1>1. StoreTypeOK
  BY StoreInitType
<1>2. \A id \in Ids : Writers(id) = {}
  BY DEF StoreInit, Writers, Idle
<1>3. QED
  BY <1>1, <1>2 DEF StoreInit, StoreIInv, PointerIsAWriters, SettledWord,
     DecidedIsClosed, FreshIds, Idle

LEMMA AppendFacts ==
  ASSUME NEW S, NEW s \in Seq(S), NEW e \in S
  PROVE  /\ Append(s, e) # <<>>
         /\ Len(s) \in Nat
         /\ Len(Append(s, e)) = Len(s) + 1
         /\ s = <<>> <=> Len(s) = 0
         /\ s = <<>> => Append(s, e)[1] = e
  OBVIOUS

(* A reviewer that is not idle works on a stored request. *)
LEMMA BusyReviewer ==
  ASSUME StoreTypeOK, NEW r \in Reviewers, rev[r].at # "idle"
  PROVE  rev[r] \in [at : {"write", "store", "signal"}, id : Ids, verdict : Decisions]
  BY DEF StoreTypeOK, ReviewerStates

LEMMA StoreApprovalIInv ==
  ASSUME StoreIInv, NEW t \in Tools, StoreHITLApproval(t)
  PROVE  StoreIInv'
<1> USE DEF StoreIInv
<1>1. StoreTypeOK'
  BY StoreApprovalType
<1>2. \A id \in Ids : Writers(id)' = Writers(id)
  BY DEF StoreHITLApproval, Writers
<1>3. \A id \in Ids : id # nextId => status'[id] = status[id]
  BY DEF StoreHITLApproval, StoreTypeOK
<1>4. nextId \in Ids /\ decided[nextId] = <<>> /\ Writers(nextId) = {}
  <2>1. nextId \in Ids /\ nextId \in Nat
    BY DEF StoreHITLApproval, StoreTypeOK
  <2>2. decided[nextId] = <<>>
    BY <2>1 DEF FreshIds
  <2>3. ASSUME NEW r \in Writers(nextId) PROVE FALSE
    <3>1. r \in Reviewers /\ rev[r].id = nextId /\ rev[r].at # "idle"
      BY DEF Writers
    <3>2. rev[r].id < nextId
      BY <3>1 DEF FreshIds
    <3>3. QED
      BY <2>1, <3>1, <3>2
  <2>4. QED
    BY <2>1, <2>2, <2>3
<1>5. PointerIsAWriters'
  BY <1>2, <1>3, <1>4 DEF PointerIsAWriters, StoreHITLApproval
<1>6. SettledWord'
  BY <1>2, <1>3, <1>4 DEF SettledWord, StoreHITLApproval
<1>7. DecidedIsClosed'
  BY <1>3, <1>4 DEF DecidedIsClosed, StoreHITLApproval
<1>8. FreshIds'
  <2>1. nextId' = nextId + 1 /\ nextId \in Nat
    BY DEF StoreHITLApproval, StoreTypeOK, Ids
  <2>2. ASSUME NEW r \in Reviewers, rev'[r].at # "idle" PROVE rev'[r].id < nextId'
    BY <2>1, <2>2, BusyReviewer DEF StoreHITLApproval, FreshIds, Ids
  <2>3. ASSUME NEW id \in Ids, id >= nextId'
        PROVE  decided'[id] = <<>> /\ status'[id] = Word("absent")
    BY <2>1, <2>3, <1>3 DEF StoreHITLApproval, FreshIds, Ids
  <2>4. QED
    BY <2>2, <2>3 DEF FreshIds
<1>9. QED
  BY <1>1, <1>5, <1>6, <1>7, <1>8

LEMMA CheckPendingIInv ==
  ASSUME StoreIInv, NEW r \in Reviewers, NEW i \in Ids, NEW d \in Decisions,
         CheckPending(r, i, d), StoreTypeOK'
  PROVE  StoreIInv'
<1> USE DEF StoreIInv
<1>1. /\ status' = status /\ decided' = decided /\ nextId' = nextId
      /\ rev' = [rev EXCEPT ![r] = [at |-> "write", id |-> i, verdict |-> d]]
      /\ rev[r].at = "idle"
  BY DEF CheckPending
<1>2. status[i].len = "pending"
  BY DEF CheckPending, Status
<1>3. \A id \in Ids : Writers(id) \subseteq Writers(id)'
  BY <1>1 DEF Writers, StoreTypeOK
<1>4. \A q \in Reviewers : rev'[q].at = "store" => q # r /\ rev'[q] = rev[q]
  BY <1>1 DEF StoreTypeOK
<1>5. PointerIsAWriters'
  BY <1>1, <1>3, <1>4 DEF PointerIsAWriters, Writers
<1>6. \A id \in Ids : Writers(id)' = {} => Writers(id) = {}
  BY <1>3
<1>7. SettledWord'
  BY <1>1, <1>6 DEF SettledWord
<1>8. DecidedIsClosed'
  BY <1>1 DEF DecidedIsClosed
<1>9. i < nextId
  BY <1>2 DEF FreshIds, Word, StoreTypeOK, Ids
<1>10. FreshIds'
  BY <1>1, <1>9 DEF FreshIds, StoreTypeOK
<1>11. QED
  BY <1>5, <1>7, <1>8, <1>10

LEMMA WriteStatusIInv ==
  ASSUME StoreIInv, NEW r \in Reviewers, WriteStatus(r), StoreTypeOK'
  PROVE  StoreIInv'
<1> USE DEF StoreIInv
<1>1. PICK i \in Ids, v \in Decisions :
        rev[r].id = i /\ rev[r].verdict = v /\ rev[r].at = "write" /\ i < nextId
  BY BusyReviewer DEF WriteStatus, FreshIds
<1>2. decided' = decided /\ nextId' = nextId
  BY DEF WriteStatus
<1>3. /\ rev'[r] = [rev[r] EXCEPT !.at = "store"]
      /\ \A q \in Reviewers : q # r => rev'[q] = rev[q]
  BY DEF WriteStatus, StoreTypeOK
<1>4. rev'[r].at = "store" /\ rev'[r].id = i /\ rev'[r].verdict = v
  BY <1>3, BusyReviewer, <1>1
<1>5. /\ status'[i].ptr = v /\ status'[i].len = status[i].len
      /\ \A id \in Ids : id # i => status'[id] = status[id]
  BY <1>1 DEF WriteStatus, StoreTypeOK
<1>6. r \in Writers(i) /\ r \in Writers(i)'
  BY <1>1, <1>4 DEF Writers
<1>7. \A id \in Ids : Writers(id)' = Writers(id)
  <2> SUFFICES ASSUME NEW id \in Ids, NEW q \in Reviewers
               PROVE  q \in Writers(id)' <=> q \in Writers(id)
    BY DEF Writers
  <2>1. CASE q = r
    BY <2>1, <1>1, <1>4 DEF Writers
  <2>2. CASE q # r
    BY <2>2, <1>3 DEF Writers
  <2>3. QED
    BY <2>1, <2>2
<1>8. PointerIsAWriters'
  <2> SUFFICES ASSUME NEW id \in Ids, decided[id] = <<>>,
                      NEW q \in Writers(id), rev'[q].at = "store"
               PROVE  \E p \in Writers(id) : rev'[p].at = "store"
                                             /\ status'[id].ptr = rev'[p].verdict
    BY <1>2, <1>7 DEF PointerIsAWriters
  <2>1. CASE id = i
    BY <2>1, <1>4, <1>5, <1>6
  <2>2. CASE id # i
    <3>1. \A p \in Writers(id) : p # r
      BY <2>2, <1>1 DEF Writers
    <3>2. QED
      BY <2>2, <3>1, <1>3, <1>5 DEF PointerIsAWriters, Writers
  <2>3. QED
    BY <2>1, <2>2
<1>9. SettledWord'
  BY <1>2, <1>5, <1>6, <1>7 DEF SettledWord
<1>10. DecidedIsClosed'
  BY <1>2, <1>5 DEF DecidedIsClosed
<1>11. FreshIds'
  <2>1. \A id \in Ids : id >= nextId => id # i
    BY <1>1 DEF Ids, StoreTypeOK
  <2>2. QED
    BY <1>1, <1>2, <1>3, <1>4, <1>5, <2>1 DEF FreshIds
<1>12. QED
  BY <1>8, <1>9, <1>10, <1>11

LEMMA FinishWriteIInv ==
  ASSUME StoreIInv, NEW r \in Reviewers, FinishWrite(r), StoreTypeOK'
  PROVE  StoreIInv'
<1> USE DEF StoreIInv
<1>1. PICK i \in Ids, v \in Decisions :
        rev[r].id = i /\ rev[r].verdict = v /\ rev[r].at = "store" /\ i < nextId
  BY BusyReviewer DEF FinishWrite, FreshIds
<1>2. /\ nextId' = nextId
      /\ decided'[i] = Append(decided[i], v)
      /\ \A id \in Ids : id # i => decided'[id] = decided[id]
  BY <1>1 DEF FinishWrite, StoreTypeOK
<1>3. /\ rev'[r] = [rev[r] EXCEPT !.at = "signal"]
      /\ \A q \in Reviewers : q # r => rev'[q] = rev[q]
  BY DEF FinishWrite, StoreTypeOK
<1>4. rev'[r].at = "signal" /\ rev'[r].id = i
  BY <1>3, BusyReviewer, <1>1
<1>5. /\ status'[i] = [status[i] EXCEPT !.len = v]
      /\ \A id \in Ids : id # i => status'[id] = status[id]
  BY <1>1 DEF FinishWrite, StoreTypeOK
<1>6. r \in Writers(i) /\ Writers(i)' = Writers(i) \ {r}
      /\ \A id \in Ids : id # i => Writers(id)' = Writers(id)
  BY <1>1, <1>3, <1>4 DEF Writers
<1>7. decided[i] \in Seq(Decisions) /\ decided'[i] # <<>>
      /\ Len(decided'[i]) = Len(decided[i]) + 1 /\ Len(decided[i]) \in Nat
      /\ (decided[i] = <<>> => decided'[i][1] = v)
  <2>1. decided[i] \in Seq(Decisions)
    BY DEF StoreTypeOK
  <2>2. QED
    BY <2>1, <1>2, AppendFacts
<1>8. PointerIsAWriters'
  <2> SUFFICES ASSUME NEW id \in Ids, id # i, decided[id] = <<>>,
                      NEW q \in Writers(id), rev'[q].at = "store"
               PROVE  \E p \in Writers(id) : rev'[p].at = "store"
                                             /\ status'[id].ptr = rev'[p].verdict
    BY <1>2, <1>6, <1>7 DEF PointerIsAWriters
  <2>1. \A p \in Writers(id) : p # r
    BY <1>1 DEF Writers
  <2>2. QED
    BY <2>1, <1>3, <1>5 DEF PointerIsAWriters, Writers
<1>9. SettledWord'
  <2> SUFFICES ASSUME NEW id \in Ids, Len(decided'[id]) = 1, Writers(id)' = {}
               PROVE  status'[id] \in {Word("absent"), Word(decided'[id][1])}
    BY DEF SettledWord
  <2>1. CASE id = i
    <3>1. decided[i] = <<>> /\ decided'[i][1] = v
      BY <2>1, <1>1, <1>2, <1>7, AppendFacts DEF StoreTypeOK
    <3>2. \A q \in Writers(i) : q = r
      BY <2>1, <1>6
    <3>3. status[i].ptr = v
      BY <3>1, <3>2, <1>1, <1>6 DEF PointerIsAWriters
    <3>4. status[i] \in [ptr : Words, len : Words]
      BY <1>1 DEF StoreTypeOK
    <3>5. status'[i] = Word(v)
      BY <3>3, <3>4, <1>5 DEF Word
    <3>6. QED
      BY <2>1, <3>1, <3>5
  <2>2. CASE id # i
    BY <2>2, <1>2, <1>5, <1>6 DEF SettledWord
  <2>3. QED
    BY <2>1, <2>2
<1>10. DecidedIsClosed'
  <2>1. status'[i].len = v /\ v # "pending"
    BY <1>1, <1>5 DEF StoreTypeOK, Decisions
  <2>2. QED
    BY <2>1, <1>2, <1>5 DEF DecidedIsClosed
<1>11. FreshIds'
  <2>1. \A id \in Ids : id >= nextId => id # i
    BY <1>1 DEF Ids, StoreTypeOK
  <2>2. QED
    BY <1>1, <1>2, <1>3, <1>4, <1>5, <2>1 DEF FreshIds
<1>12. QED
  BY <1>8, <1>9, <1>10, <1>11

LEMMA SendSignalIInv ==
  ASSUME StoreIInv, NEW r \in Reviewers, SendSignal(r)
  PROVE  StoreIInv'
<1> USE DEF StoreIInv
<1>1. StoreTypeOK'
  BY SendSignalType
<1>2. /\ status' = status /\ decided' = decided /\ nextId' = nextId
      /\ rev'[r].at = "idle" /\ rev[r].at = "signal"
      /\ \A q \in Reviewers : q # r => rev'[q] = rev[q]
  BY DEF SendSignal, StoreTypeOK, Idle
<1>3. \A id \in Ids : /\ Writers(id)' = Writers(id)
                      /\ \A q \in Writers(id) : rev'[q] = rev[q]
  BY <1>2 DEF Writers
<1>4. PointerIsAWriters'
  <2> SUFFICES ASSUME NEW id \in Ids, decided[id] = <<>>,
                      NEW q \in Writers(id), rev'[q].at = "store"
               PROVE  \E p \in Writers(id) : rev'[p].at = "store"
                                             /\ status[id].ptr = rev'[p].verdict
    BY <1>2, <1>3 DEF PointerIsAWriters
  <2>1. QED
    BY <1>3 DEF PointerIsAWriters
<1>5. SettledWord' /\ DecidedIsClosed'
  BY <1>2, <1>3 DEF SettledWord, DecidedIsClosed
<1>6. FreshIds'
  BY <1>2 DEF FreshIds
<1>7. QED
  BY <1>1, <1>4, <1>5, <1>6

LEMMA RestartIInv ==
  ASSUME StoreIInv, RestartInitiator
  PROVE  StoreIInv'
<1> USE DEF StoreIInv
<1>1. StoreTypeOK'
  BY RestartType
<1>2. \A id \in Ids : Writers(id)' = {}
  BY DEF RestartInitiator, Writers, Idle
<1>3. QED
  BY <1>1, <1>2 DEF RestartInitiator, PointerIsAWriters, SettledWord,
     DecidedIsClosed, FreshIds, Idle, Word

LEMMA StoreStepIInv == StoreIInv /\ [StoreNext]_storeVars => StoreIInv'
<1> SUFFICES ASSUME StoreIInv, [StoreNext]_storeVars PROVE StoreIInv'
  OBVIOUS
<1>0. StoreTypeOK'
  BY StoreStepType DEF StoreIInv
<1>1. CASE UNCHANGED storeVars
  BY <1>1, <1>0 DEF storeVars, StoreIInv, PointerIsAWriters, SettledWord,
     DecidedIsClosed, FreshIds, Writers
<1>2. ASSUME NEW r \in Reviewers, ReviewerStep(r) PROVE StoreIInv'
  <2>1. ASSUME NEW id \in Ids, RefuseDecision(r, id) PROVE StoreIInv'
    BY <1>1, <2>1 DEF RefuseDecision
  <2>2. QED
    BY <1>0, <1>2, <2>1, CheckPendingIInv, WriteStatusIInv, FinishWriteIInv
    DEF ReviewerStep, HandlerStep
<1>3. QED
  BY <1>1, <1>2, StoreApprovalIInv, SendSignalIInv, RestartIInv DEF StoreNext

(* A request that only one handler has been deciding settles on that       *)
(* handler's decision, whatever the other handlers and the restarts do.    *)
THEOREM StatusSettles == StoreSpec => []SettledStatus
<1>1. StoreIInv => SettledStatus
  <2> SUFFICES ASSUME StoreIInv, NEW id \in Ids, Len(decided[id]) = 1,
                      \A r \in Reviewers : rev[r].id = id => rev[r].at = "signal"
               PROVE  Status(id) \in {"absent", decided[id][1]}
    BY DEF SettledStatus
  <2>1. Writers(id) = {}
    BY DEF Writers
  <2>2. status[id] \in {Word("absent"), Word(decided[id][1])}
    BY <2>1 DEF StoreIInv, SettledWord
  <2>3. QED
    BY <2>2 DEF Status, Word
<1>2. QED
  BY <1>1, StoreInitIInv, StoreStepIInv, PTL DEF StoreSpec

(* A decided request is never pending again. *)
THEOREM DecidedStaysClosed == StoreSpec => NeverReopened
<1>1. StoreIInv /\ [StoreNext]_storeVars =>
        \A id \in Ids : decided[id] # <<>> => decided'[id] # <<>>
  <2> SUFFICES ASSUME StoreIInv, [StoreNext]_storeVars, NEW id \in Ids, decided[id] # <<>>
               PROVE  decided'[id] # <<>>
    OBVIOUS
  <2>1. CASE decided' = decided
    BY <2>1
  <2>2. ASSUME NEW r \in Reviewers, FinishWrite(r) PROVE decided'[id] # <<>>
    <3>1. rev[r].id \in Ids /\ rev[r].verdict \in Decisions
      BY <2>2, BusyReviewer DEF FinishWrite, StoreIInv
    <3>2. decided[rev[r].id] \in Seq(Decisions)
      BY <3>1 DEF StoreIInv, StoreTypeOK
    <3>3. CASE id = rev[r].id
      <4>1. decided'[id] = Append(decided[id], rev[r].verdict)
        BY <2>2, <3>3 DEF FinishWrite, StoreIInv, StoreTypeOK
      <4>2. QED
        BY <4>1, <3>1, <3>2, <3>3, AppendFacts
    <3>4. CASE id # rev[r].id
      BY <2>2, <3>4 DEF FinishWrite, StoreIInv, StoreTypeOK
    <3>5. QED
      BY <3>3, <3>4
  <2>3. QED
    BY <2>1, <2>2 DEF StoreNext, storeVars, StoreHITLApproval, ReviewerStep, HandlerStep,
       RefuseDecision, CheckPending, WriteStatus, SendSignal, RestartInitiator
<1>2. StoreIInv /\ StoreIInv' /\ [StoreNext]_storeVars =>
        [\A id \in Ids : decided[id] # <<>> => Status(id)' # "pending"]_storeVars
  BY <1>1 DEF StoreIInv, DecidedIsClosed, Status
<1>3. QED
  BY <1>2, StoreInitIInv, StoreStepIInv, PTL DEF StoreSpec, NeverReopened

----------------------------------------------------------------------------
(* How many handlers may decide one request.  The first write takes the    *)
(* word "pending" away, so a request that has a recorded decision admits   *)
(* no further writer: writers join only while nothing is decided, and a    *)
(* writer that finishes trades its place for one decision.                 *)
OverlapIInv == StoreIInv /\ DecisionsOverlap

LEMMA WritersCount ==
  ASSUME NEW id
  PROVE  /\ IsFiniteSet(Writers(id))
         /\ Cardinality(Writers(id)) \in Nat
         /\ Cardinality(Reviewers) \in Nat
         /\ Cardinality(Writers(id)) <= Cardinality(Reviewers)
<1>1. IsFiniteSet(Reviewers) /\ Writers(id) \subseteq Reviewers
  BY StoreAssumption DEF Writers
<1>2. QED
  BY <1>1, FS_Subset, FS_CardinalityType

LEMMA OverlapInit == StoreInit => DecisionsOverlap
<1> SUFFICES ASSUME StoreInit, NEW id \in Ids
             PROVE  Len(decided[id]) + Cardinality(Writers(id)) <= Cardinality(Reviewers)
  BY DEF DecisionsOverlap, Writers
<1>1. decided[id] = <<>>
  BY DEF StoreInit
<1>2. QED
  BY <1>1, WritersCount

(* A request keeps its bound in a step that leaves its decisions alone and *)
(* lets no writer in.                                                      *)
LEMMA OverlapKept ==
  ASSUME OverlapIInv, NEW id \in Ids, decided'[id] = decided[id],
         Writers(id)' \subseteq Writers(id)
  PROVE  Len(decided'[id]) + Cardinality(Writers(id)') <= Cardinality(Reviewers)
<1>1. Len(decided[id]) + Cardinality(Writers(id)) <= Cardinality(Reviewers)
  BY DEF OverlapIInv, DecisionsOverlap, Writers
<1>2. IsFiniteSet(Writers(id)') /\ Cardinality(Writers(id)') \in Nat
      /\ Cardinality(Writers(id)') <= Cardinality(Writers(id))
  BY WritersCount, FS_Subset, FS_CardinalityType
<1>3. Len(decided[id]) \in Nat
  BY AppendFacts DEF OverlapIInv, StoreIInv, StoreTypeOK
<1>4. QED
  BY <1>1, <1>2, <1>3, WritersCount

LEMMA OverlapStep == OverlapIInv /\ [StoreNext]_storeVars => DecisionsOverlap'
<1> SUFFICES ASSUME OverlapIInv, [StoreNext]_storeVars, NEW id \in Ids
             PROVE  Len(decided'[id]) + Cardinality(Writers(id)') <= Cardinality(Reviewers)
  BY DEF DecisionsOverlap, Writers
<1>0. StoreTypeOK /\ StoreIInv
  BY DEF OverlapIInv, StoreIInv
<1>1. CASE UNCHANGED storeVars
  BY <1>1, OverlapKept DEF storeVars, Writers
<1>2. ASSUME NEW t \in Tools, StoreHITLApproval(t) PROVE  Len(decided'[id]) + Cardinality(Writers(id)') <= Cardinality(Reviewers)
  BY <1>2, OverlapKept DEF StoreHITLApproval, Writers
<1>3. ASSUME NEW r \in Reviewers, NEW i \in Ids, NEW d \in Decisions, CheckPending(r, i, d)
      PROVE  Len(decided'[id]) + Cardinality(Writers(id)') <= Cardinality(Reviewers)
  <2>1. decided' = decided
    BY <1>3 DEF CheckPending
  <2>2. CASE id = i
    \* Status "pending" means that nothing has been decided yet.
    <3>1. status[i].len = "pending"
      BY <1>3 DEF CheckPending, Status
    <3>2. decided[i] = <<>>
      BY <1>0, <3>1 DEF StoreIInv, DecidedIsClosed
    <3>3. Writers(id)' \subseteq Reviewers
      BY DEF Writers
    <3>4. IsFiniteSet(Writers(id)') /\ Cardinality(Writers(id)') \in Nat
          /\ Cardinality(Writers(id)') <= Cardinality(Reviewers)
      BY <3>3, StoreAssumption, FS_Subset, FS_CardinalityType
    <3>5. QED
      BY <2>1, <2>2, <3>2, <3>4, WritersCount
  <2>3. CASE id # i
    <3>1. Writers(id)' \subseteq Writers(id)
      BY <1>0, <1>3, <2>3 DEF CheckPending, Writers, StoreTypeOK
    <3>2. QED
      BY <2>1, <3>1, OverlapKept
  <2>4. QED
    BY <2>2, <2>3
<1>4. ASSUME NEW r \in Reviewers, WriteStatus(r) PROVE  Len(decided'[id]) + Cardinality(Writers(id)') <= Cardinality(Reviewers)
  <2>1. decided' = decided /\ Writers(id)' \subseteq Writers(id)
    <3>1. rev[r].at = "write" /\ decided' = decided
          /\ rev' = [rev EXCEPT ![r].at = "store"]
      BY <1>4 DEF WriteStatus
    <3>2. \A q \in Reviewers : rev'[q].id = rev[q].id
      BY <1>0, <3>1, BusyReviewer DEF StoreTypeOK
    <3>3. \A q \in Reviewers : q # r => rev'[q] = rev[q]
      BY <1>0, <3>1 DEF StoreTypeOK
    <3>4. QED
      BY <3>1, <3>2, <3>3 DEF Writers
  <2>2. QED
    BY <2>1, OverlapKept
<1>5. ASSUME NEW r \in Reviewers, FinishWrite(r) PROVE  Len(decided'[id]) + Cardinality(Writers(id)') <= Cardinality(Reviewers)
  <2>1. PICK i \in Ids, v \in Decisions :
          rev[r].id = i /\ rev[r].verdict = v /\ rev[r].at = "store"
    BY <1>0, <1>5, BusyReviewer DEF FinishWrite
  <2>2. /\ rev'[r].at = "signal"
        /\ \A q \in Reviewers : rev'[q].id = rev[q].id
        /\ \A q \in Reviewers : q # r => rev'[q] = rev[q]
    BY <1>0, <1>5, <2>1, BusyReviewer DEF FinishWrite, StoreTypeOK
  <2>3. CASE id = i
    <3>1. r \in Writers(id) /\ Writers(id)' = Writers(id) \ {r}
      BY <2>1, <2>2, <2>3 DEF Writers
    <3>2. Cardinality(Writers(id)') = Cardinality(Writers(id)) - 1
      BY <3>1, WritersCount, FS_RemoveElement
    <3>3. decided[id] \in Seq(Decisions) /\ decided'[id] = Append(decided[id], v)
      BY <1>0, <1>5, <2>1, <2>3 DEF FinishWrite, StoreTypeOK
    <3>4. Len(decided'[id]) = Len(decided[id]) + 1 /\ Len(decided[id]) \in Nat
      BY <3>3, AppendFacts
    <3>5. Len(decided[id]) + Cardinality(Writers(id)) <= Cardinality(Reviewers)
      BY DEF OverlapIInv, DecisionsOverlap, Writers
    <3>6. QED
      BY <3>2, <3>4, <3>5, WritersCount
  <2>4. CASE id # i
    <3>1. decided'[id] = decided[id] /\ Writers(id)' \subseteq Writers(id)
      BY <1>0, <1>5, <2>1, <2>2, <2>4 DEF FinishWrite, StoreTypeOK, Writers
    <3>2. QED
      BY <3>1, OverlapKept
  <2>5. QED
    BY <2>3, <2>4
<1>6. ASSUME NEW r \in Reviewers, SendSignal(r) PROVE  Len(decided'[id]) + Cardinality(Writers(id)') <= Cardinality(Reviewers)
  <2>1. decided' = decided /\ Writers(id)' \subseteq Writers(id)
    BY <1>0, <1>6 DEF SendSignal, Writers, StoreTypeOK, Idle
  <2>2. QED
    BY <2>1, OverlapKept
<1>7. CASE RestartInitiator
  <2>1. decided' = decided /\ Writers(id)' = {}
    BY <1>7 DEF RestartInitiator, Writers, Idle
  <2>2. QED
    BY <2>1, OverlapKept
<1>8. QED
  BY <1>1, <1>2, <1>3, <1>4, <1>5, <1>6, <1>7
  DEF StoreNext, ReviewerStep, HandlerStep, RefuseDecision

(* However handlers interleave and the process restarts, one request is    *)
(* decided no oftener than there are handlers in flight at once.           *)
THEOREM DecisionsAreBounded == StoreSpec => []DecisionsOverlap
<1>1. StoreInit => OverlapIInv
  BY StoreInitIInv, OverlapInit DEF OverlapIInv
<1>2. OverlapIInv /\ [StoreNext]_storeVars => OverlapIInv'
  BY StoreStepIInv, OverlapStep DEF OverlapIInv
<1>3. OverlapIInv => DecisionsOverlap
  BY DEF OverlapIInv
<1>4. QED
  BY <1>1, <1>2, <1>3, PTL DEF StoreSpec
============================================================================
