-------------------------- MODULE HitlAgentProofs --------------------------
(***************************************************************************)
(* Proofs about the agent session, for any number of reviewers, tools,     *)
(* iterations, attempts and faults.                                        *)
(***************************************************************************)
EXTENDS HitlAgentGate, ApprovalStoreProofs, FiniteSetTheorems

(* TypeOK and RunsAreGranted are not inductive by themselves.  The loop    *)
(* stays within its iterations, an attempt's cursor within its history,    *)
(* and only a running activity has a live attempt; a request is asked      *)
(* about a real tool; every grant an attempt carries was given; and while  *)
(* the workflow waits, an "approved" it has not used yet was signalled on  *)
(* top of those that made the earlier grants.                              *)
Cursor ==
  \A s \in Slots : att[s].phase = "blocks" => att[s].blk \in DOMAIN att[s].hist

Budget == pc \in {"setup", "schedule"} => iter < MaxIterations

Asked ==
  /\ \A id \in Ids : id < nextId => asked[id] \in Tools
  /\ waitFor < nextId
  /\ pc = "waiting" => waitFor # 0

Pending ==
  /\ att["current"].res.ask < nextId
  /\ \A g \in grants : g.id < nextId /\ g.id # att["current"].res.ask
  /\ pc # "activity" => att["current"].phase = "idle" /\ att["current"].res.ask = 0

Granted ==
  /\ grant \in grants \union {NoGrant}
  /\ \A s \in Slots : att[s].grant \in grants \union {NoGrant}
  /\ IsFiniteSet(grants)
  /\ pc = "waiting" /\ decision = "approved" => Cardinality(grants) < signalled

IInv ==
  /\ TypeOK
  /\ Cursor
  /\ Budget
  /\ Asked
  /\ Pending
  /\ Granted
  /\ RunsAreGranted

LEMMA AgentInitIInv == Init => IInv
<1> SUFFICES ASSUME Init PROVE IInv
  OBVIOUS
<1>1. StoreTypeOK
  BY StoreInitType DEF Init
<1>2. att \in [Slots -> Attempts]
  BY DEF Init, Attempts, IdleAttempt, NoResult, Result
<1>3. TypeOK
  BY <1>1, <1>2, AgentAssumption DEF Init, TypeOK, FaultKinds
<1>4. /\ nextId = 1 /\ grants = {} /\ runs = <<>> /\ signalled = 0 /\ waitFor = 0
      /\ iter = 0 /\ grant = NoGrant /\ pc = "setup"
      /\ \A s \in Slots : att[s].phase = "idle" /\ att[s].grant = NoGrant
                         /\ att[s].res.ask = 0
  BY DEF Init, StoreInit, IdleAttempt, NoResult, Result
<1>5. IsFiniteSet(grants) /\ Cardinality(grants) = 0
  BY <1>4, FS_EmptySet
<1>6. Cursor /\ Budget /\ Asked /\ Pending /\ Granted
  BY <1>4, <1>5, AgentAssumption
  DEF Cursor, Budget, Asked, Pending, Granted, Slots, Ids
<1>7. RunsAreGranted
  BY <1>4, <1>5 DEF RunsAreGranted
<1>8. QED
  BY <1>3, <1>6, <1>7 DEF IInv

----------------------------------------------------------------------------
(* The helpers the actions are built from.                                 *)

LEMMA FaultType ==
  ASSUME NEW k \in FaultKinds, Fault(k), faults \in [FaultKinds -> Nat]
  PROVE  faults' \in [FaultKinds -> Nat]
  BY DEF Fault

LEMMA AnswerType ==
  ASSUME NEW h \in Seq(Blocks), NEW S
  PROVE  Answer(h, S) \in Seq(Blocks)
<1>1. ASSUME NEW i \in 1..Len(h) PROVE Answer(h, S)[i] \in Blocks
  <2>1. h[i] \in Blocks
    OBVIOUS
  <2>2. [h[i] EXCEPT !.answered = TRUE] \in Blocks
    BY <2>1 DEF Blocks
  <2>3. Answer(h, S)[i] = IF i \in S THEN [h[i] EXCEPT !.answered = TRUE] ELSE h[i]
    <3>1. i \in DOMAIN h
      OBVIOUS
    <3>2. QED
      BY <3>1, Zenon DEF Answer
  <2>4. QED
    BY <2>1, <2>2, <2>3
<1>2. Answer(h, S) = [i \in 1..Len(h) |-> Answer(h, S)[i]]
  BY DEF Answer
<1>3. QED
  BY <1>1, <1>2

LEMMA AppendAt ==
  ASSUME NEW S, NEW q \in Seq(S), NEW e \in S
  PROVE  /\ Append(q, e) \in Seq(S)
         /\ \A i \in DOMAIN Append(q, e) :
              Append(q, e)[i] = e \/ (i \in DOMAIN q /\ Append(q, e)[i] = q[i])
  OBVIOUS

\* A turn appended to a history: its type and its length.
LEMMA ConcatType ==
  ASSUME NEW S, NEW p \in Seq(S), NEW q \in Seq(S)
  PROVE  /\ p \o q \in Seq(S)
         /\ Len(p \o q) = Len(p) + Len(q)
         /\ Len(p) \in Nat
  OBVIOUS

LEMMA ReturnType ==
  ASSUME TypeOK, NEW s \in Slots, NEW h \in Seq(Blocks), NEW f \in BOOLEAN,
         NEW c \in BOOLEAN, NEW a \in Ids \union {0}, Return(s, h, Result(f, c, a))
  PROVE  /\ att' \in [Slots -> Attempts]
         /\ att'[s].phase = "result"
         /\ att'[s].grant = att[s].grant
         /\ att'[s].res.ask = a
         /\ \A q \in Slots : q # s => att'[q] = att[q]
<1>1. att[s] \in Attempts /\ att \in [Slots -> Attempts]
  BY DEF TypeOK
<1>2. att' = [att EXCEPT ![s] = [att[s] EXCEPT !.phase = "result", !.hist = h,
                                                !.res = Result(f, c, a)]]
  BY DEF Return, Advance
<1>3. [att[s] EXCEPT !.phase = "result", !.hist = h, !.res = Result(f, c, a)] \in Attempts
  BY <1>1 DEF Attempts, Result
<1>4. QED
  BY <1>1, <1>2, <1>3 DEF Attempts, Result

LEMMA NewAttemptType ==
  ASSUME NEW h \in Seq(Blocks), NEW g \in Grants \union {NoGrant}
  PROVE  /\ NewAttempt(h, g) \in Attempts
         /\ NewAttempt(h, g).phase = "start"
         /\ NewAttempt(h, g).grant = g
         /\ NewAttempt(h, g).res.ask = 0
         /\ IdleAttempt \in Attempts
         /\ IdleAttempt.phase = "idle"
         /\ IdleAttempt.grant = NoGrant
         /\ IdleAttempt.res.ask = 0
<1>1. NoResult \in [final : BOOLEAN, cont : BOOLEAN, ask : Ids \union {0}]
      /\ NoResult.ask = 0
  BY DEF NoResult, Result
<1>2. <<>> \in Seq(Blocks)
  OBVIOUS
<1>3. IdleAttempt \in Attempts
  BY <1>1, <1>2 DEF IdleAttempt, Attempts
<1>4. NewAttempt(h, g) \in Attempts
  BY <1>3 DEF NewAttempt, Attempts
<1>5. QED
  BY <1>1, <1>3, <1>4 DEF NewAttempt, IdleAttempt

LEMMA AttemptFacts ==
  ASSUME NEW a \in Attempts
  PROVE  a.res.ask \in Nat /\ a.hist \in Seq(Blocks) /\ a.blk \in Nat \ {0}
<1>1. a.res \in [final : BOOLEAN, cont : BOOLEAN, ask : Ids \union {0}]
      /\ a.hist \in Seq(Blocks) /\ a.blk \in Nat \ {0}
  BY DEF Attempts
<1>2. QED
  BY <1>1 DEF Ids

LEMMA BlockFacts ==
  ASSUME NEW h \in Seq(Blocks), NEW i \in DOMAIN h
  PROVE  h[i].tool \in Tools
<1>1. h[i] \in Blocks
  OBVIOUS
<1>2. QED
  BY <1>1 DEF Blocks

LEMMA GrantFacts ==
  ASSUME TypeOK, NEW g \in grants
  PROVE  g.id \in Nat \ {0}
  BY DEF TypeOK, Grants, Ids

(* A step of one live attempt: it keeps its grant, leaves the other slot   *)
(* and the workflow alone, asks only about a request it has just stored,   *)
(* and logs only runs under a grant.                                       *)
LEMMA AttemptKeeps ==
  ASSUME IInv, NEW s \in Slots,
         att' \in [Slots -> Attempts],
         att[s].phase # "idle",
         att'[s].phase # "idle",
         att'[s].phase = "blocks" => att'[s].blk \in DOMAIN att'[s].hist,
         att'[s].grant = att[s].grant,
         \A q \in Slots : q # s => att'[q] = att[q],
         StoreTypeOK',
         uses' \in 0..MaxUses,
         faults' \in [FaultKinds -> Nat],
         UNCHANGED <<wfVars, grants, signalled>>,
         \/ UNCHANGED storeVars /\ att'[s].res.ask \in {0, att[s].res.ask}
         \/ \E t \in Tools : /\ StoreHITLApproval(t)
                              /\ att'[s].res.ask \in {0, att[s].res.ask, nextId},
         runs' \in Seq(Runs),
         \A i \in DOMAIN runs' :
           [tool |-> runs'[i].tool, id |-> runs'[i].id] \in grants
  PROVE  IInv'
<1>1. TypeOK'
  BY DEF IInv, TypeOK, wfVars
<1>2. Cursor'
  BY DEF IInv, Cursor
<1>3. Budget'
  BY DEF IInv, Budget, wfVars
<1>4. /\ nextId \in Nat /\ nextId' \in Nat
      /\ \/ nextId' = nextId /\ asked' = asked
         \/ nextId' = nextId + 1 /\ nextId \in Ids
             /\ \E t \in Tools : asked' = [asked EXCEPT ![nextId] = t]
  BY DEF IInv, TypeOK, StoreTypeOK, StoreHITLApproval, storeVars
<1>5. Asked'
  <2>1. waitFor \in Nat
    BY DEF IInv, TypeOK, Ids
  <2>2. waitFor < nextId' /\ (pc = "waiting" => waitFor # 0)
    BY <2>1, <1>4 DEF IInv, Asked
  <2>3. ASSUME NEW id \in Ids, id < nextId' PROVE asked'[id] \in Tools
    <3>1. asked \in [Ids -> Tools \union {NoTool}] /\ id \in Nat
      BY DEF IInv, TypeOK, StoreTypeOK, Ids
    <3>2. CASE asked' = asked /\ nextId' = nextId
      BY <2>3, <3>2 DEF IInv, Asked
    <3>3. CASE asked' # asked \/ nextId' # nextId
      <4>1. PICK t \in Tools : asked' = [asked EXCEPT ![nextId] = t]
        BY <3>3, <1>4
      <4>2. id = nextId \/ id < nextId
        BY <2>3, <3>1, <3>3, <1>4
      <4>3. QED
        BY <3>1, <4>1, <4>2 DEF IInv, Asked
    <3>4. QED
      BY <3>2, <3>3
  <2>4. QED
    BY <2>2, <2>3 DEF Asked, wfVars
<1>6. Pending'
  <2>1. pc = "activity" \/ s # "current"
    BY DEF IInv, Pending
  <2>2. CASE s # "current"
    <3>1. att'["current"] = att["current"] /\ att["current"].res.ask \in Nat
      BY <2>2, AttemptFacts DEF Slots, IInv, TypeOK
    <3>2. \A g \in grants : g.id \in Nat
      BY GrantFacts DEF IInv
    <3>3. QED
      BY <3>1, <3>2, <1>4 DEF IInv, Pending, wfVars
  <2>3. CASE s = "current" /\ pc = "activity"
    <3>1. att'["current"].res.ask \in Nat /\ att["current"].res.ask \in Nat
      BY AttemptFacts DEF Slots, IInv, TypeOK
    <3>2. \A g \in grants : g.id \in Nat /\ g.id # 0
      BY GrantFacts DEF IInv
    <3>3. \/ att'["current"].res.ask \in {0, att["current"].res.ask}
          \/ att'["current"].res.ask = nextId /\ nextId' = nextId + 1
      BY <2>3 DEF StoreHITLApproval
    <3>4. nextId > 0
      BY DEF IInv, TypeOK, StoreTypeOK
    <3>5. QED
      BY <2>3, <3>1, <3>2, <3>3, <3>4, <1>4 DEF IInv, Pending, wfVars
  <2>4. QED
    BY <2>1, <2>2, <2>3
<1>7. Granted'
  BY DEF IInv, Granted, wfVars
<1>8. RunsAreGranted'
  BY DEF IInv, RunsAreGranted
<1>9. QED
  BY <1>1, <1>2, <1>3, <1>5, <1>6, <1>7, <1>8 DEF IInv

----------------------------------------------------------------------------
(* The actions of an attempt.                                              *)

LEMMA BuildFailedIInv ==
  ASSUME IInv, NEW s \in Slots, BuildFailed(s)
  PROVE  IInv'
<1>1. TypeOK /\ StoreTypeOK /\ att[s] \in Attempts /\ att[s].phase = "start"
  BY DEF IInv, TypeOK, BuildFailed
<1>2. Return(s, att[s].hist, Result(TRUE, FALSE, 0))
      /\ UNCHANGED <<storeVars, wfVars, uses, runs, grants, signalled>>
  BY DEF BuildFailed
<1>3. faults' \in [FaultKinds -> Nat]
  BY <1>1, FaultType DEF BuildFailed, TypeOK, FaultKinds
<1>4. /\ att' \in [Slots -> Attempts] /\ att'[s].phase = "result"
      /\ att'[s].grant = att[s].grant /\ att'[s].res.ask = 0
      /\ \A q \in Slots : q # s => att'[q] = att[q]
  BY <1>1, <1>2, AttemptFacts, ReturnType
<1>5. StoreTypeOK' /\ uses' \in 0..MaxUses /\ runs' \in Seq(Runs)
  BY <1>1, <1>2 DEF TypeOK, StoreTypeOK, storeVars
<1>6. \A i \in DOMAIN runs' : [tool |-> runs'[i].tool, id |-> runs'[i].id] \in grants
  BY <1>2 DEF IInv, RunsAreGranted
<1>7. QED
  BY <1>1, <1>2, <1>3, <1>4, <1>5, <1>6, AttemptKeeps

LEMMA ResumeApprovedIInv ==
  ASSUME IInv, NEW s \in Slots, ResumeApproved(s)
  PROVE  IInv'
<1> DEFINE a == att[s]
<1>1. a \in Attempts /\ TypeOK /\ StoreTypeOK /\ a.phase = "start"
  BY DEF IInv, TypeOK, ResumeApproved
<1>2. PICK b \in Resumable(a.hist, a.grant) :
        /\ Return(s, Answer(a.hist, {b}), Result(FALSE, TRUE, 0))
        /\ \/ /\ runs' = Append(runs, [use |-> a.hist[b].use, tool |-> a.hist[b].tool,
                                       id |-> a.grant.id])
              /\ UNCHANGED faults
           \/ /\ Fault("dispatch_failed")
              /\ UNCHANGED runs
  BY DEF ResumeApproved
<1>3. a.hist \in Seq(Blocks) /\ a.hist[b] \in Blocks /\ a.hist[b].tool = a.grant.tool
  BY <1>1, AttemptFacts DEF Resumable, Unanswered
<1>4. a.grant \in grants
  BY <1>3, StoreAssumption DEF IInv, Granted, NoGrant, Blocks
<1>5. [use |-> a.hist[b].use, tool |-> a.hist[b].tool, id |-> a.grant.id] \in Runs
      /\ [tool |-> a.hist[b].tool, id |-> a.grant.id] = a.grant
  BY <1>1, <1>3, <1>4 DEF TypeOK, Grants, Runs, Blocks
<1>6. /\ runs' \in Seq(Runs)
      /\ \A i \in DOMAIN runs' : [tool |-> runs'[i].tool, id |-> runs'[i].id] \in grants
  <2>1. runs \in Seq(Runs)
        /\ \A i \in DOMAIN runs : [tool |-> runs[i].tool, id |-> runs[i].id] \in grants
    BY DEF IInv, TypeOK, RunsAreGranted
  <2>2. CASE runs' = runs
    BY <2>1, <2>2
  <2>3. CASE runs' # runs
    <3> DEFINE e == [use |-> a.hist[b].use, tool |-> a.hist[b].tool, id |-> a.grant.id]
    <3>1. e \in Runs /\ [tool |-> e.tool, id |-> e.id] \in grants
      BY <1>4, <1>5
    <3>2. runs' = Append(runs, e)
      BY <2>3, <1>2
    <3> HIDE DEF e
    <3>3. QED
      BY <2>1, <3>1, <3>2, AppendAt
  <2>4. QED
    BY <2>2, <2>3
<1>7. faults' \in [FaultKinds -> Nat]
  BY <1>1, <1>2, FaultType DEF TypeOK, FaultKinds
<1>8. /\ att' \in [Slots -> Attempts] /\ att'[s].phase = "result"
      /\ att'[s].grant = att[s].grant /\ att'[s].res.ask = 0
      /\ \A q \in Slots : q # s => att'[q] = att[q]
  <2> DEFINE h == Answer(a.hist, {b})
  <2>1. h \in Seq(Blocks) /\ TypeOK /\ 0 \in Ids \union {0}
    BY <1>1, <1>2, <1>3, AnswerType
  <2>2. Return(s, h, Result(FALSE, TRUE, 0))
    BY <1>2
  <2> HIDE DEF h, a
  <2>3. QED
    BY <2>1, <2>2, ReturnType
<1>9. UNCHANGED <<storeVars, wfVars, uses, grants, signalled>>
  BY DEF ResumeApproved
<1>10. StoreTypeOK' /\ uses' \in 0..MaxUses
  BY <1>1, <1>9 DEF StoreTypeOK, storeVars, TypeOK
<1>11. QED
  BY <1>1, <1>6, <1>7, <1>8, <1>9, <1>10, AttemptKeeps

(* The steps that change nothing outside the attempt but its counters. *)
LEMMA QuietAttempt ==
  ASSUME IInv, NEW s \in Slots,
         att' \in [Slots -> Attempts],
         att[s].phase # "idle",
         att'[s].phase # "idle",
         att'[s].phase = "blocks" => att'[s].blk \in DOMAIN att'[s].hist,
         att'[s].grant = att[s].grant,
         att'[s].res.ask \in {0, att[s].res.ask},
         \A q \in Slots : q # s => att'[q] = att[q],
         uses' \in 0..MaxUses,
         UNCHANGED <<storeVars, wfVars, faults, runs, grants, signalled>>
  PROVE  IInv'
<1>1. StoreTypeOK' /\ faults' \in [FaultKinds -> Nat] /\ runs' \in Seq(Runs)
  BY DEF IInv, TypeOK, StoreTypeOK, storeVars
<1>2. \A i \in DOMAIN runs' : [tool |-> runs'[i].tool, id |-> runs'[i].id] \in grants
  BY DEF IInv, RunsAreGranted
<1>3. QED
  BY <1>1, <1>2, AttemptKeeps

LEMMA ModelErrorIInv ==
  ASSUME IInv, NEW s \in Slots, ModelError(s)
  PROVE  IInv'
<1>1. TypeOK /\ att[s] \in Attempts /\ att[s].phase # "idle" /\ uses' \in 0..MaxUses
  BY DEF IInv, TypeOK, ModelError, AtModelCall
<1>2. Return(s, att[s].hist, Result(FALSE, FALSE, 0))
      /\ UNCHANGED <<storeVars, wfVars, faults, runs, grants, signalled>>
  BY DEF ModelError
<1>3. /\ att' \in [Slots -> Attempts] /\ att'[s].phase = "result"
      /\ att'[s].grant = att[s].grant /\ att'[s].res.ask = 0
      /\ \A q \in Slots : q # s => att'[q] = att[q]
  BY <1>1, <1>2, AttemptFacts, ReturnType
<1>4. QED
  BY <1>1, <1>2, <1>3, QuietAttempt

LEMMA EndTurnIInv ==
  ASSUME IInv, NEW s \in Slots, EndTurn(s)
  PROVE  IInv'
<1>1. TypeOK /\ att[s] \in Attempts /\ att[s].phase # "idle" /\ uses' \in 0..MaxUses
  BY DEF IInv, TypeOK, EndTurn, AtModelCall
<1>2. PICK text \in BOOLEAN : Return(s, att[s].hist, Result(text, FALSE, 0))
  BY DEF EndTurn
<1>3. UNCHANGED <<storeVars, wfVars, faults, runs, grants, signalled>>
  BY DEF EndTurn
<1>4. /\ att' \in [Slots -> Attempts] /\ att'[s].phase = "result"
      /\ att'[s].grant = att[s].grant /\ att'[s].res.ask = 0
      /\ \A q \in Slots : q # s => att'[q] = att[q]
  <2> DEFINE h == att[s].hist
  <2>1. h \in Seq(Blocks) /\ TypeOK /\ 0 \in Ids \union {0}
    BY <1>1, AttemptFacts
  <2>2. Return(s, h, Result(text, FALSE, 0))
    BY <1>2
  <2> HIDE DEF h
  <2>3. QED
    BY <1>2, <2>1, <2>2, ReturnType
<1>5. QED
  BY <1>1, <1>3, <1>4, QuietAttempt

LEMMA ToolUseIInv ==
  ASSUME IInv, NEW s \in Slots, ToolUse(s)
  PROVE  IInv'
<1> DEFINE a == att[s]
<1>1. TypeOK /\ a \in Attempts /\ a.phase # "idle" /\ a.hist \in Seq(Blocks)
      /\ uses \in Nat /\ att \in [Slots -> Attempts]
  BY AttemptFacts DEF IInv, TypeOK, ToolUse, AtModelCall
<1>0. PICK n \in 1..MaxBlocks :
        /\ uses + n <= MaxUses
        /\ uses' = uses + n
        /\ \E turn \in [1..n -> Tools] :
             Advance(s, [a EXCEPT
               !.phase = "blocks",
               !.from  = Len(a.hist) + 1,
               !.blk   = Len(a.hist) + 1,
               !.hist  = a.hist \o
                  [i \in 1..n |-> [use |-> uses + i, tool |-> turn[i], answered |-> FALSE]]])
  BY DEF ToolUse
<1>2. PICK turn \in [1..n -> Tools] :
        Advance(s, [a EXCEPT
          !.phase = "blocks",
          !.from  = Len(a.hist) + 1,
          !.blk   = Len(a.hist) + 1,
          !.hist  = a.hist \o
             [i \in 1..n |-> [use |-> uses + i, tool |-> turn[i], answered |-> FALSE]]])
  BY <1>0
<1>3. UNCHANGED <<storeVars, wfVars, faults, runs, grants, signalled>>
  BY DEF ToolUse
<1> DEFINE new == [i \in 1..n |-> [use |-> uses + i, tool |-> turn[i], answered |-> FALSE]]
<1>4. n \in Nat \ {0} /\ uses' \in 0..MaxUses
  BY <1>0, <1>1, AgentAssumption
<1>5. new \in Seq(Blocks) /\ Len(new) = n
  <2>1. ASSUME NEW i \in 1..n
        PROVE  [use |-> uses + i, tool |-> turn[i], answered |-> FALSE] \in Blocks
    BY <1>0, <1>1, <1>2, <1>4, AgentAssumption DEF Blocks
  <2>2. QED
    BY <2>1, <1>4
<1>6. a.hist \o new \in Seq(Blocks) /\ Len(a.hist \o new) = Len(a.hist) + n
      /\ Len(a.hist) \in Nat
  <2>1. a.hist \in Seq(Blocks)
    BY <1>1
  <2> HIDE DEF new, a
  <2>2. QED
    BY <2>1, <1>5, ConcatType
<1>7. att'[s] = [a EXCEPT !.phase = "blocks", !.from = Len(a.hist) + 1,
                          !.blk = Len(a.hist) + 1, !.hist = a.hist \o new]
      /\ att' = [att EXCEPT ![s] = att'[s]]
  BY <1>1, <1>2 DEF Advance
<1>8. att'[s] \in Attempts /\ att'[s].phase = "blocks" /\ att'[s].grant = a.grant
      /\ att'[s].res = a.res /\ att'[s].blk = Len(a.hist) + 1
      /\ att'[s].hist = a.hist \o new
  <2> DEFINE k == Len(a.hist) + 1
  <2> DEFINE h == a.hist \o new
  <2>1. k \in Nat \ {0} /\ h \in Seq(Blocks) /\ a \in Attempts
    BY <1>1, <1>6
  <2>2. att'[s] = [a EXCEPT !.phase = "blocks", !.from = k, !.blk = k, !.hist = h]
    BY <1>7
  <2> HIDE DEF k, h, a
  <2>3. att'[s] \in Attempts /\ att'[s].phase = "blocks" /\ att'[s].grant = a.grant
        /\ att'[s].res = a.res /\ att'[s].blk = k /\ att'[s].hist = h
    BY <2>1, <2>2 DEF Attempts
  <2>4. QED
    BY <2>3 DEF k, h
<1>9. att'[s].blk \in DOMAIN att'[s].hist
  <2> HIDE DEF new
  <2>1. QED
    BY <1>4, <1>6, <1>8
<1>10. /\ att' \in [Slots -> Attempts]
       /\ \A q \in Slots : q # s => att'[q] = att[q]
  BY <1>1, <1>7, <1>8
<1> HIDE DEF new
<1>11. QED
  BY <1>1, <1>3, <1>4, <1>8, <1>9, <1>10, QuietAttempt

LEMMA AskApprovalIInv ==
  ASSUME IInv, NEW s \in Slots, AskApproval(s)
  PROVE  IInv'
<1> DEFINE a == att[s]
<1> DEFINE t == a.hist[a.blk].tool
<1>1. TypeOK /\ StoreTypeOK /\ a \in Attempts /\ a.phase = "blocks"
  BY DEF IInv, TypeOK, AskApproval
<1>2. a.hist \in Seq(Blocks) /\ a.blk \in DOMAIN a.hist
  BY <1>1, AttemptFacts DEF IInv, Cursor
<1>3. t \in Tools
  BY <1>2, BlockFacts
<1>4. StoreHITLApproval(t) /\ Return(s, a.hist, Result(FALSE, FALSE, nextId))
      /\ UNCHANGED <<wfVars, uses, faults, runs, grants, signalled>>
  BY DEF AskApproval
<1> HIDE DEF t
<1>5. nextId \in Ids /\ StoreTypeOK'
  BY <1>1, <1>3, <1>4, StoreApprovalType DEF StoreHITLApproval
<1>6. /\ att' \in [Slots -> Attempts] /\ att'[s].phase = "result"
      /\ att'[s].grant = att[s].grant /\ att'[s].res.ask = nextId
      /\ \A q \in Slots : q # s => att'[q] = att[q]
  BY <1>1, <1>2, <1>4, <1>5, ReturnType
<1>7. uses' \in 0..MaxUses /\ faults' \in [FaultKinds -> Nat] /\ runs' \in Seq(Runs)
  BY <1>1, <1>4 DEF TypeOK
<1>8. \A i \in DOMAIN runs' : [tool |-> runs'[i].tool, id |-> runs'[i].id] \in grants
  BY <1>4 DEF IInv, RunsAreGranted
<1>9. QED
  BY <1>1, <1>3, <1>4, <1>5, <1>6, <1>7, <1>8, AttemptKeeps

(* Answering a block with an error keeps the cursor inside the turn. *)
LEMMA AnswerWithErrorType ==
  ASSUME TypeOK, NEW s \in Slots, AnswerWithError(s), att[s].blk \in DOMAIN att[s].hist,
         att[s].phase = "blocks"
  PROVE  /\ att' \in [Slots -> Attempts]
         /\ att'[s].phase # "idle"
         /\ att'[s].phase = "blocks" => att'[s].blk \in DOMAIN att'[s].hist
         /\ att'[s].grant = att[s].grant
         /\ att'[s].res.ask \in {0, att[s].res.ask}
         /\ \A q \in Slots : q # s => att'[q] = att[q]
<1> DEFINE a == att[s]
<1>1. a \in Attempts /\ a.hist \in Seq(Blocks) /\ a.blk \in Nat \ {0}
      /\ att \in [Slots -> Attempts]
  BY AttemptFacts DEF TypeOK
<1>2. Answer(a.hist, a.from..Len(a.hist)) \in Seq(Blocks)
  BY <1>1, AnswerType
<1>3. CASE a.blk < Len(a.hist)
  <2> DEFINE k == a.blk + 1
  <2>1. att' = [att EXCEPT ![s] = [a EXCEPT !.blk = k]]
    BY <1>3 DEF AnswerWithError, Advance
  <2>2. k \in DOMAIN a.hist /\ k \in Nat \ {0}
    BY <1>1, <1>3
  <2> HIDE DEF k
  <2>3. att'[s] = [a EXCEPT !.blk = k]
    BY <2>1, <1>1
  <2>4. [a EXCEPT !.blk = k] \in Attempts
    BY <2>2, <1>1 DEF Attempts
  <2>5. att'[s].blk = k /\ att'[s].hist = a.hist /\ att'[s].phase = a.phase
        /\ att'[s].grant = a.grant /\ att'[s].res = a.res
    BY <2>3, <1>1 DEF Attempts
  <2>6. QED
    BY <2>1, <2>2, <2>4, <2>5, <1>1
<1>4. CASE ~(a.blk < Len(a.hist)) /\ a.loop + 1 < MaxIterations
  <2> DEFINE h == Answer(a.hist, a.from..Len(a.hist))
  <2> DEFINE n == a.loop + 1
  <2>1. att' = [att EXCEPT ![s] = [a EXCEPT !.phase = "model", !.loop = n, !.hist = h]]
    BY <1>4 DEF AnswerWithError, Advance
  <2>2. h \in Seq(Blocks) /\ n \in Nat
    BY <1>1, <1>2 DEF Attempts
  <2> HIDE DEF h, n
  <2>3. [a EXCEPT !.phase = "model", !.loop = n, !.hist = h] \in Attempts
    BY <1>1, <2>2 DEF Attempts
  <2>4. att'[s] = [a EXCEPT !.phase = "model", !.loop = n, !.hist = h]
    BY <2>1, <1>1
  <2>5. att'[s].phase = "model" /\ att'[s].grant = a.grant /\ att'[s].res = a.res
    BY <2>4, <1>1 DEF Attempts
  <2>6. QED
    BY <2>1, <2>3, <2>5, <1>1
<1>5. CASE ~(a.blk < Len(a.hist)) /\ ~(a.loop + 1 < MaxIterations)
  <2>1. Return(s, Answer(a.hist, a.from..Len(a.hist)), Result(TRUE, FALSE, 0))
    BY <1>5 DEF AnswerWithError
  <2>2. QED
    BY <2>1, <1>2, ReturnType
<1>6. QED
  BY <1>3, <1>4, <1>5

LEMMA StoreFailedIInv ==
  ASSUME IInv, NEW s \in Slots, StoreFailed(s)
  PROVE  IInv'
<1> DEFINE t == att[s].hist[att[s].blk].tool
<1>1. /\ TypeOK /\ StoreTypeOK /\ att[s].phase = "blocks"
      /\ AnswerWithError(s)
      /\ \/ Fault("store_failed") /\ UNCHANGED storeVars
         \/ Fault("store_reply_lost") /\ StoreHITLApproval(t)
      /\ UNCHANGED <<wfVars, uses, runs, grants, signalled>>
  BY DEF IInv, TypeOK, StoreFailed
<1>2. att[s].hist \in Seq(Blocks) /\ att[s].blk \in DOMAIN att[s].hist
  BY <1>1, AttemptFacts DEF IInv, Cursor, TypeOK
<1>3. t \in Tools
  BY <1>2, BlockFacts
<1> HIDE DEF t
<1>4. StoreTypeOK'
  BY <1>1, <1>3, StoreApprovalType DEF StoreTypeOK, storeVars
<1>5. faults' \in [FaultKinds -> Nat]
  BY <1>1, FaultType DEF TypeOK, FaultKinds
<1>6. uses' \in 0..MaxUses /\ runs' \in Seq(Runs)
  BY <1>1 DEF TypeOK
<1>7. \A i \in DOMAIN runs' : [tool |-> runs'[i].tool, id |-> runs'[i].id] \in grants
  BY <1>1 DEF IInv, RunsAreGranted
<1>8. /\ att' \in [Slots -> Attempts]
      /\ att'[s].phase # "idle"
      /\ att'[s].phase = "blocks" => att'[s].blk \in DOMAIN att'[s].hist
      /\ att'[s].grant = att[s].grant
      /\ att'[s].res.ask \in {0, att[s].res.ask}
      /\ \A q \in Slots : q # s => att'[q] = att[q]
  BY <1>1, <1>2, AnswerWithErrorType
<1>9. \/ UNCHANGED storeVars /\ att'[s].res.ask \in {0, att[s].res.ask}
      \/ /\ StoreHITLApproval(t)
         /\ att'[s].res.ask \in {0, att[s].res.ask, nextId}
  BY <1>1, <1>8
<1>10. QED
  BY <1>1, <1>3, <1>4, <1>5, <1>6, <1>7, <1>8, <1>9, AttemptKeeps

LEMMA AttemptStepIInv ==
  ASSUME IInv, NEW s \in Slots, AttemptStep(s)
  PROVE  IInv'
  BY BuildFailedIInv, ResumeApprovedIInv, ModelErrorIInv, EndTurnIInv, ToolUseIInv, AskApprovalIInv,
     StoreFailedIInv DEF AttemptStep

----------------------------------------------------------------------------
(* The actions of reviewers and of the initiator: they move the store and  *)
(* at most the decision slot, and an "approved" there is counted.          *)

LEMMA OutsideKeeps ==
  ASSUME IInv, StoreTypeOK',
         UNCHANGED <<asked, nextId, pc, iter, grant, hist, waitFor, events, final,
                     attempts, att, uses, runs, grants>>,
         faults' \in [FaultKinds -> Nat],
         decision' \in Decisions \union {"none"},
         \/ decision' = decision /\ signalled' = signalled
         \/ decision' # "approved" /\ signalled' = signalled
         \/ signalled' = signalled + 1
  PROVE  IInv'
<1>1. signalled \in Nat /\ signalled' \in Nat /\ signalled <= signalled'
  BY DEF IInv, TypeOK
<1>2. TypeOK'
  BY <1>1 DEF IInv, TypeOK
<1>3. Cardinality(grants) \in Nat /\ Cardinality(grants) <= signalled
  BY FS_CardinalityType DEF IInv, Granted, RunsAreGranted
<1>4. Cursor' /\ Budget' /\ Asked' /\ Pending'
  BY DEF IInv, Cursor, Budget, Asked, Pending
<1>5. Granted'
  BY <1>1, <1>3 DEF IInv, Granted
<1>6. RunsAreGranted'
  BY <1>1, <1>3 DEF IInv, RunsAreGranted
<1>7. QED
  BY <1>2, <1>4, <1>5, <1>6 DEF IInv

LEMMA ReviewIInv ==
  ASSUME IInv, NEW r \in Reviewers, Review(r)
  PROVE  IInv'
<1>1. StoreTypeOK'
  BY ReviewerStepType DEF Review, IInv, TypeOK
<1>2. UNCHANGED <<asked, nextId>>
  BY DEF Review, ReviewerStep, HandlerStep, RefuseDecision, CheckPending, WriteStatus,
     FinishWrite, storeVars
<1>3. UNCHANGED <<wfVars, att, uses, faults, runs, grants, signalled>>
  BY DEF Review
<1>4. faults' \in [FaultKinds -> Nat] /\ decision' \in Decisions \union {"none"}
  BY <1>3 DEF IInv, TypeOK, wfVars
<1>5. QED
  BY <1>1, <1>2, <1>3, <1>4, OutsideKeeps DEF wfVars

LEMMA SignalIInv ==
  ASSUME IInv, NEW r \in Reviewers, Signal(r)
  PROVE  IInv'
<1>1. TypeOK /\ StoreTypeOK /\ SendSignal(r)
  BY DEF IInv, TypeOK, Signal
<1>2. StoreTypeOK' /\ UNCHANGED <<asked, nextId>>
  BY <1>1, SendSignalType DEF SendSignal
<1>3. rev[r].verdict \in Decisions
  BY <1>1, BusyReviewer DEF SendSignal
<1>4. faults' \in [FaultKinds -> Nat]
  BY <1>1, FaultType DEF Signal, TypeOK, FaultKinds
<1>5. /\ decision' \in Decisions \union {"none"}
      /\ \/ decision' = decision /\ signalled' = signalled
         \/ decision' # "approved" /\ signalled' = signalled
         \/ signalled' = signalled + 1
  BY <1>1, <1>3 DEF Signal, TypeOK
<1>6. UNCHANGED <<pc, iter, grant, hist, waitFor, events, final, attempts, att,
                  uses, runs, grants>>
  BY DEF Signal
<1>7. QED
  BY <1>2, <1>4, <1>5, <1>6, OutsideKeeps

LEMMA RestartIInvAgent ==
  ASSUME IInv, Restart
  PROVE  IInv'
<1>1. TypeOK /\ StoreTypeOK /\ RestartInitiator
      /\ UNCHANGED <<wfVars, att, uses, runs, grants, signalled>>
  BY DEF IInv, TypeOK, Restart
<1>2. StoreTypeOK' /\ UNCHANGED <<asked, nextId>>
  BY <1>1, RestartType DEF RestartInitiator
<1>3. faults' \in [FaultKinds -> Nat]
  BY <1>1, FaultType DEF Restart, TypeOK, FaultKinds
<1>4. decision' \in Decisions \union {"none"}
  BY <1>1 DEF TypeOK, wfVars
<1>5. QED
  BY <1>1, <1>2, <1>3, <1>4, OutsideKeeps DEF wfVars

----------------------------------------------------------------------------
(* The actions of the workflow.                                            *)

LEMMA EventsType ==
  ASSUME TypeOK
  PROVE  /\ events \o <<"text", "done">> \in Seq({"thinking", "approval", "text", "done"})
         /\ Append(events, "approval") \in Seq({"thinking", "approval", "text", "done"})
<1>1. events \in Seq({"thinking", "approval", "text", "done"})
  BY DEF TypeOK
<1>2. <<"text", "done">> \in Seq({"thinking", "approval", "text", "done"})
  OBVIOUS
<1>3. QED
  BY <1>1, <1>2

LEMMA SetUpIInv ==
  ASSUME IInv, SetUp
  PROVE  IInv'
<1>1. TypeOK /\ UNCHANGED <<storeVars, iter, decision, grant, hist, waitFor, final,
                           attempts, att, uses, runs, grants, signalled>>
  BY DEF IInv, SetUp
<1>2. events' \in Seq({"thinking", "approval", "text", "done"})
  <2>1. events' = <<>> \/ events' = <<"thinking">>
    BY DEF SetUp
  <2>2. <<>> \in Seq({"thinking", "approval", "text", "done"})
        /\ <<"thinking">> \in Seq({"thinking", "approval", "text", "done"})
    OBVIOUS
  <2>3. QED
    BY <2>1, <2>2
<1>3. pc = "setup" /\ pc' \in {"schedule", "failed"} /\ faults' \in [FaultKinds -> Nat]
  BY <1>1, FaultType DEF SetUp, TypeOK, FaultKinds
<1>4. StoreTypeOK' /\ asked' = asked /\ nextId' = nextId
  BY <1>1 DEF TypeOK, StoreTypeOK, storeVars
<1>5. TypeOK'
  BY <1>1, <1>2, <1>3, <1>4 DEF TypeOK
<1>6. Cursor' /\ Budget' /\ Asked' /\ Pending' /\ Granted' /\ RunsAreGranted'
  BY <1>1, <1>3, <1>4
  DEF IInv, Cursor, Budget, Asked, Pending, Granted, RunsAreGranted
<1>7. QED
  BY <1>5, <1>6 DEF IInv

LEMMA ScheduleIInv ==
  ASSUME IInv, Schedule
  PROVE  IInv'
<1>1. TypeOK /\ pc = "schedule" /\ pc' = "activity"
      /\ UNCHANGED <<storeVars, decision, grant, hist, waitFor, events, final, uses,
                     faults, runs, grants, signalled>>
  BY DEF IInv, Schedule
<1>2. StoreTypeOK' /\ asked' = asked /\ nextId' = nextId
  BY <1>1 DEF TypeOK, StoreTypeOK, storeVars
<1>3. iter' \in 0..MaxIterations /\ attempts' \in 0..MaxAttempts
  BY <1>1, AgentAssumption DEF Schedule, IInv, Budget, TypeOK
<1>4. hist \in Seq(Blocks) /\ grant \in Grants \union {NoGrant}
      /\ att \in [Slots -> Attempts] /\ "current" \in Slots
  BY <1>1 DEF TypeOK, Slots
<1> DEFINE n == NewAttempt(hist, grant)
<1>5. n \in Attempts /\ n.phase = "start" /\ n.grant = grant /\ n.res.ask = 0
  BY <1>4, NewAttemptType
<1>6. att' = [att EXCEPT !["current"] = n]
  BY DEF Schedule
<1> HIDE DEF n
<1>7. att' \in [Slots -> Attempts]
      /\ att'["current"] = n
      /\ \A q \in Slots : q # "current" => att'[q] = att[q]
  BY <1>4, <1>5, <1>6
<1>8. TypeOK'
  BY <1>1, <1>2, <1>3, <1>7 DEF TypeOK
<1>9. Cursor' /\ Budget' /\ Asked'
  BY <1>1, <1>2, <1>5, <1>7 DEF IInv, Cursor, Budget, Asked
<1>10. Pending'
  <2>1. 0 < nextId /\ \A g \in grants : g.id # 0
    BY <1>1, GrantFacts DEF TypeOK, StoreTypeOK
  <2>2. QED
    BY <2>1, <1>1, <1>2, <1>5, <1>7 DEF IInv, Pending
<1>11. Granted' /\ RunsAreGranted'
  BY <1>1, <1>5, <1>7 DEF IInv, Granted, RunsAreGranted
<1>12. QED
  BY <1>8, <1>9, <1>10, <1>11 DEF IInv

LEMMA ProcessDecisionIInv ==
  ASSUME IInv, ProcessDecision
  PROVE  IInv'
<1> DEFINE a == att["current"]
<1>1. /\ TypeOK /\ pc = "activity"
      /\ att' = [att EXCEPT !["current"] = IdleAttempt]
      /\ hist' = a.hist
      /\ UNCHANGED <<storeVars, iter, attempts, uses, faults, runs, grants, signalled>>
  BY DEF IInv, ProcessDecision
<1>2. att \in [Slots -> Attempts] /\ "current" \in Slots
  BY <1>1, Zenon DEF TypeOK, Slots
<1>3. a \in Attempts /\ a.hist \in Seq(Blocks) /\ a.res.ask \in Ids \union {0}
  BY <1>2 DEF Attempts
<1>4. /\ IdleAttempt \in Attempts /\ IdleAttempt.phase = "idle"
      /\ IdleAttempt.grant = NoGrant /\ IdleAttempt.res.ask = 0
  BY <1>3, NewAttemptType
<1>5. /\ att' \in [Slots -> Attempts] /\ att'["current"] = IdleAttempt
      /\ \A q \in Slots : q # "current" => att'[q] = att[q]
  BY <1>1, <1>2, <1>4
<1>6. StoreTypeOK' /\ asked' = asked /\ nextId' = nextId
  BY <1>1 DEF TypeOK, StoreTypeOK, storeVars
<1>7. \/ /\ a.res.ask # 0 /\ pc' = "waiting" /\ waitFor' = a.res.ask
         /\ decision' = "none" /\ events' = Append(events, "approval")
         /\ grant' = grant /\ final' = final
      \/ /\ waitFor' = waitFor /\ decision' = decision
         /\ \/ /\ pc' = "completed" /\ final' \in {"answer", "exceeded"} /\ grant' = NoGrant
               /\ events' = events \o <<"text", "done">>
            \/ /\ iter # MaxIterations /\ pc' = "schedule"
               /\ grant' = grant /\ events' = events /\ final' = final
  BY DEF ProcessDecision, Announce, Finish, LastIteration
<1>8. TypeOK'
  BY <1>1, <1>3, <1>5, <1>6, <1>7, EventsType DEF TypeOK
<1>9. Cursor'
  BY <1>4, <1>5 DEF IInv, Cursor
<1>10. Budget'
  <2>1. iter \in 0..MaxIterations /\ iter' = iter /\ MaxIterations \in Nat
    BY <1>1, AgentAssumption DEF TypeOK
  <2>2. QED
    BY <2>1, <1>1, <1>7 DEF Budget
<1>11. Asked'
  <2>1. a.res.ask < nextId
    BY DEF IInv, Pending
  <2>2. QED
    BY <2>1, <1>1, <1>6, <1>7 DEF IInv, Asked
<1>12. Pending'
  <2>1. 0 < nextId /\ \A g \in grants : g.id # 0
    BY <1>1, GrantFacts DEF TypeOK, StoreTypeOK
  <2>2. QED
    BY <2>1, <1>1, <1>4, <1>5, <1>6 DEF IInv, Pending
<1>13. Granted'
  BY <1>1, <1>4, <1>5, <1>7 DEF IInv, Granted
<1>14. RunsAreGranted'
  BY <1>1 DEF IInv, RunsAreGranted
<1>15. QED
  BY <1>8, <1>9, <1>10, <1>11, <1>12, <1>13, <1>14 DEF IInv

LEMMA ReviewedIInv ==
  ASSUME IInv, Reviewed
  PROVE  IInv'
<1> DEFINE g == [tool |-> asked[waitFor], id |-> waitFor]
<1>1. /\ TypeOK /\ pc = "waiting"
      /\ UNCHANGED <<storeVars, iter, decision, hist, waitFor, attempts, att, uses,
                     faults, runs, signalled>>
  BY DEF IInv, Reviewed
<1>2. StoreTypeOK' /\ asked' = asked /\ nextId' = nextId
  BY <1>1 DEF TypeOK, StoreTypeOK, storeVars
<1>3. waitFor \in Ids /\ waitFor < nextId /\ g \in Grants
  BY <1>1 DEF IInv, TypeOK, Asked, Grants
<1>4. \/ /\ decision = "approved" /\ grants' = grants \union {g}
         /\ \/ /\ pc' = "completed" /\ final' = "exceeded" /\ grant' = NoGrant
               /\ events' = events \o <<"text", "done">>
            \/ /\ iter # MaxIterations /\ pc' = "schedule"
               /\ grant' = g /\ events' = events /\ final' = final
      \/ /\ pc' = "completed" /\ final' = "denied" /\ grant' = NoGrant
         /\ events' = events \o <<"text", "done">> /\ grants' = grants
  BY DEF Reviewed, Finish, LastIteration
<1>5. g.id = waitFor
  OBVIOUS
<1> HIDE DEF g
<1>6. TypeOK'
  BY <1>1, <1>2, <1>3, <1>4, EventsType DEF TypeOK
<1>7. Cursor' /\ Asked'
  BY <1>1, <1>2, <1>4 DEF IInv, Cursor, Asked
<1>8. Budget'
  <2>1. iter \in 0..MaxIterations /\ iter' = iter /\ MaxIterations \in Nat
    BY <1>1, AgentAssumption DEF TypeOK
  <2>2. QED
    BY <2>1, <1>1, <1>4 DEF Budget
<1>9. Pending'
  <2>1. att'["current"].phase = "idle" /\ att'["current"].res.ask = 0
    BY <1>1 DEF IInv, Pending
  <2>2. waitFor # 0 /\ \A h \in grants : h.id < nextId /\ h.id # 0
    BY <1>1, <1>3, GrantFacts DEF IInv, Pending, Asked
  <2>3. grants' = grants \/ grants' = grants \union {g}
    BY <1>4
  <2>4. QED
    BY <2>1, <2>2, <2>3, <1>1, <1>2, <1>3, <1>5 DEF IInv, Pending, TypeOK, StoreTypeOK
<1>10. Granted' /\ RunsAreGranted'
  <2>1. CASE grants' = grants
    BY <2>1, <1>1, <1>4 DEF IInv, Granted, RunsAreGranted
  <2>2. CASE decision = "approved" /\ grants' = grants \union {g}
    <3>1. /\ IsFiniteSet(grants) /\ Cardinality(grants) \in Nat
          /\ signalled \in Nat /\ Cardinality(grants) < signalled
      BY <2>2, <1>1, FS_CardinalityType DEF IInv, Granted, TypeOK
    <3>2. IsFiniteSet(grants') /\ Cardinality(grants') <= Cardinality(grants) + 1
      BY <2>2, <3>1, FS_AddElement
    <3>3. Cardinality(grants') \in Nat
      BY <3>2, FS_CardinalityType
    <3>4. Cardinality(grants') <= signalled'
      BY <3>1, <3>2, <3>3, <1>1
    <3>5. Granted'
      BY <2>2, <3>2, <1>1, <1>4 DEF IInv, Granted
    <3>6. RunsAreGranted'
      BY <2>2, <3>4, <1>1 DEF IInv, RunsAreGranted
    <3>7. QED
      BY <3>5, <3>6
  <2>3. QED
    BY <2>1, <2>2, <1>4
<1>11. QED
  BY <1>6, <1>7, <1>8, <1>9, <1>10 DEF IInv

LEMMA ApprovalTimeoutIInv ==
  ASSUME IInv, ApprovalTimeout
  PROVE  IInv'
<1>1. /\ TypeOK /\ pc = "waiting"
      /\ pc' = "completed" /\ final' = "timeout" /\ grant' = NoGrant
      /\ events' = events \o <<"text", "done">>
      /\ UNCHANGED <<storeVars, iter, decision, hist, waitFor, attempts, att, uses,
                     faults, runs, grants, signalled>>
  BY DEF IInv, ApprovalTimeout, Finish
<1>2. StoreTypeOK' /\ asked' = asked /\ nextId' = nextId
  BY <1>1 DEF TypeOK, StoreTypeOK, storeVars
<1>3. TypeOK'
  BY <1>1, <1>2, EventsType DEF TypeOK
<1>4. Cursor' /\ Budget' /\ Asked' /\ Pending' /\ Granted' /\ RunsAreGranted'
  BY <1>1, <1>2
  DEF IInv, Cursor, Budget, Asked, Pending, Granted, RunsAreGranted
<1>5. QED
  BY <1>3, <1>4 DEF IInv

LEMMA AttemptTimeoutIInv ==
  ASSUME IInv, AttemptTimeout
  PROVE  IInv'
<1>1. /\ TypeOK /\ pc = "activity" /\ pc' \in {"activity", "failed"}
      /\ UNCHANGED <<storeVars, iter, decision, grant, hist, waitFor, events, final,
                     uses, runs, grants, signalled>>
  BY DEF IInv, AttemptTimeout
<1>2. StoreTypeOK' /\ asked' = asked /\ nextId' = nextId
  BY <1>1 DEF TypeOK, StoreTypeOK, storeVars
<1>3. faults' \in [FaultKinds -> Nat]
  BY <1>1, FaultType DEF AttemptTimeout, TypeOK, FaultKinds
<1>4. attempts' \in 0..MaxAttempts
  BY <1>1, AgentAssumption DEF AttemptTimeout, TypeOK
<1>5. hist \in Seq(Blocks) /\ grant \in Grants \union {NoGrant}
  BY <1>1 DEF TypeOK
<1>6. att \in [Slots -> Attempts] /\ "current" \in Slots /\ att["current"] \in Attempts
  BY <1>1, Zenon DEF TypeOK, Slots
<1>7. PICK n \in Attempts :
        /\ n.phase # "blocks" /\ n.res.ask = 0 /\ n.grant \in {grant, NoGrant}
        /\ pc' # "activity" => n.phase = "idle"
        /\ att' = [s \in Slots |-> IF s = "current" THEN n ELSE att["current"]]
  <2>1. CASE attempts < MaxAttempts
    <3>1. att' = [s \in Slots |-> IF s = "current" THEN NewAttempt(hist, grant)
                                                  ELSE att["current"]]
          /\ pc' = "activity"
      BY <2>1, <1>1 DEF AttemptTimeout
    <3>2. QED
      BY <3>1, <1>5, NewAttemptType
  <2>2. CASE ~(attempts < MaxAttempts)
    <3>1. att' = [s \in Slots |-> IF s = "current" THEN IdleAttempt
                                                  ELSE att["current"]]
      BY <2>2 DEF AttemptTimeout
    <3>2. QED
      BY <3>1, <1>5, NewAttemptType
  <2>3. QED
    BY <2>1, <2>2
<1>8. /\ att' \in [Slots -> Attempts]
      /\ att'["current"] = n
      /\ \A s \in Slots : s # "current" => att'[s] = att["current"]
  BY <1>6, <1>7
<1>9. TypeOK'
  BY <1>1, <1>2, <1>3, <1>4, <1>8 DEF TypeOK
<1>10. Cursor' /\ Budget' /\ Asked'
  BY <1>1, <1>2, <1>6, <1>7, <1>8 DEF IInv, Cursor, Budget, Asked
<1>11. Pending'
  <2>1. 0 < nextId /\ \A g \in grants : g.id # 0
    BY <1>1, GrantFacts DEF TypeOK, StoreTypeOK
  <2>2. QED
    BY <2>1, <1>1, <1>2, <1>7, <1>8 DEF IInv, Pending
<1>12. Granted' /\ RunsAreGranted'
  BY <1>1, <1>6, <1>7, <1>8 DEF IInv, Granted, RunsAreGranted
<1>13. QED
  BY <1>9, <1>10, <1>11, <1>12 DEF IInv

LEMMA NextIInv == IInv /\ [Next]_vars => IInv'
<1> SUFFICES ASSUME IInv, [Next]_vars PROVE IInv'
  OBVIOUS
<1>1. CASE UNCHANGED vars
  <2>1. TypeOK'
    BY <1>1 DEF IInv, TypeOK, StoreTypeOK, vars, storeVars, wfVars
  <2>2. QED
    BY <1>1, <2>1 DEF IInv, Cursor, Budget, Asked, Pending, Granted, RunsAreGranted,
       vars, storeVars, wfVars
<1>2. CASE Next
  BY <1>2, SetUpIInv, ScheduleIInv, ProcessDecisionIInv, ReviewedIInv,
     ApprovalTimeoutIInv, AttemptTimeoutIInv, AttemptStepIInv, ReviewIInv, SignalIInv,
     RestartIInvAgent
  DEF Next, Workflow
<1>3. QED
  BY <1>1, <1>2

(* The variables of a session keep their types. *)
THEOREM AgentTypeCorrect == Spec => []TypeOK
<1>1. IInv => TypeOK
  BY DEF IInv
<1>2. QED
  BY <1>1, AgentInitIInv, NextIInv, PTL DEF Spec

(* Every tool run is under a grant of its own tool, and every grant took   *)
(* an approving signal of its own, whatever is retried, lost or restarted. *)
THEOREM EveryRunIsGranted == Spec => []RunsAreGranted
<1>1. IInv => RunsAreGranted
  BY DEF IInv
<1>2. QED
  BY <1>1, AgentInitIInv, NextIInv, PTL DEF Spec

----------------------------------------------------------------------------
(* A session implements the approval gate.                                 *)

(* The request of a pause keeps its tool while other requests are stored. *)
LEMMA AskingStable ==
  ASSUME IInv, waitFor' = waitFor,
         asked' = asked \/ \E t \in Tools : StoreHITLApproval(t)
  PROVE  Asking' = Asking
<1>1. waitFor \in Ids => asked'[waitFor] = asked[waitFor]
  <2>1. CASE asked' = asked
    BY <2>1
  <2>2. ASSUME NEW t \in Tools, StoreHITLApproval(t), waitFor \in Ids
        PROVE  asked'[waitFor] = asked[waitFor]
    <3>1. waitFor < nextId /\ waitFor \in Nat /\ nextId \in Nat
          /\ asked \in [Ids -> Tools \union {NoTool}]
      BY <2>2 DEF IInv, Asked, TypeOK, StoreTypeOK, Ids
    <3>2. QED
      BY <2>2, <3>1 DEF StoreHITLApproval
  <2>3. QED
    BY <2>1, <2>2
<1>2. QED
  BY <1>1 DEF Asking

(* Steps that neither pause, grant nor run are stutters of the gate, or    *)
(* its end.                                                                *)
LEMMA GateStutters ==
  ASSUME IInv, waitFor' = waitFor, grants' = grants, runs' = runs,
         asked' = asked \/ \E t \in Tools : StoreHITLApproval(t),
         pc' = pc
  PROVE  UNCHANGED Gate!gateVars
<1>1. Asking' = Asking
  BY AskingStable
<1>2. GatePhase' = GatePhase
  BY DEF GatePhase, Closed
<1>3. QED
  BY <1>1, <1>2 DEF Gate!gateVars

LEMMA GateEnds ==
  ASSUME IInv, waitFor' = waitFor, grants' = grants, runs' = runs, asked' = asked,
         pc \notin {"completed", "failed"}, pc' \in {"completed", "failed"}
  PROVE  Gate!End
<1>1. Asking' = Asking
  BY AskingStable
<1>2. GatePhase # "over" /\ GatePhase' = "over"
  BY DEF GatePhase, Closed
<1>3. QED
  BY <1>1, <1>2 DEF Gate!End

LEMMA GateGoesOn ==
  ASSUME IInv, waitFor' = waitFor, grants' = grants, runs' = runs, asked' = asked,
         pc \in {"setup", "schedule", "activity"},
         pc' \in {"setup", "schedule", "activity"}
  PROVE  UNCHANGED Gate!gateVars
<1>1. Asking' = Asking
  BY AskingStable
<1>2. GatePhase = "running" /\ GatePhase' = "running"
  BY DEF GatePhase, Closed
<1>3. QED
  BY <1>1, <1>2 DEF Gate!gateVars

LEMMA ProcessDecisionGate ==
  ASSUME IInv, IInv', ProcessDecision
  PROVE  [Gate!GateNext]_(Gate!gateVars)
<1> DEFINE ask == att["current"].res.ask
<1>1. pc = "activity" /\ grants' = grants /\ runs' = runs /\ asked' = asked
  BY DEF ProcessDecision, storeVars
<1>2. \/ ask # 0 /\ pc' = "waiting" /\ waitFor' = ask
      \/ waitFor' = waitFor /\ pc' \in {"completed", "schedule"}
  BY DEF ProcessDecision, Announce, Finish, LastIteration
<1>3. CASE ask # 0 /\ pc' = "waiting" /\ waitFor' = ask
  <2>1. waitFor' \in Ids /\ asked[waitFor'] \in Tools
    BY <1>1, <1>3 DEF IInv, TypeOK, Asked
  <2>2. \A g \in grants : g.id # waitFor'
    BY <1>3 DEF IInv, Pending
  <2>3. Asking' = [tool |-> asked[waitFor'], id |-> waitFor']
    BY <2>1, <1>1 DEF Asking
  <2>4. Asking' \in Gate!Requests \ grants
    BY <2>1, <2>2, <2>3 DEF Gate!Requests
  <2>5. GatePhase = "running" /\ GatePhase' = "paused"
    BY <1>1, <1>3 DEF GatePhase, Closed
  <2>6. Gate!Pause
    BY <2>4, <2>5, <1>1 DEF Gate!Pause
  <2>7. QED
    BY <2>6 DEF Gate!GateNext
<1>4. CASE waitFor' = waitFor /\ pc' = "completed"
  BY <1>1, <1>4, GateEnds DEF Gate!GateNext
<1>5. CASE waitFor' = waitFor /\ pc' = "schedule"
  BY <1>1, <1>5, GateGoesOn
<1>6. QED
  BY <1>2, <1>3, <1>4, <1>5

LEMMA ReviewedGate ==
  ASSUME IInv, Reviewed
  PROVE  Gate!GateNext
<1>1. /\ pc = "waiting" /\ waitFor' = waitFor /\ asked' = asked /\ runs' = runs
      /\ \/ /\ grants' = grants \union {[tool |-> asked[waitFor], id |-> waitFor]}
            /\ pc' \in {"completed", "schedule"}
         \/ grants' = grants /\ pc' = "completed"
  BY DEF Reviewed, Finish, storeVars
<1>2. Asking = [tool |-> asked[waitFor], id |-> waitFor]
  BY <1>1 DEF IInv, TypeOK, Asked, Asking
<1>3. CASE grants' = grants /\ pc' = "completed"
  BY <1>1, <1>3, GateEnds DEF Gate!GateNext
<1>4. CASE /\ grants' = grants \union {[tool |-> asked[waitFor], id |-> waitFor]}
           /\ pc' \in {"completed", "schedule"}
  <2>1. Asking' = Asking
    BY <1>1, AskingStable
  <2>2. GatePhase = "paused" /\ GatePhase' \in {"running", "over"}
    BY <1>1, <1>4 DEF GatePhase, Closed
  <2>3. Gate!Grant
    BY <2>1, <2>2, <1>1, <1>2, <1>4 DEF Gate!Grant
  <2>4. QED
    BY <2>3 DEF Gate!GateNext
<1>5. QED
  BY <1>1, <1>3, <1>4

LEMMA ResumeApprovedGate ==
  ASSUME IInv, NEW s \in Slots, ResumeApproved(s)
  PROVE  [Gate!GateNext]_(Gate!gateVars)
<1>1. /\ pc' = pc /\ waitFor' = waitFor /\ asked' = asked /\ grants' = grants
  BY DEF ResumeApproved, storeVars, wfVars
<1>2. Asking' = Asking /\ GatePhase' = GatePhase
  BY <1>1, AskingStable DEF GatePhase, Closed
<1>3. CASE runs' = runs
  BY <1>1, <1>3, GateStutters
<1>4. CASE runs' # runs
  <2>1. PICK b \in Resumable(att[s].hist, att[s].grant) :
          runs' = Append(runs, [use |-> att[s].hist[b].use, tool |-> att[s].hist[b].tool,
                                id |-> att[s].grant.id])
    BY <1>4 DEF ResumeApproved
  <2>2. att[s] \in Attempts /\ att[s].hist \in Seq(Blocks)
    BY AttemptFacts DEF IInv, TypeOK
  <2>3. att[s].hist[b] \in Blocks /\ att[s].hist[b].tool = att[s].grant.tool
    BY <2>2 DEF Resumable, Unanswered
  <2>4. att[s].hist[b].use \in 1..MaxUses /\ att[s].hist[b].tool \in Tools
    BY <2>3 DEF Blocks
  <2>5. att[s].grant \in grants
    BY <2>3, <2>4, StoreAssumption DEF IInv, Granted, NoGrant
  <2>6. \E g \in grants, u \in 1..MaxUses :
          runs' = Append(runs, [use |-> u, tool |-> g.tool, id |-> g.id])
    BY <2>1, <2>3, <2>4, <2>5
  <2>7. Gate!Run
    BY <2>6, <1>1, <1>2 DEF Gate!Run
  <2>8. QED
    BY <2>7 DEF Gate!GateNext
<1>5. QED
  BY <1>3, <1>4

LEMMA StepImplements == IInv /\ IInv' /\ [Next]_vars => [Gate!GateNext]_(Gate!gateVars)
<1> SUFFICES ASSUME IInv, IInv', [Next]_vars PROVE [Gate!GateNext]_(Gate!gateVars)
  OBVIOUS
<1>1. CASE UNCHANGED vars
  BY <1>1, GateStutters DEF vars, storeVars, wfVars
<1>2. CASE SetUp
  <2>1. waitFor' = waitFor /\ grants' = grants /\ runs' = runs /\ asked' = asked
        /\ pc = "setup" /\ pc' \in {"schedule", "failed"}
    BY <1>2 DEF SetUp, storeVars
  <2>2. QED
    BY <2>1, GateGoesOn, GateEnds DEF Gate!GateNext
<1>3. CASE Schedule
  BY <1>3, GateGoesOn DEF Schedule, storeVars
<1>4. CASE ProcessDecision
  BY <1>4, ProcessDecisionGate
<1>5. CASE Reviewed
  BY <1>5, ReviewedGate
<1>6. CASE ApprovalTimeout
  BY <1>6, GateEnds DEF ApprovalTimeout, Finish, storeVars, Gate!GateNext
<1>7. CASE AttemptTimeout
  <2>1. waitFor' = waitFor /\ grants' = grants /\ runs' = runs /\ asked' = asked
        /\ pc = "activity" /\ pc' \in {"activity", "failed"}
    BY <1>7 DEF AttemptTimeout, storeVars
  <2>2. QED
    BY <2>1, GateGoesOn, GateEnds DEF Gate!GateNext
<1>8. ASSUME NEW s \in Slots, AttemptStep(s)
      PROVE  [Gate!GateNext]_(Gate!gateVars)
  <2>1. CASE ResumeApproved(s)
    BY <2>1, ResumeApprovedGate
  <2>2. CASE BuildFailed(s) \/ ModelError(s) \/ EndTurn(s) \/ ToolUse(s)
    BY <2>2, GateStutters DEF BuildFailed, ModelError, EndTurn, ToolUse, wfVars, storeVars
  <2>3. CASE AskApproval(s) \/ StoreFailed(s)
    <3>1. att[s].phase = "blocks" /\ att[s] \in Attempts
      BY <2>3 DEF AskApproval, StoreFailed, IInv, TypeOK
    <3>2. att[s].hist[att[s].blk].tool \in Tools
      BY <3>1, AttemptFacts, BlockFacts DEF IInv, Cursor
    <3>3. waitFor' = waitFor /\ grants' = grants /\ runs' = runs /\ pc' = pc
      BY <2>3 DEF AskApproval, StoreFailed, wfVars
    <3>4. asked' = asked \/ StoreHITLApproval(att[s].hist[att[s].blk].tool)
      BY <2>3 DEF AskApproval, StoreFailed, storeVars
    <3>5. QED
      BY <3>2, <3>3, <3>4, GateStutters
  <2>4. QED
    BY <1>8, <2>1, <2>2, <2>3 DEF AttemptStep
<1>9. ASSUME NEW r \in Reviewers, Review(r) \/ Signal(r)
      PROVE  [Gate!GateNext]_(Gate!gateVars)
  <2>1. waitFor' = waitFor /\ grants' = grants /\ runs' = runs /\ pc' = pc
    BY <1>9 DEF Review, Signal, wfVars
  <2>2. asked' = asked
    BY <1>9 DEF Review, Signal, SendSignal, ReviewerStep, HandlerStep, RefuseDecision,
       CheckPending, WriteStatus, FinishWrite, storeVars
  <2>3. QED
    BY <2>1, <2>2, GateStutters
<1>10. CASE Restart
  BY <1>10, GateStutters DEF Restart, RestartInitiator, wfVars
<1>11. QED
  BY <1>1, <1>2, <1>3, <1>4, <1>5, <1>6, <1>7, <1>8, <1>9, <1>10 DEF Next, Workflow

(* Seen through its pauses, grants and tool runs, every session of the     *)
(* agent is a session of the approval gate.                                *)
THEOREM SessionImplementsGate == Spec => ImplementsGate
<1>1. Init => Gate!GateInit
  BY DEF Init, Gate!GateInit, GatePhase, Closed
<1>2. QED
  BY <1>1, AgentInitIInv, NextIInv, StepImplements, PTL
  DEF Spec, ImplementsGate, Gate!GateSpec

----------------------------------------------------------------------------
(* A session moves the approval store only through the store's own         *)
(* operations, so what is proved of the store holds in every session.      *)

LEMMA StepUsesStore == IInv /\ [Next]_vars => [StoreNext]_storeVars
<1> SUFFICES ASSUME IInv, [Next]_vars PROVE [StoreNext]_storeVars
  OBVIOUS
<1>1. CASE UNCHANGED vars
  BY <1>1 DEF vars
<1>2. CASE Workflow \/ AttemptTimeout
  BY <1>2 DEF Workflow, SetUp, Schedule, ProcessDecision, Reviewed, ApprovalTimeout,
     AttemptTimeout
<1>3. ASSUME NEW s \in Slots, AttemptStep(s) PROVE [StoreNext]_storeVars
  <2>1. CASE BuildFailed(s) \/ ResumeApproved(s) \/ ModelError(s) \/ EndTurn(s) \/ ToolUse(s)
    BY <2>1 DEF BuildFailed, ResumeApproved, ModelError, EndTurn, ToolUse
  <2>2. CASE AskApproval(s) \/ StoreFailed(s)
    <3>1. att[s].phase = "blocks" /\ att[s] \in Attempts
      BY <2>2 DEF AskApproval, StoreFailed, IInv, TypeOK
    <3>2. att[s].hist[att[s].blk].tool \in Tools
      BY <3>1, AttemptFacts, BlockFacts DEF IInv, Cursor
    <3>3. UNCHANGED storeVars \/ StoreHITLApproval(att[s].hist[att[s].blk].tool)
      BY <2>2 DEF AskApproval, StoreFailed
    <3>4. QED
      BY <3>2, <3>3 DEF StoreNext
  <2>3. QED
    BY <1>3, <2>1, <2>2 DEF AttemptStep
<1>4. ASSUME NEW r \in Reviewers, Review(r) \/ Signal(r) PROVE [StoreNext]_storeVars
  BY <1>4 DEF Review, Signal, StoreNext
<1>5. CASE Restart
  BY <1>5 DEF Restart, StoreNext
<1>6. QED
  BY <1>1, <1>2, <1>3, <1>4, <1>5 DEF Next

(* Every session implements the store's specification. *)
THEOREM SessionUsesStore == Spec => StoreSpec
<1>1. Init => StoreInit
  BY DEF Init
<1>2. QED
  BY <1>1, AgentInitIInv, NextIInv, StepUsesStore, PTL DEF Spec, StoreSpec

(* In every session, a request no two handlers decided together settles on *)
(* its decision, overlapping decisions are bounded by the handlers in      *)
(* flight, and a decided request never looks pending again.                *)
THEOREM SessionDecisionsHold ==
  Spec => /\ []SettledStatus
          /\ []DecisionsOverlap
          /\ NeverReopened
  BY SessionUsesStore, StatusSettles, DecisionsAreBounded, DecidedStaysClosed

----------------------------------------------------------------------------
(* The event log.  EventsTellTheSession needs to know that the request of  *)
(* a pause has not been granted before (else its grant would not be one    *)
(* more), that the log has begun once the loop runs, and that it is not    *)
(* closed early.                                                           *)
EventsSoFar ==
  /\ pc = "setup" => events = <<>> /\ grants = {}
  /\ pc = "waiting" => \A g \in grants : g.id # waitFor
  /\ pc \in {"schedule", "activity", "waiting"} => events # <<>>
  /\ pc # "completed" => \A i \in DOMAIN events : events[i] \notin {"text", "done"}

EventsIInv == EventsSoFar /\ EventsTellTheSession

(* How often a sequence hits a set: appending one element counts one more, *)
(* or none.                                                                *)
Hits(q, T) == {i \in DOMAIN q : q[i] \in T}

LEMMA CountAppend ==
  ASSUME NEW S, NEW q \in Seq(S), NEW e \in S, NEW T
  PROVE  /\ Cardinality(Hits(q, T)) \in Nat
         /\ Cardinality(Hits(Append(q, e), T))
              = Cardinality(Hits(q, T)) + (IF e \in T THEN 1 ELSE 0)
<1>1. Len(q) \in Nat /\ DOMAIN q = 1..Len(q) /\ Hits(q, T) \subseteq 1..Len(q)
  BY DEF Hits
<1>2. IsFiniteSet(Hits(q, T))
  <2>1. IsFiniteSet(1..Len(q))
    BY <1>1, FS_Interval
  <2>2. QED
    BY <1>1, <2>1, FS_Subset
<1>3. Cardinality(Hits(q, T)) \in Nat
  BY <1>2, FS_CardinalityType
<1>4. /\ DOMAIN Append(q, e) = DOMAIN q \union {Len(q) + 1}
      /\ Append(q, e)[Len(q) + 1] = e
      /\ \A i \in DOMAIN q : Append(q, e)[i] = q[i]
  OBVIOUS
<1>5. CASE e \in T
  <2>1. Hits(Append(q, e), T) = Hits(q, T) \union {Len(q) + 1} /\ Len(q) + 1 \notin Hits(q, T)
    BY <1>1, <1>4, <1>5 DEF Hits
  <2>2. QED
    BY <2>1, <1>2, <1>3, <1>5, FS_AddElement
<1>6. CASE e \notin T
  <2>1. Hits(Append(q, e), T) = Hits(q, T)
    BY <1>1, <1>4, <1>6 DEF Hits
  <2>2. QED
    BY <2>1, <1>3, <1>6
<1>7. QED
  BY <1>5, <1>6

LEMMA AnnouncedMore ==
  ASSUME TypeOK
  PROVE  /\ Announced(Append(events, "approval")) = Announced(events) + 1
         /\ Announced(events) \in Nat
<1> DEFINE E == {"thinking", "approval", "text", "done"}
<1> DEFINE T == {"approval"}
<1>1. \A p : Announced(p) = Cardinality(Hits(p, T))
  BY DEF Announced, Hits
<1>2. events \in Seq(E) /\ "approval" \in E /\ "approval" \in T
  BY DEF TypeOK
<1> HIDE DEF E, T
<1>3. /\ Cardinality(Hits(events, T)) \in Nat
      /\ Cardinality(Hits(Append(events, "approval"), T)) = Cardinality(Hits(events, T)) + 1
  BY <1>2, CountAppend
<1>4. QED
  BY <1>1, <1>3

(* What closes the log: "text" and "done", once, at its end. *)
LEMMA LogCloses ==
  ASSUME TypeOK, EventsSoFar, pc \notin {"completed", "setup"}, pc # "failed"
  PROVE  LET log == events \o <<"text", "done">> IN
         /\ Len(log) >= 3
         /\ log[Len(log)] = "done" /\ log[Len(log) - 1] = "text"
         /\ \A i \in DOMAIN log : /\ log[i] = "text" => i = Len(log) - 1
                                  /\ log[i] = "done" => i = Len(log)
<1> DEFINE log == events \o <<"text", "done">>
<1>1. events \in Seq({"thinking", "approval", "text", "done"}) /\ events # <<>>
  BY DEF TypeOK, EventsSoFar
<1>2. Len(events) \in Nat /\ Len(events) >= 1 /\ DOMAIN events = 1..Len(events)
  BY <1>1
<1>3. /\ Len(log) = Len(events) + 2
      /\ DOMAIN log = 1..(Len(events) + 2)
      /\ \A i \in DOMAIN events : log[i] = events[i]
      /\ log[Len(events) + 1] = "text" /\ log[Len(events) + 2] = "done"
  BY <1>1, <1>2
<1>4. \A i \in DOMAIN events : events[i] \notin {"text", "done"}
  BY DEF EventsSoFar
<1> HIDE DEF log
<1>5. ASSUME NEW i \in DOMAIN log
      PROVE  /\ log[i] = "text" => i = Len(log) - 1
             /\ log[i] = "done" => i = Len(log)
  <2>1. i \in DOMAIN events \/ i = Len(events) + 1 \/ i = Len(events) + 2
    BY <1>2, <1>3
  <2>2. QED
    BY <2>1, <1>2, <1>3, <1>4
<1>6. QED
  BY <1>2, <1>3, <1>5 DEF log

(* A step that leaves the workflow's own progress alone. *)
LEMMA EventsQuiet ==
  ASSUME EventsIInv, UNCHANGED <<pc, events, grants, final>>, pc = "waiting" => waitFor' = waitFor
  PROVE  EventsIInv'
  BY DEF EventsIInv, EventsSoFar, EventsTellTheSession, Announced

(* A step that closes the session with an answer. *)
LEMMA EventsFinish ==
  ASSUME IInv, EventsIInv, pc \in {"activity", "waiting"}, pc' = "completed",
         final' # "none", events' = events \o <<"text", "done">>
  PROVE  EventsIInv'
<1>1. LET log == events' IN
         /\ Len(log) >= 3
         /\ log[Len(log)] = "done" /\ log[Len(log) - 1] = "text"
         /\ \A i \in DOMAIN log : /\ log[i] = "text" => i = Len(log) - 1
                                  /\ log[i] = "done" => i = Len(log)
  BY LogCloses DEF IInv, EventsIInv
<1>2. QED
  BY <1>1 DEF EventsIInv, EventsSoFar, EventsTellTheSession

LEMMA SetUpEvents ==
  ASSUME IInv, EventsIInv, SetUp
  PROVE  EventsIInv'
<1>1. /\ pc = "setup" /\ grants = {} /\ grants' = grants /\ final' = final
      /\ \/ pc' = "schedule" /\ events' = <<"thinking">>
         \/ pc' = "failed" /\ events' \in {<<>>, <<"thinking">>}
  BY DEF SetUp, EventsIInv, EventsSoFar
<1>2. final = "none"
  BY <1>1 DEF EventsIInv, EventsTellTheSession
<1>3. Cardinality(grants) = 0
  BY <1>1, FS_EmptySet
<1>4. Announced(<<"thinking">>) = 0
  <2>1. {i \in DOMAIN <<"thinking">> : <<"thinking">>[i] = "approval"} = {}
    OBVIOUS
  <2>2. QED
    BY <2>1, FS_EmptySet DEF Announced
<1>5. \A i \in DOMAIN events' : events'[i] = "thinking"
  BY <1>1
<1>6. EventsSoFar'
  BY <1>1, <1>5 DEF EventsSoFar
<1>7. EventsTellTheSession'
  BY <1>1, <1>2, <1>3, <1>4, <1>5 DEF EventsTellTheSession
<1>8. QED
  BY <1>6, <1>7 DEF EventsIInv

LEMMA ProcessDecisionEvents ==
  ASSUME IInv, EventsIInv, ProcessDecision
  PROVE  EventsIInv'
<1> DEFINE ask == att["current"].res.ask
<1>1. pc = "activity" /\ grants' = grants /\ TypeOK
  BY DEF ProcessDecision, IInv
<1>2. \/ /\ ask # 0 /\ pc' = "waiting" /\ waitFor' = ask
         /\ events' = Append(events, "approval") /\ final' = final
      \/ /\ pc' = "completed" /\ final' # "none"
         /\ events' = events \o <<"text", "done">>
      \/ pc' = "schedule" /\ events' = events /\ final' = final
  BY DEF ProcessDecision, Announce, Finish
<1>3. CASE /\ ask # 0 /\ pc' = "waiting" /\ waitFor' = ask
           /\ events' = Append(events, "approval") /\ final' = final
  <2>1. Announced(events') = Cardinality(grants) + 1
    BY <1>1, <1>3, AnnouncedMore DEF EventsIInv, EventsTellTheSession
  <2>2. \A g \in grants : g.id # waitFor'
    BY <1>3 DEF IInv, Pending
  <2>3. \A i \in DOMAIN events : events[i] \notin {"text", "done"}
    BY <1>1 DEF EventsIInv, EventsSoFar
  <2>4. events' # <<>> /\ \A i \in DOMAIN events' : events'[i] \notin {"text", "done"}
    <3>1. events \in Seq({"thinking", "approval", "text", "done"})
          /\ "approval" \in {"thinking", "approval", "text", "done"}
      BY <1>1 DEF TypeOK
    <3>2. \A i \in DOMAIN events' :
            events'[i] = "approval" \/ (i \in DOMAIN events /\ events'[i] = events[i])
      BY <3>1, <1>3, AppendAt
    <3>3. events' # <<>>
      BY <3>1, <1>3
    <3>4. QED
      BY <3>2, <3>3, <2>3
  <2>5. QED
    BY <1>1, <1>3, <2>1, <2>2, <2>4 DEF EventsIInv, EventsSoFar, EventsTellTheSession
<1>4. CASE /\ pc' = "completed" /\ final' # "none"
           /\ events' = events \o <<"text", "done">>
  BY <1>1, <1>4, EventsFinish
<1>5. CASE pc' = "schedule" /\ events' = events /\ final' = final
  BY <1>1, <1>5 DEF EventsIInv, EventsSoFar, EventsTellTheSession, Announced
<1>6. QED
  BY <1>2, <1>3, <1>4, <1>5

LEMMA ReviewedEvents ==
  ASSUME IInv, EventsIInv, Reviewed
  PROVE  EventsIInv'
<1> DEFINE g == [tool |-> asked[waitFor], id |-> waitFor]
<1>1. /\ pc = "waiting"
      /\ \/ pc' = "completed" /\ final' # "none" /\ events' = events \o <<"text", "done">>
         \/ /\ pc' = "schedule" /\ events' = events /\ final' = final
            /\ grants' = grants \union {g}
  BY DEF Reviewed, Finish
<1>2. CASE pc' = "completed" /\ final' # "none" /\ events' = events \o <<"text", "done">>
  BY <1>1, <1>2, EventsFinish
<1>3. CASE /\ pc' = "schedule" /\ events' = events /\ final' = final
           /\ grants' = grants \union {g}
  <2>1. g \notin grants
    <3>1. g.id = waitFor
      OBVIOUS
    <3>2. QED
      BY <1>1, <3>1 DEF EventsIInv, EventsSoFar
  <2>2. Cardinality(grants') = Cardinality(grants) + 1
    BY <1>3, <2>1, FS_AddElement DEF IInv, Granted
  <2>3. QED
    BY <1>1, <1>3, <2>2 DEF EventsIInv, EventsSoFar, EventsTellTheSession, Announced
<1>4. QED
  BY <1>1, <1>2, <1>3

LEMMA EventsStep == IInv /\ EventsIInv /\ [Next]_vars => EventsIInv'
<1> SUFFICES ASSUME IInv, EventsIInv, [Next]_vars PROVE EventsIInv'
  OBVIOUS
<1>1. CASE UNCHANGED vars
  BY <1>1, EventsQuiet DEF vars, wfVars
<1>2. CASE Schedule
  BY <1>2 DEF Schedule, EventsIInv, EventsSoFar, EventsTellTheSession, Announced
<1>3. CASE ApprovalTimeout
  BY <1>3, EventsFinish DEF ApprovalTimeout, Finish
<1>4. CASE AttemptTimeout
  <2>1. pc = "activity" /\ pc' \in {"activity", "failed"}
        /\ UNCHANGED <<events, grants, final>>
    BY <1>4 DEF AttemptTimeout
  <2>2. QED
    BY <2>1 DEF EventsIInv, EventsSoFar, EventsTellTheSession, Announced
<1>5. ASSUME NEW s \in Slots, AttemptStep(s) PROVE EventsIInv'
  BY <1>5, EventsQuiet
  DEF AttemptStep, BuildFailed, ResumeApproved, ModelError, EndTurn, ToolUse, AskApproval,
      StoreFailed, wfVars
<1>6. ASSUME NEW r \in Reviewers, Review(r) \/ Signal(r) PROVE EventsIInv'
  BY <1>6, EventsQuiet DEF Review, Signal, wfVars
<1>7. CASE Restart
  BY <1>7, EventsQuiet DEF Restart, wfVars
<1>8. QED
  BY <1>1, <1>2, <1>3, <1>4, <1>5, <1>6, <1>7, SetUpEvents, ProcessDecisionEvents,
     ReviewedEvents DEF Next, Workflow

(* The event log a client polls tells the session: each pause announced    *)
(* once, each but the last answered by a grant, and closed by its answer.  *)
THEOREM LogTellsTheSession == Spec => []EventsTellTheSession
<1>1. Init => EventsIInv
  BY DEF Init, EventsIInv, EventsSoFar, EventsTellTheSession
<1>2. EventsIInv => EventsTellTheSession
  BY DEF EventsIInv
<1>3. QED
  BY <1>1, <1>2, AgentInitIInv, NextIInv, EventsStep, PTL DEF Spec

----------------------------------------------------------------------------
(* How often one tool_use block may still be run.  A block runs only from  *)
(* an attempt that is about to resume and finds it unanswered; the run     *)
(* answers it there.  So it has one chance left while the session's own    *)
(* line of histories does not answer it (or has not asked for it yet), and *)
(* one more while an abandoned attempt is about to resume with it: giving  *)
(* up an attempt makes at most one such chance, and costs one timeout.     *)
Opens(h, u) == \E i \in DOMAIN h : h[i].use = u /\ ~h[i].answered

(* The blocks of a history were produced one by one. *)
Numbered(h, n) ==
  \A i, j \in DOMAIN h : h[i].use <= n /\ (h[i].use = h[j].use => i = j)

DistinctUses == Numbered(hist, uses) /\ \A s \in Slots : Numbered(att[s].hist, uses)

MainHist   == IF att["current"].phase = "idle" THEN hist ELSE att["current"].hist
MainMay(u) == u > uses \/ Opens(MainHist, u)
LateMay(u) == att["abandoned"].phase = "start" /\ Opens(att["abandoned"].hist, u)

Chances(u) == (IF MainMay(u) THEN 1 ELSE 0) + (IF LateMay(u) THEN 1 ELSE 0)
RunsOf(u)  == Cardinality({i \in DOMAIN runs : runs[i].use = u})

RunsLeft ==
  \A u \in 1..MaxUses : RunsOf(u) + Chances(u) <= 1 + faults["attempt_timeout"]

RunsIInv == DistinctUses /\ RunsLeft

LEMMA RunsHit ==
  ASSUME NEW q \in Seq(Runs), NEW u
  PROVE  {i \in DOMAIN q : q[i].use = u} = Hits(q, {e \in Runs : e.use = u})
<1>1. \A i \in DOMAIN q : q[i] \in Runs
  OBVIOUS
<1>2. QED
  BY <1>1 DEF Hits

LEMMA RunsOfNat ==
  ASSUME TypeOK, NEW u
  PROVE  RunsOf(u) \in Nat
<1>1. RunsOf(u) = Cardinality(Hits(runs, {e \in Runs : e.use = u}))
  BY RunsHit DEF RunsOf, TypeOK
<1>2. Len(runs) \in Nat /\ Hits(runs, {e \in Runs : e.use = u}) \subseteq 1..Len(runs)
  BY DEF TypeOK, Hits
<1>3. IsFiniteSet(1..Len(runs))
  BY <1>2, FS_Interval
<1>4. QED
  BY <1>1, <1>2, <1>3, FS_Subset, FS_CardinalityType

LEMMA RunsOfMore ==
  ASSUME TypeOK, NEW u, NEW e \in Runs, runs' = Append(runs, e)
  PROVE  RunsOf(u)' = RunsOf(u) + (IF e.use = u THEN 1 ELSE 0)
<1> DEFINE T == {x \in Runs : x.use = u}
<1>1. runs \in Seq(Runs) /\ runs' \in Seq(Runs)
  BY DEF TypeOK
<1>2. RunsOf(u) = Cardinality(Hits(runs, T)) /\ RunsOf(u)' = Cardinality(Hits(runs', T))
  BY <1>1, RunsHit DEF RunsOf
<1>3. e \in T <=> e.use = u
  OBVIOUS
<1> HIDE DEF T
<1>4. QED
  BY <1>1, <1>2, <1>3, CountAppend

(* Answering blocks opens none, and closes those it answers. *)
LEMMA AnswerCloses ==
  ASSUME NEW h \in Seq(Blocks), NEW S
  PROVE  /\ \A n : Numbered(h, n) => Numbered(Answer(h, S), n)
         /\ \A u : Opens(Answer(h, S), u) => Opens(h, u)
         /\ \A n, i : Numbered(h, n) /\ i \in DOMAIN h /\ i \in S => ~Opens(Answer(h, S), h[i].use)
<1>1. DOMAIN Answer(h, S) = DOMAIN h
  BY DEF Answer
<1>2. ASSUME NEW i \in DOMAIN h
      PROVE  /\ Answer(h, S)[i].use = h[i].use
             /\ Answer(h, S)[i].answered <=> i \in S \/ h[i].answered
  <2>1. Answer(h, S)[i] = IF i \in S THEN [h[i] EXCEPT !.answered = TRUE] ELSE h[i]
    BY <1>2, Zenon DEF Answer
  <2>2. h[i] \in Blocks
    BY <1>2
  <2>3. QED
    BY <2>1, <2>2 DEF Blocks
<1>3. QED
  BY <1>1, <1>2 DEF Numbered, Opens

LEMMA NumberedMore ==
  ASSUME NEW h \in Seq(Blocks), NEW m \in Nat, NEW n \in Nat, m <= n, Numbered(h, m)
  PROVE  Numbered(h, n)
<1>1. \A i \in DOMAIN h : h[i].use \in Nat
  <2>1. \A i \in DOMAIN h : h[i] \in Blocks
    OBVIOUS
  <2>2. QED
    BY <2>1, AgentAssumption DEF Blocks
<1>2. QED
  BY <1>1 DEF Numbered

(* A step of one live attempt: it opens no block but new ones, and what it *)
(* runs it was about to resume with, and has answered.                     *)
LEMMA AttemptRuns ==
  ASSUME IInv, IInv', RunsIInv, NEW s \in Slots,
         att[s].phase # "idle",
         att'[s].phase \in {"model", "blocks", "result"},
         \A q \in Slots : q # s => att'[q] = att[q],
         hist' = hist,
         uses <= uses',
         faults'["attempt_timeout"] = faults["attempt_timeout"],
         Numbered(att'[s].hist, uses'),
         \A u \in 1..MaxUses : Opens(att'[s].hist, u) =>
                                 Opens(att[s].hist, u) \/ (uses < u /\ u <= uses'),
         \/ runs' = runs
         \/ \E e \in Runs : /\ runs' = Append(runs, e)
                            /\ att[s].phase = "start"
                            /\ e.use <= uses
                            /\ Opens(att[s].hist, e.use)
                            /\ ~Opens(att'[s].hist, e.use)
  PROVE  RunsIInv'
<1>1. /\ uses \in Nat /\ uses' \in Nat /\ hist \in Seq(Blocks)
      /\ \A q \in Slots : att[q].hist \in Seq(Blocks)
      /\ TypeOK /\ "current" \in Slots /\ "abandoned" \in Slots
  BY AttemptFacts DEF IInv, TypeOK, Slots
<1>2. DistinctUses'
  BY <1>1, NumberedMore DEF RunsIInv, DistinctUses
<1>3. ASSUME NEW u \in 1..MaxUses
      PROVE  /\ MainMay(u)' => MainMay(u)
             /\ LateMay(u)' => LateMay(u)
  <2>1. u \in Nat
    BY <1>3, AgentAssumption
  <2>2. CASE s = "current"
    <3>1. MainHist = att[s].hist /\ MainHist' = att'[s].hist
      BY <2>2 DEF MainHist
    <3>2. att'["abandoned"] = att["abandoned"]
      BY <2>2, <1>1
    <3>3. QED
      BY <3>1, <3>2, <2>1, <1>1 DEF MainMay, LateMay
  <2>3. CASE s = "abandoned"
    <3>1. MainHist' = MainHist
      BY <2>3, <1>1 DEF MainHist
    <3>2. QED
      BY <3>1, <2>1, <2>3, <1>1 DEF MainMay, LateMay
  <2>4. QED
    BY <2>2, <2>3 DEF Slots
<1>4. ASSUME NEW u \in 1..MaxUses
      PROVE  RunsOf(u)' + Chances(u)' <= 1 + faults'["attempt_timeout"]
  <2>1. RunsOf(u) + Chances(u) <= 1 + faults["attempt_timeout"]
        /\ faults["attempt_timeout"] \in Nat /\ RunsOf(u) \in Nat
    BY <1>1, RunsOfNat DEF RunsIInv, RunsLeft, TypeOK, FaultKinds
  <2>2. CASE runs' = runs
    <3>1. RunsOf(u)' = RunsOf(u)
      BY <2>2 DEF RunsOf
    <3>2. QED
      BY <3>1, <2>1, <1>3 DEF Chances
  <2>3. ASSUME NEW e \in Runs,
               runs' = Append(runs, e),
               att[s].phase = "start",
               e.use <= uses,
               Opens(att[s].hist, e.use),
               ~Opens(att'[s].hist, e.use)
        PROVE  RunsOf(u)' + Chances(u)' <= 1 + faults'["attempt_timeout"]
    <3>1. RunsOf(u)' = RunsOf(u) + (IF e.use = u THEN 1 ELSE 0)
      BY <1>1, <2>3, RunsOfMore
    <3>2. CASE e.use # u
      BY <3>1, <3>2, <2>1, <1>3 DEF Chances
    <3>3. CASE e.use = u
      <4>0. u \in Nat /\ u <= uses /\ u <= uses' /\ ~(u > uses) /\ ~(u > uses')
        BY <3>3, <2>3, <1>1, AgentAssumption DEF Runs
      <4>1. \/ MainMay(u) /\ ~MainMay(u)'
            \/ LateMay(u) /\ ~LateMay(u)'
        <5>1. CASE s = "current"
          <6>1. MainHist = att[s].hist /\ MainHist' = att'[s].hist
            BY <5>1 DEF MainHist
          <6>2. QED
            BY <6>1, <4>0, <3>3, <2>3 DEF MainMay
        <5>2. CASE s = "abandoned"
          BY <5>2, <3>3, <2>3 DEF LateMay
        <5>3. QED
          BY <5>1, <5>2 DEF Slots
      <4>2. RunsOf(u)' = RunsOf(u) + 1
        BY <3>1, <3>3
      <4>3. QED
        BY <4>1, <4>2, <2>1, <1>3 DEF Chances
    <3>4. QED
      BY <3>2, <3>3
  <2>4. QED
    BY <2>2, <2>3
<1>5. QED
  BY <1>2, <1>4 DEF RunsIInv, RunsLeft

LEMMA ReturnHist ==
  ASSUME TypeOK, NEW s \in Slots, NEW h, NEW r, Return(s, h, r)
  PROVE  /\ att'[s].phase = "result"
         /\ att'[s].hist = h
         /\ att'[s].res = r
         /\ \A q \in Slots : q # s => att'[q] = att[q]
<1>1. att[s] \in Attempts /\ att \in [Slots -> Attempts]
  BY DEF TypeOK
<1>2. att' = [att EXCEPT ![s] = [att[s] EXCEPT !.phase = "result", !.hist = h, !.res = r]]
  BY DEF Return, Advance
<1>3. att'[s] = [att[s] EXCEPT !.phase = "result", !.hist = h, !.res = r]
      /\ \A q \in Slots : q # s => att'[q] = att[q]
  BY <1>1, <1>2
<1>4. QED
  BY <1>1, <1>3 DEF Attempts

LEMMA FaultElse ==
  ASSUME NEW k \in FaultKinds, Fault(k), faults \in [FaultKinds -> Nat]
  PROVE  \A j \in FaultKinds : j # k => faults'[j] = faults[j]
  BY DEF Fault

(* An attempt that returns the history it has. *)
LEMMA ReturnRuns ==
  ASSUME IInv, IInv', RunsIInv, NEW s \in Slots, NEW r, att[s].phase # "idle",
         Return(s, att[s].hist, r), UNCHANGED <<hist, uses, runs>>,
         faults'["attempt_timeout"] = faults["attempt_timeout"]
  PROVE  RunsIInv'
<1>1. TypeOK /\ uses \in Nat /\ Numbered(att[s].hist, uses)
  BY DEF IInv, TypeOK, RunsIInv, DistinctUses
<1>2. /\ att'[s].phase = "result" /\ att'[s].hist = att[s].hist
      /\ \A q \in Slots : q # s => att'[q] = att[q]
  BY <1>1, ReturnHist
<1>3. QED
  BY <1>1, <1>2, AttemptRuns

LEMMA ResumeRuns ==
  ASSUME IInv, IInv', RunsIInv, NEW s \in Slots, ResumeApproved(s)
  PROVE  RunsIInv'
<1> DEFINE a == att[s]
<1>1. a \in Attempts /\ TypeOK /\ a.phase = "start" /\ a.hist \in Seq(Blocks)
      /\ uses \in Nat /\ hist' = hist /\ uses' = uses /\ Numbered(a.hist, uses)
  BY AttemptFacts DEF IInv, TypeOK, ResumeApproved, wfVars, RunsIInv, DistinctUses
<1>2. PICK b \in Resumable(a.hist, a.grant) :
        /\ Return(s, Answer(a.hist, {b}), Result(FALSE, TRUE, 0))
        /\ \/ /\ runs' = Append(runs, [use |-> a.hist[b].use, tool |-> a.hist[b].tool,
                                       id |-> a.grant.id])
              /\ UNCHANGED faults
           \/ /\ Fault("dispatch_failed")
              /\ UNCHANGED runs
  BY DEF ResumeApproved
<1>3. b \in DOMAIN a.hist /\ a.hist[b] \in Blocks /\ ~a.hist[b].answered
      /\ a.hist[b].tool = a.grant.tool
  BY <1>1 DEF Resumable, Unanswered
<1>4. /\ att'[s].phase = "result" /\ att'[s].hist = Answer(a.hist, {b})
      /\ \A q \in Slots : q # s => att'[q] = att[q]
  BY <1>1, <1>2, ReturnHist
<1>5. /\ Numbered(att'[s].hist, uses')
      /\ \A u : Opens(att'[s].hist, u) => Opens(a.hist, u)
      /\ Opens(a.hist, a.hist[b].use) /\ ~Opens(att'[s].hist, a.hist[b].use)
      /\ a.hist[b].use <= uses
  <2>1. Opens(a.hist, a.hist[b].use) /\ a.hist[b].use <= uses
    BY <1>1, <1>3 DEF Opens, Numbered
  <2>2. \A n, i : Numbered(a.hist, n) /\ i \in DOMAIN a.hist /\ i \in {b}
                    => ~Opens(Answer(a.hist, {b}), a.hist[i].use)
    BY <1>1, AnswerCloses
  <2>3. QED
    BY <1>1, <1>3, <1>4, <2>1, <2>2, AnswerCloses
<1>6. a.grant \in grants
  BY <1>3, StoreAssumption DEF IInv, Granted, NoGrant, Blocks
<1> DEFINE e == [use |-> a.hist[b].use, tool |-> a.hist[b].tool, id |-> a.grant.id]
<1>7. e \in Runs /\ e.use = a.hist[b].use
  BY <1>1, <1>3, <1>6 DEF TypeOK, Grants, Runs, Blocks
<1>8. faults'["attempt_timeout"] = faults["attempt_timeout"]
  BY <1>1, <1>2, FaultElse DEF TypeOK, FaultKinds
<1>9. runs' = runs \/ runs' = Append(runs, e)
  BY <1>2
<1> HIDE DEF e
<1>10. \/ runs' = runs
       \/ \E x \in Runs : /\ runs' = Append(runs, x)
                          /\ att[s].phase = "start"
                          /\ x.use <= uses
                          /\ Opens(att[s].hist, x.use)
                          /\ ~Opens(att'[s].hist, x.use)
  BY <1>1, <1>5, <1>7, <1>9
<1>11. /\ att[s].phase # "idle" /\ att'[s].phase \in {"model", "blocks", "result"}
       /\ uses <= uses' /\ hist' = hist
  BY <1>1, <1>4
<1>12. \A u \in 1..MaxUses : Opens(att'[s].hist, u) => Opens(att[s].hist, u)
  BY <1>5
<1> HIDE DEF a
<1>13. QED
  BY <1>4, <1>5, <1>8, <1>10, <1>11, <1>12, AttemptRuns

LEMMA SameSum ==
  ASSUME NEW u \in Nat, NEW i \in Nat, NEW j \in Nat, NEW n \in Nat,
         u + (i - n) = u + (j - n)
  PROVE  i = j
  OBVIOUS

LEMMA ToolUseRuns ==
  ASSUME IInv, IInv', RunsIInv, NEW s \in Slots, ToolUse(s)
  PROVE  RunsIInv'
<1> DEFINE a == att[s]
<1>1. TypeOK /\ a \in Attempts /\ a.phase # "idle" /\ a.hist \in Seq(Blocks)
      /\ uses \in Nat /\ att \in [Slots -> Attempts] /\ Numbered(a.hist, uses)
      /\ UNCHANGED <<hist, faults, runs>>
  BY AttemptFacts DEF IInv, TypeOK, ToolUse, AtModelCall, RunsIInv, DistinctUses, wfVars
<1>2. PICK n \in 1..MaxBlocks :
        /\ uses + n <= MaxUses
        /\ uses' = uses + n
        /\ \E turn \in [1..n -> Tools] :
             Advance(s, [a EXCEPT
               !.phase = "blocks",
               !.from  = Len(a.hist) + 1,
               !.blk   = Len(a.hist) + 1,
               !.hist  = a.hist \o
                  [i \in 1..n |-> [use |-> uses + i, tool |-> turn[i], answered |-> FALSE]]])
  BY DEF ToolUse
<1>3. PICK turn \in [1..n -> Tools] :
        Advance(s, [a EXCEPT
          !.phase = "blocks",
          !.from  = Len(a.hist) + 1,
          !.blk   = Len(a.hist) + 1,
          !.hist  = a.hist \o
             [i \in 1..n |-> [use |-> uses + i, tool |-> turn[i], answered |-> FALSE]]])
  BY <1>2
<1> DEFINE new == [i \in 1..n |-> [use |-> uses + i, tool |-> turn[i], answered |-> FALSE]]
<1>4. n \in Nat /\ uses + n <= MaxUses
  BY <1>2, AgentAssumption
<1>5. \A i \in 1..n : new[i].use = uses + i
  OBVIOUS
<1>6. DOMAIN new = 1..n /\ new \in Seq(Blocks) /\ Len(new) = n
  <2>1. ASSUME NEW i \in 1..n
        PROVE  [use |-> uses + i, tool |-> turn[i], answered |-> FALSE] \in Blocks
    BY <1>1, <1>3, <1>4, AgentAssumption DEF Blocks
  <2>2. QED
    BY <2>1, <1>4
<1>7. /\ att'[s].phase = "blocks" /\ att'[s].hist = a.hist \o new
      /\ \A q \in Slots : q # s => att'[q] = att[q]
  <2> DEFINE k == Len(a.hist) + 1
  <2> DEFINE h == a.hist \o new
  <2>1. att' = [att EXCEPT ![s] = [a EXCEPT !.phase = "blocks", !.from = k, !.blk = k,
                                            !.hist = h]]
    BY <1>3 DEF Advance
  <2> HIDE DEF k, h
  <2>2. att'[s] = [a EXCEPT !.phase = "blocks", !.from = k, !.blk = k, !.hist = h]
        /\ \A q \in Slots : q # s => att'[q] = att[q]
    BY <2>1, <1>1
  <2>3. att'[s].phase = "blocks" /\ att'[s].hist = h
    BY <2>2, <1>1 DEF Attempts
  <2>4. QED
    BY <2>2, <2>3 DEF h
<1> HIDE DEF new
<1>8. ASSUME NEW i \in DOMAIN (a.hist \o new)
      PROVE  \/ i \in DOMAIN a.hist /\ (a.hist \o new)[i] = a.hist[i]
             \/ /\ i \notin DOMAIN a.hist /\ i - Len(a.hist) \in 1..n
                /\ (a.hist \o new)[i] = new[i - Len(a.hist)]
  <2>1. Len(a.hist) \in Nat /\ DOMAIN a.hist = 1..Len(a.hist)
    BY <1>1
  <2>0. /\ DOMAIN (a.hist \o new) = 1..(Len(a.hist) + n)
        /\ (a.hist \o new)[i] = IF i <= Len(a.hist) THEN a.hist[i] ELSE new[i - Len(a.hist)]
    <3> HIDE DEF a
    <3>1. \A p, q \in Seq(Blocks) : \A m \in DOMAIN (p \o q) :
            /\ DOMAIN (p \o q) = 1..(Len(p) + Len(q))
            /\ (p \o q)[m] = IF m <= Len(p) THEN p[m] ELSE q[m - Len(p)]
      OBVIOUS
    <3>2. a.hist \in Seq(Blocks)
      BY <1>1
    <3>3. QED
      BY <3>1, <3>2, <1>6, <1>8
  <2>2. i \in Nat /\ 1 <= i /\ i <= Len(a.hist) + n
    BY <2>0, <2>1, <1>4, <1>8
  <2>3. QED
    BY <2>0, <2>1, <2>2, <1>4
<1>9. \A i \in DOMAIN a.hist : a.hist[i].use \in Nat /\ a.hist[i].use <= uses
  <2>1. \A i \in DOMAIN a.hist : a.hist[i] \in Blocks
    BY <1>1
  <2>2. QED
    BY <2>1, <1>1, AgentAssumption DEF Blocks, Numbered
<1>10. Numbered(att'[s].hist, uses')
  <2> SUFFICES ASSUME NEW i \in DOMAIN (a.hist \o new), NEW j \in DOMAIN (a.hist \o new)
               PROVE  /\ (a.hist \o new)[i].use <= uses'
                      /\ (a.hist \o new)[i].use = (a.hist \o new)[j].use => i = j
    BY <1>7 DEF Numbered
  <2>1. Len(a.hist) \in Nat /\ i \in Nat /\ j \in Nat
    <3>1. DOMAIN (a.hist \o new) \subseteq Nat /\ Len(a.hist) \in Nat
      BY <1>1, <1>6
    <3>2. QED
      BY <3>1
  <2>2. CASE i \in DOMAIN a.hist /\ j \in DOMAIN a.hist
    BY <2>2, <1>1, <1>2, <1>4, <1>8, <1>9 DEF Numbered
  <2>3. CASE i \in DOMAIN a.hist /\ j \notin DOMAIN a.hist
    <3>1. (a.hist \o new)[i].use \in Nat /\ (a.hist \o new)[i].use <= uses
      BY <2>3, <1>8, <1>9
    <3>2. j - Len(a.hist) \in 1..n /\ (a.hist \o new)[j].use = uses + (j - Len(a.hist))
      BY <2>3, <1>5, <1>8
    <3>3. QED
      BY <3>1, <3>2, <1>1, <1>2, <1>4
  <2>4. CASE i \notin DOMAIN a.hist /\ j \in DOMAIN a.hist
    <3>1. (a.hist \o new)[j].use \in Nat /\ (a.hist \o new)[j].use <= uses
      BY <2>4, <1>8, <1>9
    <3>2. i - Len(a.hist) \in 1..n /\ (a.hist \o new)[i].use = uses + (i - Len(a.hist))
      BY <2>4, <1>5, <1>8
    <3>3. QED
      BY <3>1, <3>2, <1>1, <1>2, <1>4
  <2>5. CASE i \notin DOMAIN a.hist /\ j \notin DOMAIN a.hist
    <3>1. /\ i - Len(a.hist) \in 1..n /\ j - Len(a.hist) \in 1..n
          /\ (a.hist \o new)[i].use = uses + (i - Len(a.hist))
          /\ (a.hist \o new)[j].use = uses + (j - Len(a.hist))
      BY <2>5, <1>5, <1>8
    <3> DEFINE L == Len(a.hist)
    <3>2. L \in Nat /\ uses' = uses + n
      BY <2>1, <1>2
    <3> HIDE DEF L, a
    <3>3. (a.hist \o new)[i].use <= uses'
      BY <3>1, <3>2, <1>1, <1>4 DEF L
    <3>4. (a.hist \o new)[i].use = (a.hist \o new)[j].use => i = j
      <4> SUFFICES ASSUME (a.hist \o new)[i].use = (a.hist \o new)[j].use
                   PROVE  i = j
        OBVIOUS
      <4>1. uses + (i - L) = uses + (j - L)
        BY <3>1 DEF L
      <4>2. uses \in Nat /\ i \in Nat /\ j \in Nat
        BY <1>1, <2>1
      <4>3. QED
        BY <3>2, <4>1, <4>2, SameSum
    <3>5. QED
      BY <3>3, <3>4
  <2>6. QED
    BY <2>2, <2>3, <2>4, <2>5
<1>11. ASSUME NEW u \in 1..MaxUses, Opens(att'[s].hist, u)
       PROVE  Opens(a.hist, u) \/ (uses < u /\ u <= uses')
  <2>1. PICK i \in DOMAIN (a.hist \o new) :
          (a.hist \o new)[i].use = u /\ ~(a.hist \o new)[i].answered
    BY <1>7, <1>11 DEF Opens
  <2>2. CASE i \in DOMAIN a.hist
    BY <2>1, <2>2, <1>8 DEF Opens
  <2>3. CASE i \notin DOMAIN a.hist
    <3>1. i - Len(a.hist) \in 1..n /\ u = uses + (i - Len(a.hist))
      BY <2>1, <2>3, <1>5, <1>8
    <3>2. QED
      BY <3>1, <1>1, <1>2, <1>4
  <2>4. QED
    BY <2>2, <2>3
<1>12. uses <= uses'
  BY <1>1, <1>2, <1>4
<1>13. QED
  BY <1>1, <1>7, <1>10, <1>11, <1>12, AttemptRuns

LEMMA StoreFailedRuns ==
  ASSUME IInv, IInv', RunsIInv, NEW s \in Slots, StoreFailed(s)
  PROVE  RunsIInv'
<1> DEFINE a == att[s]
<1> DEFINE h == Answer(a.hist, a.from..Len(a.hist))
<1>1. /\ TypeOK /\ a \in Attempts /\ a.phase = "blocks" /\ a.hist \in Seq(Blocks)
      /\ AnswerWithError(s) /\ UNCHANGED <<hist, uses, runs>> /\ uses \in Nat
      /\ Numbered(a.hist, uses) /\ att \in [Slots -> Attempts]
  BY AttemptFacts DEF IInv, TypeOK, StoreFailed, RunsIInv, DistinctUses, wfVars
<1>2. faults'["attempt_timeout"] = faults["attempt_timeout"]
  BY <1>1, FaultElse DEF StoreFailed, TypeOK, FaultKinds
<1>3. /\ att'[s].phase \in {"model", "blocks", "result"}
      /\ att'[s].hist \in {a.hist, h}
      /\ \A q \in Slots : q # s => att'[q] = att[q]
  <2>1. CASE a.blk < Len(a.hist)
    <3> DEFINE k == a.blk + 1
    <3>1. att' = [att EXCEPT ![s] = [a EXCEPT !.blk = k]]
      BY <1>1, <2>1 DEF AnswerWithError, Advance
    <3> HIDE DEF k
    <3>2. QED
      BY <3>1, <1>1 DEF Attempts
  <2>2. CASE ~(a.blk < Len(a.hist)) /\ a.loop + 1 < MaxIterations
    <3> DEFINE n == a.loop + 1
    <3>1. att' = [att EXCEPT ![s] = [a EXCEPT !.phase = "model", !.loop = n, !.hist = h]]
      BY <1>1, <2>2 DEF AnswerWithError, Advance
    <3> HIDE DEF n, h
    <3>2. QED
      BY <3>1, <1>1 DEF Attempts
  <2>3. CASE ~(a.blk < Len(a.hist)) /\ ~(a.loop + 1 < MaxIterations)
    <3>1. Return(s, h, Result(TRUE, FALSE, 0))
      BY <1>1, <2>3 DEF AnswerWithError
    <3>2. QED
      BY <3>1, <1>1, ReturnHist
  <2>4. QED
    BY <2>1, <2>2, <2>3
<1>4. /\ Numbered(att'[s].hist, uses')
      /\ \A u : Opens(att'[s].hist, u) => Opens(a.hist, u)
  BY <1>1, <1>3, AnswerCloses
<1>5. QED
  BY <1>1, <1>2, <1>3, <1>4, AttemptRuns

(* Steps outside the attempts that leave the histories alone. *)
LEMMA QuietRuns ==
  ASSUME IInv, RunsIInv, UNCHANGED <<hist, att, uses, runs>>,
         faults'["attempt_timeout"] = faults["attempt_timeout"]
  PROVE  RunsIInv'
  BY DEF RunsIInv, DistinctUses, RunsLeft, RunsOf, Chances, MainMay, LateMay, MainHist

(* A step that only moves the session's history between the workflow and   *)
(* its running attempt.                                                    *)
LEMMA LineRuns ==
  ASSUME IInv, RunsIInv, UNCHANGED <<uses, runs, faults>>, DistinctUses',
         MainHist' = MainHist, att'["abandoned"] = att["abandoned"]
  PROVE  RunsIInv'
  BY DEF RunsIInv, RunsLeft, RunsOf, Chances, MainMay, LateMay

LEMMA ScheduleRuns ==
  ASSUME IInv, RunsIInv, Schedule
  PROVE  RunsIInv'
<1>1. /\ pc = "schedule" /\ UNCHANGED <<hist, uses, runs, faults>>
      /\ att["current"].phase = "idle" /\ TypeOK
  BY DEF Schedule, IInv, Pending
<1>2. att \in [Slots -> Attempts] /\ "current" \in Slots /\ "abandoned" \in Slots
      /\ hist \in Seq(Blocks) /\ grant \in Grants \union {NoGrant}
  BY <1>1 DEF TypeOK, Slots
<1> DEFINE n == NewAttempt(hist, grant)
<1>3. n.phase = "start" /\ n.hist = hist
  BY DEF NewAttempt, IdleAttempt
<1>4. att' = [att EXCEPT !["current"] = n]
  BY DEF Schedule
<1> HIDE DEF n
<1>5. att'["current"] = n /\ \A q \in Slots : q # "current" => att'[q] = att[q]
  BY <1>2, <1>4
<1>6. DistinctUses'
  BY <1>1, <1>3, <1>5 DEF RunsIInv, DistinctUses
<1>7. MainHist' = MainHist
  BY <1>1, <1>3, <1>5 DEF MainHist
<1>8. QED
  BY <1>1, <1>2, <1>5, <1>6, <1>7, LineRuns

LEMMA ProcessDecisionRuns ==
  ASSUME IInv, RunsIInv, ProcessDecision
  PROVE  RunsIInv'
<1>1. /\ att' = [att EXCEPT !["current"] = IdleAttempt] /\ hist' = att["current"].hist
      /\ att["current"].phase = "result" /\ UNCHANGED <<uses, runs, faults>>
  BY DEF ProcessDecision
<1>2. att \in [Slots -> Attempts] /\ "current" \in Slots /\ "abandoned" \in Slots
  BY DEF IInv, TypeOK, Slots
<1>3. IdleAttempt.phase = "idle" /\ IdleAttempt.hist = <<>>
  BY DEF IdleAttempt
<1>4. att'["current"] = IdleAttempt /\ \A q \in Slots : q # "current" => att'[q] = att[q]
  BY <1>1, <1>2
<1>5. DistinctUses'
  BY <1>1, <1>2, <1>3, <1>4 DEF RunsIInv, DistinctUses, Numbered
<1>6. MainHist' = MainHist
  BY <1>1, <1>3, <1>4 DEF MainHist
<1>7. QED
  BY <1>1, <1>2, <1>4, <1>5, <1>6, LineRuns

(* Temporal gives up on the running attempt: what it could still run may   *)
(* now be run late, and once more by the attempt that replaces it.         *)
LEMMA AttemptTimeoutRuns ==
  ASSUME IInv, RunsIInv, AttemptTimeout
  PROVE  RunsIInv'
<1>1. UNCHANGED <<hist, uses, runs>> /\ TypeOK
  BY DEF AttemptTimeout, IInv
<1>2. att \in [Slots -> Attempts] /\ "current" \in Slots /\ "abandoned" \in Slots
  BY <1>1 DEF TypeOK, Slots
<1>3. PICK n : /\ n.hist \in {hist, <<>>}
               /\ att' = [s \in Slots |-> IF s = "current" THEN n ELSE att["current"]]
  <2>1. IdleAttempt.hist = <<>> /\ NewAttempt(hist, grant).hist = hist
    BY DEF IdleAttempt, NewAttempt
  <2>2. QED
    BY <2>1 DEF AttemptTimeout
<1>4. att'["current"] = n /\ att'["abandoned"] = att["current"]
      /\ \A q \in Slots : att'[q] \in {n, att["current"]}
  BY <1>2, <1>3
<1>5. DistinctUses'
  BY <1>1, <1>2, <1>3, <1>4 DEF RunsIInv, DistinctUses, Numbered
<1>6. faults'["attempt_timeout"] = faults["attempt_timeout"] + 1
      /\ faults["attempt_timeout"] \in Nat
  BY <1>1 DEF AttemptTimeout, Fault, TypeOK, FaultKinds
<1>7. ASSUME NEW u \in 1..MaxUses
      PROVE  RunsOf(u)' + Chances(u)' <= 1 + faults'["attempt_timeout"]
  <2>1. RunsOf(u)' = RunsOf(u) /\ RunsOf(u) \in Nat
    BY <1>1, RunsOfNat DEF RunsOf
  <2>2. RunsOf(u) + Chances(u) <= 1 + faults["attempt_timeout"]
    BY DEF RunsIInv, RunsLeft
  <2>3. LateMay(u)' => MainMay(u)
    BY <1>4 DEF LateMay, MainMay, MainHist
  <2>4. QED
    BY <1>6, <2>1, <2>2, <2>3 DEF Chances
<1>8. QED
  BY <1>5, <1>7 DEF RunsIInv, RunsLeft

LEMMA RunsInit == Init => RunsIInv
<1> SUFFICES ASSUME Init PROVE RunsIInv
  OBVIOUS
<1>1. /\ hist = <<>> /\ uses = 0 /\ runs = <<>> /\ faults["attempt_timeout"] = 0
      /\ \A s \in Slots : att[s].hist = <<>> /\ att[s].phase = "idle"
  BY DEF Init, IdleAttempt, FaultKinds
<1>2. DistinctUses
  BY <1>1 DEF DistinctUses, Numbered
<1>3. ASSUME NEW u \in 1..MaxUses PROVE RunsOf(u) = 0 /\ ~LateMay(u)
  <2>1. {i \in DOMAIN runs : runs[i].use = u} = {}
    BY <1>1
  <2>2. QED
    BY <2>1, <1>1, FS_EmptySet DEF RunsOf, LateMay, Slots
<1>4. QED
  BY <1>1, <1>2, <1>3 DEF RunsIInv, RunsLeft, Chances

LEMMA RunsStep == IInv /\ IInv' /\ RunsIInv /\ [Next]_vars => RunsIInv'
<1> SUFFICES ASSUME IInv, IInv', RunsIInv, [Next]_vars PROVE RunsIInv'
  OBVIOUS
<1>0. faults \in [FaultKinds -> Nat]
  BY DEF IInv, TypeOK
<1>1. CASE UNCHANGED vars
  BY <1>1, QuietRuns DEF vars, wfVars
<1>2. CASE SetUp
  BY <1>0, <1>2, QuietRuns, FaultElse DEF SetUp, FaultKinds
<1>3. CASE Reviewed \/ ApprovalTimeout
  BY <1>3, QuietRuns DEF Reviewed, ApprovalTimeout
<1>4. ASSUME NEW s \in Slots, AttemptStep(s) PROVE RunsIInv'
  <2>1. CASE BuildFailed(s)
    BY <1>0, <2>1, ReturnRuns, FaultElse DEF BuildFailed, wfVars, FaultKinds
  <2>2. CASE ModelError(s)
    BY <2>2, ReturnRuns DEF ModelError, AtModelCall, wfVars
  <2>3. CASE EndTurn(s)
    BY <2>3, ReturnRuns DEF EndTurn, AtModelCall, wfVars
  <2>4. CASE AskApproval(s)
    BY <2>4, ReturnRuns DEF AskApproval, wfVars
  <2>5. QED
    BY <1>4, <2>1, <2>2, <2>3, <2>4, ResumeRuns, ToolUseRuns, StoreFailedRuns
    DEF AttemptStep
<1>5. ASSUME NEW r \in Reviewers, Review(r) PROVE RunsIInv'
  BY <1>5, QuietRuns DEF Review, wfVars
<1>6. ASSUME NEW r \in Reviewers, Signal(r) PROVE RunsIInv'
  BY <1>0, <1>6, QuietRuns, FaultElse DEF Signal, FaultKinds
<1>7. CASE Restart
  BY <1>0, <1>7, QuietRuns, FaultElse DEF Restart, wfVars, FaultKinds
<1>8. QED
  BY <1>1, <1>2, <1>3, <1>4, <1>5, <1>6, <1>7, ScheduleRuns, ProcessDecisionRuns,
     AttemptTimeoutRuns DEF Next, Workflow

(* A tool_use block runs once, and once more for each attempt Temporal     *)
(* gave up waiting for, whatever else is retried, lost or restarted.       *)
THEOREM BlocksRunBounded == Spec => []RunsBounded
<1>1. IInv /\ RunsIInv => RunsBounded
  <2> SUFFICES ASSUME IInv, RunsIInv, NEW u \in 1..MaxUses
               PROVE  RunsOf(u) <= 1 + faults["attempt_timeout"]
    BY DEF RunsBounded, RunsOf
  <2>1. RunsOf(u) \in Nat /\ faults["attempt_timeout"] \in Nat
    BY RunsOfNat DEF IInv, TypeOK, FaultKinds
  <2>2. RunsOf(u) + Chances(u) <= 1 + faults["attempt_timeout"]
    BY DEF RunsIInv, RunsLeft
  <2>3. QED
    BY <2>1, <2>2 DEF Chances
<1>2. QED
  BY <1>1, AgentInitIInv, NextIInv, RunsInit, RunsStep, PTL DEF Spec

----------------------------------------------------------------------------
(* Which request an answer belongs to.  The signal carries no request that *)
(* the workflow looks at, so the argument is about what else could be      *)
(* under way: without an orphaned request every stored one is granted, or  *)
(* the one being asked or waited for; a handler that is about to signal    *)
(* carries the only decision of its request; and a granted request has no  *)
(* such handler left.                                                      *)
Orderly ==
  /\ faults["attempt_timeout"] = 0
  /\ faults["store_reply_lost"] = 0
  /\ ProcessedOnce

AskedLast == \A s \in Slots : att[s].phase # "result" => att[s].res.ask = 0

NoneLate == att["abandoned"].phase = "idle"

EveryRequest ==
  ~Closed => \A id \in Ids : id < nextId =>
               \/ \E g \in grants : g.id = id
               \/ id = att["current"].res.ask
               \/ pc = "waiting" /\ id = waitFor

Signalling(id) == {r \in Reviewers : rev[r].at = "signal" /\ rev[r].id = id}

SignalsAreDecisions ==
  \A r \in Reviewers : rev[r].at = "signal" =>
    /\ decided[rev[r].id] = <<rev[r].verdict>>
    /\ \A q \in Signalling(rev[r].id) : q = r

GrantsAreDecisions ==
  \A g \in grants : decided[g.id] = <<"approved">> /\ Signalling(g.id) = {}

PauseIsDecided ==
  pc = "waiting" /\ decision # "none" =>
    decided[waitFor] = <<decision>> /\ Signalling(waitFor) = {}

Answers ==
  /\ NoneLate
  /\ EveryRequest
  /\ SignalsAreDecisions
  /\ GrantsAreDecisions
  /\ PauseIsDecided

AnswersIInv == StoreIInv /\ AskedLast /\ (Orderly => Answers)

(* Faults are only ever added, and so are decisions. *)
LEMMA FaultsGrow ==
  ASSUME IInv, [Next]_vars, NEW k \in FaultKinds
  PROVE  faults[k] \in Nat /\ faults'[k] \in Nat /\ faults[k] <= faults'[k]
<1>1. faults \in [FaultKinds -> Nat]
  BY DEF IInv, TypeOK
<1>2. ASSUME NEW j \in FaultKinds, Fault(j) PROVE  faults[k] \in Nat /\ faults'[k] \in Nat /\ faults[k] <= faults'[k]
  BY <1>1, <1>2 DEF Fault
<1>3. CASE faults' = faults
  BY <1>1, <1>3
<1>4. faults' = faults \/ \E j \in FaultKinds : Fault(j)
  BY DEF Next, Workflow, SetUp, Schedule, ProcessDecision, Reviewed, ApprovalTimeout,
     AttemptTimeout, AttemptStep, BuildFailed, ResumeApproved, ModelError, EndTurn, ToolUse,
     AskApproval, StoreFailed, Review, Signal, Restart, vars, FaultKinds
<1>5. QED
  BY <1>2, <1>3, <1>4

LEMMA DecidedGrows ==
  ASSUME StoreTypeOK, [StoreNext]_storeVars, NEW id \in Ids
  PROVE  Len(decided[id]) \in Nat /\ Len(decided'[id]) \in Nat
         /\ Len(decided[id]) <= Len(decided'[id])
<1>1. decided[id] \in Seq(Decisions) /\ Len(decided[id]) \in Nat
  BY DEF StoreTypeOK
<1>2. CASE decided' = decided
  BY <1>1, <1>2
<1>3. ASSUME NEW r \in Reviewers, FinishWrite(r)
      PROVE  Len(decided'[id]) \in Nat /\ Len(decided[id]) <= Len(decided'[id])
  <2>1. rev[r].id \in Ids /\ rev[r].verdict \in Decisions
    BY <1>3, BusyReviewer DEF FinishWrite
  <2>2. CASE id = rev[r].id
    <3>1. decided'[id] = Append(decided[id], rev[r].verdict)
      BY <1>3, <2>2 DEF FinishWrite, StoreTypeOK
    <3>2. QED
      BY <3>1, <2>1, <1>1, AppendFacts
  <2>3. CASE id # rev[r].id
    BY <1>1, <1>3, <2>1, <2>3 DEF FinishWrite, StoreTypeOK
  <2>4. QED
    BY <2>2, <2>3
<1>4. QED
  BY <1>1, <1>2, <1>3 DEF StoreNext, storeVars, StoreHITLApproval, ReviewerStep, HandlerStep,
     RefuseDecision, CheckPending, WriteStatus, SendSignal, RestartInitiator

LEMMA OrderlyBefore ==
  ASSUME IInv, [Next]_vars, Orderly'
  PROVE  Orderly
<1>1. faults["attempt_timeout"] = 0 /\ faults["store_reply_lost"] = 0
  <2>1. "attempt_timeout" \in FaultKinds /\ "store_reply_lost" \in FaultKinds
    BY DEF FaultKinds
  <2>2. faults'["attempt_timeout"] = 0 /\ faults'["store_reply_lost"] = 0
    BY DEF Orderly
  <2>3. QED
    BY <2>1, <2>2, FaultsGrow
<1>2. ASSUME NEW id \in Ids PROVE Len(decided[id]) <= 1
  <2>1. Len(decided'[id]) <= 1
    BY DEF Orderly, ProcessedOnce
  <2>2. QED
    BY <2>1, StepUsesStore, DecidedGrows DEF IInv, TypeOK
<1>3. QED
  BY <1>1, <1>2 DEF Orderly, ProcessedOnce

(* A step of an attempt that has not returned: it asks nothing, or about   *)
(* the request it has just stored.                                         *)
LEMMA AttemptAsks ==
  ASSUME IInv, AskedLast, NEW s \in Slots, AttemptStep(s)
  PROVE  /\ att[s].phase \notin {"idle", "result"} /\ att[s].res.ask = 0
         /\ att'[s].phase # "idle"
         /\ \A q \in Slots : q # s => att'[q] = att[q]
         /\ \/ att'[s].res.ask = 0
            \/ AskApproval(s) /\ att'[s].res.ask = nextId /\ att'[s].phase = "result"
<1>1. TypeOK /\ att \in [Slots -> Attempts] /\ att[s] \in Attempts
  BY DEF IInv, TypeOK
<1>2. att[s].phase \notin {"idle", "result"} /\ att[s].res.ask = 0
  <2>1. att[s].phase \in {"start", "model", "blocks"}
    BY DEF AttemptStep, BuildFailed, ResumeApproved, ModelError, EndTurn, ToolUse,
       AskApproval, StoreFailed, AtModelCall
  <2>2. QED
    BY <2>1 DEF AskedLast
<1>3. ASSUME NEW h, NEW f, NEW c, NEW a, Return(s, h, Result(f, c, a))
      PROVE  /\ att'[s].phase = "result" /\ att'[s].res.ask = a
             /\ \A q \in Slots : q # s => att'[q] = att[q]
  <2>1. Result(f, c, a).ask = a
    BY DEF Result
  <2> DEFINE r == Result(f, c, a)
  <2>2. Return(s, h, r) /\ r.ask = a
    BY <1>3, <2>1
  <2> HIDE DEF r
  <2>3. QED
    BY <1>1, <2>2, ReturnHist
<1>4. ASSUME NEW p, NEW f, NEW b, NEW l, NEW h, p # "idle",
             Advance(s, [att[s] EXCEPT !.phase = p, !.from = f, !.blk = b, !.loop = l,
                                       !.hist = h])
      PROVE  /\ att'[s].phase # "idle" /\ att'[s].res.ask = 0
             /\ \A q \in Slots : q # s => att'[q] = att[q]
  <2> DEFINE a == [att[s] EXCEPT !.phase = p, !.from = f, !.blk = b, !.loop = l, !.hist = h]
  <2>1. a.phase = p /\ a.res = att[s].res
    BY <1>1 DEF Attempts
  <2>2. att' = [att EXCEPT ![s] = a]
    BY <1>4 DEF Advance
  <2> HIDE DEF a
  <2>3. QED
    BY <1>1, <1>2, <1>4, <2>1, <2>2
<1>5. CASE BuildFailed(s)
  <2>1. Return(s, att[s].hist, Result(TRUE, FALSE, 0))
    BY <1>5 DEF BuildFailed
  <2>2. QED
    BY <1>2, <1>3, <2>1
<1>6. CASE ResumeApproved(s)
  <2>1. PICK b : Return(s, Answer(att[s].hist, {b}), Result(FALSE, TRUE, 0))
    BY <1>6 DEF ResumeApproved
  <2>2. QED
    BY <1>2, <1>3, <2>1
<1>7. CASE ModelError(s)
  <2>1. Return(s, att[s].hist, Result(FALSE, FALSE, 0))
    BY <1>7 DEF ModelError
  <2>2. QED
    BY <1>2, <1>3, <2>1
<1>8. CASE EndTurn(s)
  <2>1. PICK text : Return(s, att[s].hist, Result(text, FALSE, 0))
    BY <1>8 DEF EndTurn
  <2>2. QED
    BY <1>2, <1>3, <2>1
<1>9. CASE ToolUse(s)
  <2> DEFINE a == att[s]
  <2> DEFINE k == Len(a.hist) + 1
  <2>1. PICK h : Advance(s, [a EXCEPT !.phase = "blocks", !.from = k, !.blk = k, !.hist = h])
    BY <1>9 DEF ToolUse
  <2> HIDE DEF k
  <2>2. [a EXCEPT !.phase = "blocks", !.from = k, !.blk = k, !.hist = h]
          = [a EXCEPT !.phase = "blocks", !.from = k, !.blk = k, !.loop = a.loop, !.hist = h]
    BY <1>1 DEF Attempts
  <2>3. Advance(s, [a EXCEPT !.phase = "blocks", !.from = k, !.blk = k, !.loop = a.loop,
                             !.hist = h])
    BY <2>1, <2>2
  <2>4. QED
    BY <1>2, <1>4, <2>3
<1>10. CASE AskApproval(s)
  <2>1. Return(s, att[s].hist, Result(FALSE, FALSE, nextId))
    BY <1>10 DEF AskApproval
  <2>2. QED
    BY <1>2, <1>3, <1>10, <2>1
<1>11. CASE StoreFailed(s)
  <2> DEFINE a == att[s]
  <2> DEFINE h == Answer(a.hist, a.from..Len(a.hist))
  <2>1. AnswerWithError(s) /\ a.phase = "blocks"
    BY <1>11 DEF StoreFailed
  <2>2. CASE a.blk < Len(a.hist)
    <3> DEFINE k == a.blk + 1
    <3>1. Advance(s, [a EXCEPT !.blk = k])
      BY <2>1, <2>2 DEF AnswerWithError
    <3> HIDE DEF k
    <3>2. [a EXCEPT !.blk = k]
            = [a EXCEPT !.phase = "blocks", !.from = a.from, !.blk = k, !.loop = a.loop,
                        !.hist = a.hist]
      BY <1>1, <2>1 DEF Attempts
    <3>3. Advance(s, [a EXCEPT !.phase = "blocks", !.from = a.from, !.blk = k,
                               !.loop = a.loop, !.hist = a.hist])
      BY <3>1, <3>2
    <3>4. QED
      BY <1>2, <1>4, <3>3
  <2>3. CASE ~(a.blk < Len(a.hist)) /\ a.loop + 1 < MaxIterations
    <3> DEFINE l == a.loop + 1
    <3>1. Advance(s, [a EXCEPT !.phase = "model", !.loop = l, !.hist = h])
      BY <2>1, <2>3 DEF AnswerWithError
    <3> HIDE DEF l, h
    <3>2. [a EXCEPT !.phase = "model", !.loop = l, !.hist = h]
            = [a EXCEPT !.phase = "model", !.from = a.from, !.blk = a.blk, !.loop = l,
                        !.hist = h]
      BY <1>1 DEF Attempts
    <3>3. Advance(s, [a EXCEPT !.phase = "model", !.from = a.from, !.blk = a.blk,
                               !.loop = l, !.hist = h])
      BY <3>1, <3>2
    <3>4. QED
      BY <1>2, <1>4, <3>3
  <2>4. CASE ~(a.blk < Len(a.hist)) /\ ~(a.loop + 1 < MaxIterations)
    <3>1. Return(s, h, Result(TRUE, FALSE, 0))
      BY <2>1, <2>4 DEF AnswerWithError
    <3>2. QED
      BY <1>2, <1>3, <3>1
  <2>5. QED
    BY <2>2, <2>3, <2>4
<1>12. QED
  BY <1>5, <1>6, <1>7, <1>8, <1>9, <1>10, <1>11 DEF AttemptStep

(* Only an attempt that has returned carries a question. *)
LEMMA AskedLastStep ==
  ASSUME IInv, AskedLast, [Next]_vars
  PROVE  AskedLast'
<1>0. att \in [Slots -> Attempts] /\ "current" \in Slots /\ "abandoned" \in Slots
  BY DEF IInv, TypeOK, Slots
<1>1. CASE att' = att
  BY <1>1 DEF AskedLast
<1>2. IdleAttempt.res.ask = 0 /\ NewAttempt(hist, grant).res.ask = 0
  BY DEF IdleAttempt, NewAttempt, NoResult, Result
<1>3. CASE Schedule \/ ProcessDecision
  <2>1. PICK n \in {NewAttempt(hist, grant), IdleAttempt} :
          att' = [att EXCEPT !["current"] = n]
    BY <1>3 DEF Schedule, ProcessDecision
  <2>2. att'["current"] = n /\ \A q \in Slots : q # "current" => att'[q] = att[q]
    BY <1>0, <2>1
  <2>3. QED
    BY <2>2, <1>2 DEF AskedLast
<1>4. CASE AttemptTimeout
  <2>1. PICK n \in {NewAttempt(hist, grant), IdleAttempt} :
          att' = [s \in Slots |-> IF s = "current" THEN n ELSE att["current"]]
    BY <1>4 DEF AttemptTimeout
  <2>2. \A s \in Slots : att'[s] \in {n, att["current"]}
    BY <2>1
  <2>3. QED
    BY <1>0, <1>2, <2>2 DEF AskedLast
<1>5. ASSUME NEW s \in Slots, AttemptStep(s) PROVE AskedLast'
  BY <1>5, AttemptAsks DEF AskedLast
<1>6. QED
  BY <1>1, <1>3, <1>4, <1>5
  DEF Next, Workflow, SetUp, Reviewed, ApprovalTimeout, Review, Signal, Restart, wfVars, vars

(* A step that moves neither the handlers nor the pause. *)
LEMMA QuietAnswers ==
  ASSUME Answers, UNCHANGED <<rev, decided, nextId, grants>>,
         att'["abandoned"] = att["abandoned"],
         att'["current"].res.ask = att["current"].res.ask,
         Closed => Closed', pc # "waiting", pc' # "waiting"
  PROVE  Answers'
  BY DEF Answers, NoneLate, EveryRequest, SignalsAreDecisions, Signalling, GrantsAreDecisions,
     PauseIsDecided

(* A step of the handlers after which no more of them are about to signal. *)
LEMMA HandlersAnswers ==
  ASSUME Answers, UNCHANGED <<decided, nextId, grants, pc, waitFor, decision, att>>,
         \A q \in Reviewers : rev'[q].at = "signal" => rev'[q] = rev[q]
  PROVE  Answers'
<1>1. \A id : Signalling(id)' \subseteq Signalling(id)
  BY DEF Signalling
<1>2. NoneLate' /\ EveryRequest'
  BY DEF Answers, NoneLate, EveryRequest, Closed
<1>3. SignalsAreDecisions'
  BY <1>1 DEF Answers, SignalsAreDecisions
<1>4. GrantsAreDecisions' /\ PauseIsDecided'
  BY <1>1 DEF Answers, GrantsAreDecisions, PauseIsDecided
<1>5. QED
  BY <1>2, <1>3, <1>4 DEF Answers

(* The end of a session: what it was granted stays as it is. *)
LEMMA FinishAnswers ==
  ASSUME Answers, UNCHANGED <<rev, decided, grants>>,
         att'["abandoned"] = att["abandoned"], pc' = "completed"
  PROVE  Answers'
  BY DEF Answers, NoneLate, EveryRequest, SignalsAreDecisions, Signalling, GrantsAreDecisions,
     PauseIsDecided, Closed

LEMMA ProcessDecisionAnswers ==
  ASSUME IInv, Answers, ProcessDecision
  PROVE  Answers'
<1> DEFINE ask == att["current"].res.ask
<1>1. /\ pc = "activity" /\ att' = [att EXCEPT !["current"] = IdleAttempt]
      /\ UNCHANGED <<rev, decided, nextId, grants>>
  BY DEF ProcessDecision, storeVars
<1>2. \/ ask # 0 /\ pc' = "waiting" /\ waitFor' = ask /\ decision' = "none"
      \/ pc' = "completed"
      \/ ask = 0 /\ pc' = "schedule"
  BY DEF ProcessDecision, Announce, Finish
<1>3. /\ att'["abandoned"] = att["abandoned"] /\ att'["current"] = IdleAttempt
      /\ IdleAttempt.res.ask = 0
  BY <1>1 DEF IInv, TypeOK, Slots, IdleAttempt, NoResult, Result
<1>4. CASE ask # 0 /\ pc' = "waiting" /\ waitFor' = ask /\ decision' = "none"
  <2>1. EveryRequest'
    BY <1>1, <1>4 DEF Answers, EveryRequest, Closed
  <2>2. QED
    BY <1>1, <1>3, <1>4, <2>1
    DEF Answers, NoneLate, SignalsAreDecisions, Signalling, GrantsAreDecisions, PauseIsDecided
<1>5. CASE pc' = "completed"
  BY <1>1, <1>3, <1>5, FinishAnswers
<1>6. CASE ask = 0 /\ pc' = "schedule"
  BY <1>1, <1>3, <1>6, QuietAnswers DEF Closed
<1>7. QED
  BY <1>2, <1>4, <1>5, <1>6

LEMMA ReviewedAnswers ==
  ASSUME IInv, Answers, Reviewed
  PROVE  Answers'
<1> DEFINE g == [tool |-> asked[waitFor], id |-> waitFor]
<1>1. /\ pc = "waiting" /\ decision # "none"
      /\ UNCHANGED <<rev, decided, nextId, waitFor, decision, att>>
      /\ \/ decision = "approved" /\ grants' = grants \union {g}
              /\ pc' \in {"completed", "schedule"}
         \/ grants' = grants /\ pc' = "completed"
  BY DEF Reviewed, Finish, storeVars
<1>2. g.id = waitFor
  OBVIOUS
<1> HIDE DEF g
<1>3. CASE decision = "approved" /\ grants' = grants \union {g} /\ pc' \in {"completed", "schedule"}
  <2>1. decided[waitFor] = <<"approved">> /\ Signalling(waitFor) = {}
    BY <1>1, <1>3 DEF Answers, PauseIsDecided
  <2>2. GrantsAreDecisions'
    BY <1>1, <1>2, <1>3, <2>1 DEF Answers, GrantsAreDecisions, Signalling
  <2>3. EveryRequest'
    <3>1. \E x \in grants' : x.id = waitFor
      BY <1>2, <1>3
    <3>2. QED
      BY <1>1, <1>3, <3>1 DEF Answers, EveryRequest, Closed
  <2>4. QED
    BY <1>1, <1>3, <2>2, <2>3
    DEF Answers, NoneLate, SignalsAreDecisions, Signalling, PauseIsDecided
<1>4. CASE grants' = grants /\ pc' = "completed"
  BY <1>1, <1>4, FinishAnswers
<1>5. QED
  BY <1>1, <1>3, <1>4

LEMMA AttemptAnswers ==
  ASSUME IInv, Orderly', AskedLast, Answers, NEW s \in Slots, AttemptStep(s)
  PROVE  Answers'
<1>1. /\ att[s].phase \notin {"idle", "result"} /\ att[s].res.ask = 0
      /\ \A q \in Slots : q # s => att'[q] = att[q]
      /\ \/ att'[s].res.ask = 0
         \/ AskApproval(s) /\ att'[s].res.ask = nextId
  BY AttemptAsks
<1>2. s = "current"
  BY <1>1 DEF Answers, NoneLate, Slots
<1>3. pc = "activity"
  BY <1>1, <1>2 DEF IInv, Pending
<1>4. att'["abandoned"] = att["abandoned"]
  BY <1>1, <1>2 DEF Slots
<1>5. UNCHANGED <<rev, decided, grants, pc>>
  BY DEF AttemptStep, BuildFailed, ResumeApproved, ModelError, EndTurn, ToolUse, AskApproval,
     StoreFailed, StoreHITLApproval, storeVars, wfVars
<1>6. CASE AskApproval(s) /\ att'[s].res.ask = nextId
  <2>1. nextId' = nextId + 1 /\ nextId \in Nat
    BY <1>6 DEF AskApproval, StoreHITLApproval, IInv, TypeOK, StoreTypeOK
  <2>2. EveryRequest'
    <3> SUFFICES ASSUME NEW id \in Ids, id < nextId'
                 PROVE  (\E g \in grants : g.id = id) \/ id = att'["current"].res.ask
      BY <1>5 DEF EveryRequest
    <3>1. id < nextId \/ id = nextId
      BY <2>1 DEF Ids
    <3>2. QED
      BY <3>1, <1>1, <1>2, <1>3, <1>6 DEF Answers, EveryRequest, Closed, Ids
  <2>3. QED
    BY <1>3, <1>4, <1>5, <2>2
    DEF Answers, NoneLate, SignalsAreDecisions, Signalling, GrantsAreDecisions, PauseIsDecided
<1>7. CASE att'[s].res.ask = 0 /\ ~AskApproval(s)
  <2>1. nextId' = nextId
    <3>1. CASE StoreFailed(s)
      <4>1. ~Fault("store_reply_lost")
        <5>1. faults \in [FaultKinds -> Nat] /\ faults'["store_reply_lost"] = 0
          BY DEF IInv, TypeOK, Orderly
        <5>2. QED
          BY <5>1 DEF Fault, FaultKinds
      <4>2. QED
        BY <3>1, <4>1 DEF StoreFailed, storeVars
    <3>2. CASE ~StoreFailed(s)
      BY <1>7, <3>2 DEF AttemptStep, BuildFailed, ResumeApproved, ModelError, EndTurn,
         ToolUse, storeVars
    <3>3. QED
      BY <3>1, <3>2
  <2>2. QED
    BY <1>1, <1>2, <1>3, <1>4, <1>5, <1>7, <2>1, QuietAnswers DEF Closed
<1>8. AskApproval(s) => att'[s].res.ask = nextId
  <2>1. Result(FALSE, FALSE, nextId).ask = nextId
    BY DEF Result
  <2>2. AskApproval(s) => Return(s, att[s].hist, Result(FALSE, FALSE, nextId))
    BY DEF AskApproval
  <2>3. TypeOK
    BY DEF IInv
  <2>4. QED
    BY <2>1, <2>2, <2>3, ReturnHist
<1>9. QED
  BY <1>1, <1>6, <1>7, <1>8

LEMMA OneIsNotNone == \A v : <<v>> # <<>>
<1> SUFFICES ASSUME NEW v, <<v>> = <<>> PROVE FALSE
  OBVIOUS
<1>1. Len(<<v>>) = 1 /\ Len(<<>>) = 0
  OBVIOUS
<1>2. QED
  BY <1>1

(* A handler that is about to signal one request signals no other.         *)
LEMMA OthersSignalling ==
  ASSUME NEW id, NEW r \in Reviewers, Signalling(id) = {}, rev'[r].id # id,
         \A q \in Reviewers : q # r => rev'[q] = rev[q]
  PROVE  Signalling(id)' = {}
<1>1. ASSUME NEW q \in Reviewers, rev'[q].at = "signal", rev'[q].id = id
      PROVE  FALSE
  <2>1. q # r
    BY <1>1
  <2>2. rev'[q] = rev[q]
    BY <2>1
  <2>3. q \in Signalling(id)
    BY <1>1, <2>2 DEF Signalling
  <2>4. QED
    BY <2>3
<1>2. QED
  BY <1>1 DEF Signalling

LEMMA ReviewAnswers ==
  ASSUME IInv, StoreIInv, Orderly', Answers, NEW r \in Reviewers, Review(r)
  PROVE  Answers'
<1>1. StoreTypeOK /\ ReviewerStep(r)
      /\ UNCHANGED <<nextId, grants, pc, waitFor, decision, att>>
  BY DEF StoreIInv, Review, ReviewerStep, HandlerStep, RefuseDecision, CheckPending,
     WriteStatus, FinishWrite, storeVars, wfVars
<1>2. CASE \E i \in Ids : RefuseDecision(r, i)
  BY <1>1, <1>2, HandlersAnswers DEF RefuseDecision, storeVars
<1>3. CASE (\E i \in Ids, d \in Decisions : CheckPending(r, i, d)) \/ WriteStatus(r)
  <2>1. decided' = decided /\ rev'[r].at \in {"write", "store"}
        /\ \A q \in Reviewers : q # r => rev'[q] = rev[q]
    <3>1. CASE \E i \in Ids, d \in Decisions : CheckPending(r, i, d)
      BY <1>1, <3>1 DEF CheckPending, StoreTypeOK
    <3>2. CASE WriteStatus(r)
      <4>1. rev[r] \in [at : {"write", "store", "signal"}, id : Ids, verdict : Decisions]
        BY <1>1, <3>2, BusyReviewer DEF WriteStatus
      <4>2. QED
        BY <1>1, <3>2, <4>1 DEF WriteStatus, StoreTypeOK
    <3>3. QED
      BY <1>3, <3>1, <3>2
  <2>2. QED
    BY <1>1, <2>1, HandlersAnswers
<1>4. CASE FinishWrite(r)
  <2>1. PICK i \in Ids, v \in Decisions :
          rev[r].id = i /\ rev[r].verdict = v /\ rev[r].at = "store"
    BY <1>1, <1>4, BusyReviewer DEF FinishWrite
  <2>2. /\ rev'[r].at = "signal" /\ rev'[r].id = i /\ rev'[r].verdict = v
        /\ \A q \in Reviewers : q # r => rev'[q] = rev[q]
        /\ decided'[i] = Append(decided[i], v)
        /\ \A id \in Ids : id # i => decided'[id] = decided[id]
    BY <1>1, <1>4, <2>1, BusyReviewer DEF FinishWrite, StoreTypeOK
  <2>3. decided[i] = <<>> /\ decided'[i] = <<v>>
    <3>1. Len(decided'[i]) <= 1
      BY DEF Orderly, ProcessedOnce
    <3>2. decided[i] \in Seq(Decisions)
      BY <1>1 DEF StoreTypeOK
    <3>3. Len(decided[i]) = 0
      BY <3>1, <3>2, <2>2, AppendFacts
    <3>4. decided[i] = <<>>
      BY <3>2, <3>3, AppendFacts
    <3>5. QED
      BY <3>4, <2>2
  <2>4. Signalling(i) = {}
    BY <2>3 DEF Answers, SignalsAreDecisions, Signalling
  <2>5. SignalsAreDecisions'
    <3> SUFFICES ASSUME NEW p \in Reviewers, rev'[p].at = "signal"
                 PROVE  /\ decided'[rev'[p].id] = <<rev'[p].verdict>>
                        /\ \A q \in Reviewers : rev'[q].at = "signal" /\ rev'[q].id = rev'[p].id
                                                 => q = p
      BY DEF SignalsAreDecisions, Signalling
    <3>1. CASE p = r
      BY <3>1, <2>2, <2>3, <2>4 DEF Signalling
    <3>2. CASE p # r
      <4>1. rev[p].at = "signal" /\ rev'[p] = rev[p] /\ rev[p].id # i /\ rev[p].id \in Ids
        BY <1>1, <3>2, <2>2, <2>4, BusyReviewer DEF Signalling
      <4>2. /\ decided[rev[p].id] = <<rev[p].verdict>>
            /\ \A q \in Reviewers : rev[q].at = "signal" /\ rev[q].id = rev[p].id => q = p
        BY <4>1 DEF Answers, SignalsAreDecisions, Signalling
      <4>3. decided'[rev'[p].id] = <<rev'[p].verdict>>
        BY <4>1, <4>2, <2>2
      <4>4. ASSUME NEW q \in Reviewers, rev'[q].at = "signal", rev'[q].id = rev'[p].id
            PROVE  q = p
        BY <4>1, <4>2, <4>4, <2>2
      <4>5. QED
        BY <4>3, <4>4
    <3>3. QED
      BY <3>1, <3>2
  <2>6. GrantsAreDecisions'
    <3> SUFFICES ASSUME NEW g \in grants
                 PROVE  decided'[g.id] = <<"approved">> /\ Signalling(g.id)' = {}
      BY <1>1 DEF GrantsAreDecisions
    <3>1. decided[g.id] = <<"approved">> /\ Signalling(g.id) = {} /\ g.id \in Ids
      BY DEF Answers, GrantsAreDecisions, IInv, TypeOK, Grants
    <3>2. g.id # i
      BY <3>1, <2>3, OneIsNotNone
    <3>3. decided'[g.id] = <<"approved">>
      BY <3>1, <3>2, <2>2
    <3>4. Signalling(g.id)' = {}
      BY <3>1, <3>2, <2>2, OthersSignalling
    <3>5. QED
      BY <3>3, <3>4
  <2>7. PauseIsDecided'
    <3> SUFFICES ASSUME pc = "waiting", decision # "none"
                 PROVE  decided'[waitFor] = <<decision>> /\ Signalling(waitFor)' = {}
      BY <1>1 DEF PauseIsDecided
    <3>1. decided[waitFor] = <<decision>> /\ Signalling(waitFor) = {} /\ waitFor \in Ids
      BY DEF Answers, PauseIsDecided, IInv, TypeOK, Asked
    <3>2. waitFor # i
      BY <3>1, <2>3, OneIsNotNone
    <3>3. decided'[waitFor] = <<decision>>
      BY <3>1, <3>2, <2>2
    <3>4. waitFor' = waitFor /\ Signalling(waitFor)' = {}
      BY <1>1, <3>1, <3>2, <2>2, OthersSignalling
    <3>5. QED
      BY <3>3, <3>4
  <2>8. NoneLate' /\ EveryRequest'
    BY <1>1 DEF Answers, NoneLate, EveryRequest, Closed
  <2>9. QED
    BY <2>5, <2>6, <2>7, <2>8 DEF Answers
<1>5. QED
  BY <1>1, <1>2, <1>3, <1>4 DEF ReviewerStep, HandlerStep

LEMMA SignalAnswers ==
  ASSUME IInv, StoreIInv, Answers, NEW r \in Reviewers, Signal(r)
  PROVE  Answers'
<1>1. /\ StoreTypeOK /\ rev[r].at = "signal" /\ rev'[r].at = "idle"
      /\ \A q \in Reviewers : q # r => rev'[q] = rev[q]
      /\ UNCHANGED <<decided, nextId, grants, pc, waitFor, att>>
      /\ decision' = decision \/ (~Closed /\ decision' = rev[r].verdict)
  BY DEF StoreIInv, Signal, SendSignal, StoreTypeOK, Idle
<1>2. \A id : Signalling(id)' = Signalling(id) \ {r}
  BY <1>1 DEF Signalling
<1>3. NoneLate' /\ EveryRequest'
  BY <1>1 DEF Answers, NoneLate, EveryRequest, Closed
<1>4. SignalsAreDecisions'
  BY <1>1, <1>2 DEF Answers, SignalsAreDecisions
<1>5. GrantsAreDecisions'
  BY <1>1, <1>2 DEF Answers, GrantsAreDecisions
<1>6. PauseIsDecided'
  <2>1. CASE decision' = decision
    BY <1>1, <1>2, <2>1 DEF Answers, PauseIsDecided
  <2>2. CASE pc = "waiting" /\ decision' = rev[r].verdict
    \* The only request left for a handler to answer is the one waited for.
    <3>1. rev[r].id \in Ids /\ rev[r].id < nextId
      BY <1>1, BusyReviewer DEF StoreIInv, FreshIds
    <3>2. r \in Signalling(rev[r].id)
      BY <1>1 DEF Signalling
    <3>3. ~\E g \in grants : g.id = rev[r].id
      BY <3>2 DEF Answers, GrantsAreDecisions
    <3>4. att["current"].res.ask = 0
      BY <2>2 DEF IInv, Pending
    <3>5. rev[r].id = waitFor
      BY <2>2, <3>1, <3>3, <3>4 DEF Answers, EveryRequest, Closed, Ids
    <3>6. decided[waitFor] = <<rev[r].verdict>> /\ Signalling(waitFor) = {r}
      BY <1>1, <3>2, <3>5 DEF Answers, SignalsAreDecisions
    <3>7. QED
      BY <1>1, <1>2, <2>2, <3>6 DEF PauseIsDecided
  <2>3. CASE pc # "waiting"
    BY <1>1, <2>3 DEF PauseIsDecided
  <2>4. QED
    BY <1>1, <2>1, <2>2, <2>3
<1>7. QED
  BY <1>3, <1>4, <1>5, <1>6 DEF Answers

LEMMA AnswersStep == IInv /\ AnswersIInv /\ [Next]_vars => AnswersIInv'
<1> SUFFICES ASSUME IInv, AnswersIInv, [Next]_vars PROVE AnswersIInv'
  OBVIOUS
<1>1. StoreIInv'
  BY StepUsesStore, StoreStepIInv DEF AnswersIInv
<1>2. AskedLast'
  BY AskedLastStep DEF AnswersIInv
<1>3. ASSUME Orderly' PROVE Answers'
  <2>0. Answers /\ StoreIInv /\ AskedLast
    BY <1>3, OrderlyBefore DEF AnswersIInv
  <2>1. CASE UNCHANGED vars
    BY <2>0, <2>1, HandlersAnswers DEF vars, storeVars, wfVars
  <2>2. CASE SetUp
    BY <2>0, <2>2, QuietAnswers DEF SetUp, storeVars, Closed
  <2>3. CASE Schedule
    <3>1. /\ pc = "schedule" /\ pc' = "activity" /\ UNCHANGED <<rev, decided, nextId, grants>>
          /\ att["current"].res.ask = 0
      BY <2>3 DEF Schedule, storeVars, IInv, Pending
    <3> DEFINE n == NewAttempt(hist, grant)
    <3>2. att' = [att EXCEPT !["current"] = n] /\ n.res.ask = 0
      BY <2>3 DEF Schedule, NewAttempt, IdleAttempt, NoResult, Result
    <3> HIDE DEF n
    <3>3. att'["abandoned"] = att["abandoned"] /\ att'["current"] = n
      BY <3>2 DEF IInv, TypeOK, Slots
    <3>4. QED
      BY <2>0, <3>1, <3>2, <3>3, QuietAnswers DEF Closed
  <2>4. CASE ApprovalTimeout
    BY <2>0, <2>4, FinishAnswers DEF ApprovalTimeout, Finish, storeVars
  <2>5. CASE AttemptTimeout
    <3>1. faults'["attempt_timeout"] = 0
      BY <1>3 DEF Orderly
    <3>2. faults'["attempt_timeout"] = faults["attempt_timeout"] + 1
          /\ faults["attempt_timeout"] \in Nat
      BY <2>5 DEF AttemptTimeout, Fault, IInv, TypeOK, FaultKinds
    <3>3. QED
      BY <3>1, <3>2
  <2>6. ASSUME NEW s \in Slots, AttemptStep(s) PROVE Answers'
    BY <1>3, <2>0, <2>6, AttemptAnswers
  <2>7. ASSUME NEW r \in Reviewers, Review(r) \/ Signal(r) PROVE Answers'
    BY <1>3, <2>0, <2>7, ReviewAnswers, SignalAnswers
  <2>8. CASE Restart
    BY <2>0, <2>8, HandlersAnswers DEF Restart, RestartInitiator, Idle, wfVars
  <2>9. QED
    BY <2>0, <2>1, <2>2, <2>3, <2>4, <2>5, <2>6, <2>7, <2>8, ProcessDecisionAnswers,
       ReviewedAnswers DEF Next, Workflow
<1>4. QED
  BY <1>1, <1>2, <1>3 DEF AnswersIInv

(* An answer reaches the request it was given for: a grant belongs to a    *)
(* request that was approved, and only approved, as long as no request is  *)
(* orphaned and none decided by two handlers.                              *)
THEOREM AnswersAreTheirOwn == Spec => []AnswersReachTheirRequest
<1>1. Init => AnswersIInv
  <2> SUFFICES ASSUME Init PROVE AnswersIInv
    OBVIOUS
  <2>1. StoreIInv
    BY StoreInitIInv DEF Init
  <2>2. /\ nextId = 1 /\ grants = {} /\ pc = "setup"
        /\ \A s \in Slots : att[s].phase = "idle" /\ att[s].res.ask = 0
        /\ \A r \in Reviewers : rev[r].at = "idle"
    BY DEF Init, StoreInit, Idle, IdleAttempt, NoResult, Result
  <2>3. AskedLast /\ Answers
    BY <2>2 DEF AskedLast, Answers, NoneLate, EveryRequest, SignalsAreDecisions,
       GrantsAreDecisions, PauseIsDecided, Slots, Ids
  <2>4. QED
    BY <2>1, <2>3 DEF AnswersIInv
<1>2. AnswersIInv => AnswersReachTheirRequest
  BY DEF AnswersIInv, Orderly, Answers, GrantsAreDecisions, AnswersReachTheirRequest
<1>3. QED
  BY <1>1, <1>2, AgentInitIInv, NextIInv, AnswersStep, PTL DEF Spec
============================================================================
