----------------------------- MODULE HitlAgent -----------------------------
(***************************************************************************)
(* One agent session of the anthropic-agents framework, end to end:        *)
(*   - AgentWorkflow (agent-workers/workflows.py), the durable reasoning   *)
(*     loop that pauses for approvals;                                     *)
(*   - its activity anthropic_agents_run (anthropic_agent.py, its core     *)
(*     loop in anthropic_agent_core.py, the tool bridge), which Temporal   *)
(*     abandons after five minutes and runs again, at most MaxAttempts     *)
(*     times, while the abandoned attempt may still be running;            *)
(*   - the tool gate of skill-dispatcher, which runs a tool that comes     *)
(*     with an approval id and answers 202 to every other mutating call;   *)
(*   - the approval store and its reviewers (ApprovalStore).               *)
(*                                                                         *)
(* The message history is abstracted to the sequence of tool_use blocks    *)
(* the model has asked for, each answered or not by a tool_result.         *)
(***************************************************************************)
EXTENDS ApprovalStore

CONSTANTS
  MaxIterations, (* manifest.max_iterations: outer and inner loop bound    *)
  MaxAttempts,   (* retry_policy.maximum_attempts of the activity          *)
  MaxBlocks,     (* bound: tool_use blocks in one model turn               *)
  MaxUses,       (* bound: tool_use blocks in one session                  *)
  MaxFaults      (* bound: infrastructure faults in one session            *)

ASSUME AgentAssumption ==
  /\ MaxIterations \in Nat \ {0}
  /\ MaxAttempts \in Nat \ {0}
  /\ MaxBlocks \in Nat
  /\ MaxUses \in Nat
  /\ MaxUses <= MaxApprovals   (* a block is asked about at most once *)
  /\ MaxFaults \in Nat

FaultKinds == {"setup_failed", "attempt_timeout", "build_failed", "store_failed",
               "store_reply_lost", "dispatch_failed", "signal_lost", "restart"}
Slots      == {"current", "abandoned"}
NoGrant    == [tool |-> NoTool, id |-> 0]

VARIABLES
  pc,            (* where AgentWorkflow.run is                             *)
  iter,          (* i + 1 of "for i in range(max_iterations)"              *)
  decision,      (* self._hitl_decision                                    *)
  grant,         (* agent_context["approved_hitl_tools"], at most one      *)
  hist,          (* messages: the tool_use blocks and whether answered     *)
  waitFor,       (* the approval id of the pause                           *)
  events,        (* self._events                                           *)
  final,         (* final_answer, by its kind                              *)
  attempts,      (* attempts Temporal has made of the running activity     *)
  att,           (* Slots -> an attempt's own state                        *)
  uses,          (* tool_use blocks the model has produced so far          *)
  faults,        (* FaultKinds -> how often each fault has happened        *)
  runs,          (* history: <<block, approval id>> of every tool run      *)
  grants,        (* history: every grant the workflow has been given       *)
  signalled      (* history: "approved" signals the workflow has received  *)

wfVars  == <<pc, iter, decision, grant, hist, waitFor, events,
             final, attempts>>
vars    == <<storeVars, wfVars, att, uses, faults, runs, grants, signalled>>

Closed  == pc \in {"completed", "failed"}

----------------------------------------------------------------------------
(* Faults are drawn from one budget, so that no behaviour has more than    *)
(* MaxFaults of them.                                                      *)
FaultCount ==
  faults["setup_failed"] + faults["attempt_timeout"] + faults["build_failed"]
    + faults["store_failed"] + faults["store_reply_lost"]
    + faults["dispatch_failed"] + faults["signal_lost"] + faults["restart"]

Fault(k) ==
  /\ FaultCount < MaxFaults
  /\ faults' = [faults EXCEPT ![k] = @ + 1]

(* A block of the history that has no tool_result yet. *)
Unanswered(h) == {i \in DOMAIN h : ~h[i].answered}

(* Mutants of Resumable: any unanswered block, a block already answered,   *)
(* only blocks already answered.                                           *)
ResumableAnyTool(h, g)  == {i \in Unanswered(h) : g # NoGrant}
ResumableAnswered(h, g) == {i \in DOMAIN h : h[i].tool = g.tool}
ResumableInverted(h, g) == {i \in DOMAIN h : h[i].answered /\ h[i].tool = g.tool}

(* The blocks the resume path would run: unanswered, and of a tool whose   *)
(* name has been approved (tool_use_ids_with_results decides "unanswered").*)
Resumable(h, g) == {i \in Unanswered(h) : h[i].tool = g.tool}

Answer(h, S) ==
  [i \in DOMAIN h |-> IF i \in S THEN [h[i] EXCEPT !.answered = TRUE] ELSE h[i]]

(* An AgentDecision: a final answer or none, whether to go on, and the     *)
(* approval to wait for (0 when hitl_pending is false).                    *)
Result(f, c, a) == [final |-> f, cont |-> c, ask |-> a]
NoResult    == Result(FALSE, FALSE, 0)
IdleAttempt == [phase |-> "idle", hist |-> <<>>, from |-> 1, blk |-> 1,
                loop |-> 0, grant |-> NoGrant, res |-> NoResult]
NewAttempt(h, g) == [IdleAttempt EXCEPT !.phase = "start", !.hist = h, !.grant = g]

Init ==
  /\ StoreInit
  /\ pc = "setup"
  /\ iter = 0
  /\ decision = "none"
  /\ grant = NoGrant
  /\ hist = <<>>
  /\ waitFor = 0
  /\ events = <<>>
  /\ final = "none"
  /\ attempts = 0
  /\ att = [s \in Slots |-> IdleAttempt]
  /\ uses = 0
  /\ faults = [k \in FaultKinds |-> 0]
  /\ runs = <<>>
  /\ grants = {}
  /\ signalled = 0

----------------------------------------------------------------------------
(* AgentWorkflow.run                                                       *)

(* Before the loop: memories, MCP servers and system tools are fetched by  *)
(* activities with two attempts each; when one gives up the workflow       *)
(* fails, before or after "thinking" is emitted.                           *)
SetUp ==
  /\ pc = "setup"
  /\ \/ /\ pc' = "schedule"
        /\ events' = <<"thinking">>
        /\ UNCHANGED faults
     \/ /\ Fault("setup_failed")
        /\ pc' = "failed"
        /\ events' \in {<<>>, <<"thinking">>}
  /\ UNCHANGED <<storeVars, iter, decision, grant, hist, waitFor, final,
                 attempts, att, uses, runs, grants, signalled>>

(* "for i in range(max_iterations)": schedule the activity. *)
Schedule ==
  /\ pc = "schedule"
  /\ pc' = "activity"
  /\ iter' = iter + 1
  /\ attempts' = 1
  /\ att' = [att EXCEPT !["current"] = NewAttempt(hist, grant)]
  /\ UNCHANGED <<storeVars, decision, grant, hist, waitFor, events, final, uses,
                 faults, runs, grants, signalled>>

(* The loop is in its last iteration. *)
LastIteration == iter = MaxIterations

(* A mutant of Finish that never tells a client the session is over. *)
FinishWithoutDone(kind) ==
  /\ pc' = "completed"
  /\ final' = kind
  /\ grant' = NoGrant
  /\ events' = Append(events, "text")

(* After the loop: approvals are cleared, the answer and "done" emitted. *)
Finish(kind) ==
  /\ pc' = "completed"
  /\ final' = kind
  /\ grant' = NoGrant
  /\ events' = events \o <<"text", "done">>

(* Mutants of Announce: the decision slot keeps an older decision; a later *)
(* pause waits for the first request again.                                *)
AnnounceUnreset(ask) ==
  /\ pc' = "waiting"
  /\ waitFor' = ask
  /\ events' = Append(events, "approval")
  /\ UNCHANGED decision

AnnounceFirst(ask) ==
  /\ pc' = "waiting"
  /\ waitFor' = IF waitFor = 0 THEN ask ELSE waitFor
  /\ events' = Append(events, "approval")
  /\ decision' = "none"

(* A pending approval is announced, the decision slot reset, and the       *)
(* workflow waits.                                                         *)
Announce(ask) ==
  /\ pc' = "waiting"
  /\ waitFor' = ask
  /\ events' = Append(events, "approval")
  /\ decision' = "none"

(* The activity's decision is processed in one workflow task: the workflow *)
(* pauses for an approval, or the loop goes on or ends.                    *)
ProcessDecision ==
  LET a == att["current"]
      r == a.res
  IN
  /\ pc = "activity"
  /\ a.phase = "result"
  /\ att' = [att EXCEPT !["current"] = IdleAttempt]
  /\ hist' = a.hist
  /\ \/ /\ r.ask # 0
        /\ Announce(r.ask)
        /\ UNCHANGED <<grant, final>>
     \/ /\ r.ask = 0
        /\ UNCHANGED <<waitFor, decision>>
        /\ IF r.final \/ ~r.cont \/ LastIteration
           THEN Finish(IF r.final THEN "answer" ELSE "exceeded")
           ELSE pc' = "schedule" /\ UNCHANGED <<grant, events, final>>
  /\ UNCHANGED <<storeVars, iter, attempts, uses, faults, runs, grants, signalled>>

(* wait_condition returns: the decision slot is no longer None. *)
Reviewed ==
  /\ pc = "waiting"
  /\ decision # "none"
  /\ \/ /\ decision = "approved"
        /\ LET g == [tool |-> asked[waitFor], id |-> waitFor] IN
           /\ grants' = grants \union {g}
           /\ IF LastIteration
              THEN Finish("exceeded")
              ELSE pc' = "schedule" /\ grant' = g /\ UNCHANGED <<events, final>>
     \/ /\ decision = "denied"
        /\ Finish("denied")
        /\ UNCHANGED grants
  /\ UNCHANGED <<storeVars, iter, decision, hist, waitFor, attempts, att, uses,
                 faults, runs, signalled>>

(* A mutant of ApprovalTimeout whose test is the wrong way round. *)
ApprovalTimeoutDecided ==
  /\ pc = "waiting"
  /\ decision # "none"
  /\ Finish("timeout")
  /\ UNCHANGED <<storeVars, iter, decision, hist, waitFor, attempts, att, uses,
                 faults, runs, grants, signalled>>

(* Five minutes without a decision. *)
ApprovalTimeout ==
  /\ pc = "waiting"
  /\ decision = "none"
  /\ Finish("timeout")
  /\ UNCHANGED <<storeVars, iter, decision, hist, waitFor, attempts, att, uses,
                 faults, runs, grants, signalled>>

(* The attempt has not answered in time (or its worker died): Temporal     *)
(* starts another from the same arguments, or fails the workflow.  The     *)
(* abandoned attempt is not stopped.                                       *)
AttemptTimeout ==
  /\ pc = "activity"
  /\ Fault("attempt_timeout")
  /\ IF attempts < MaxAttempts
     THEN /\ attempts' = attempts + 1
          /\ att' = [s \in Slots |-> IF s = "current" THEN NewAttempt(hist, grant)
                                                      ELSE att["current"]]
          /\ UNCHANGED pc
     ELSE /\ pc' = "failed"
          /\ att' = [s \in Slots |-> IF s = "current" THEN IdleAttempt
                                                      ELSE att["current"]]
          /\ UNCHANGED attempts
  /\ UNCHANGED <<storeVars, iter, decision, grant, hist, waitFor, events, final, uses,
                 runs, grants, signalled>>

----------------------------------------------------------------------------
(* anthropic_agents_run: one attempt, in slot s                            *)

Advance(s, a) == att' = [att EXCEPT ![s] = a]

Return(s, h, r) ==
  Advance(s, [att[s] EXCEPT !.phase = "result", !.hist = h, !.res = r])

(* An exception outside the reasoning loop (the agent cannot be built)     *)
(* becomes the final answer "Error: ...".                                  *)
BuildFailed(s) ==
  /\ att[s].phase = "start"
  /\ Fault("build_failed")
  /\ Return(s, att[s].hist, Result(TRUE, FALSE, 0))
  /\ UNCHANGED <<storeVars, wfVars, uses, runs, grants, signalled>>

(* execute_step resumes: the first unanswered block of an approved tool is *)
(* posted to the dispatcher with its approval id, which runs it; an error  *)
(* on the way is a result like any other.                                  *)
ResumeApproved(s) ==
  LET a == att[s] IN
  /\ a.phase = "start"
  /\ \E b \in Resumable(a.hist, a.grant) :
       /\ \A j \in Resumable(a.hist, a.grant) : b <= j
       /\ Return(s, Answer(a.hist, {b}), Result(FALSE, TRUE, 0))
       /\ \/ /\ runs' = Append(runs, [use |-> a.hist[b].use, tool |-> a.hist[b].tool,
                                      id |-> a.grant.id])
             /\ UNCHANGED faults
          \/ /\ Fault("dispatch_failed")
             /\ UNCHANGED runs
  /\ UNCHANGED <<storeVars, wfVars, uses, grants, signalled>>

(* The attempt is about to call the model. *)
AtModelCall(a) ==
  \/ a.phase = "model"
  \/ a.phase = "start" /\ Resumable(a.hist, a.grant) = {}

(* The API rejects a history with a tool_use that has no tool_result, and  *)
(* may fail for reasons of its own: status "error", no final answer.       *)
ModelError(s) ==
  /\ AtModelCall(att[s])
  /\ Return(s, att[s].hist, Result(FALSE, FALSE, 0))
  /\ UNCHANGED <<storeVars, wfVars, uses, faults, runs, grants, signalled>>

(* stop_reason "end_turn", with or without text. *)
EndTurn(s) ==
  /\ AtModelCall(att[s])
  /\ Unanswered(att[s].hist) = {}
  /\ \E text \in BOOLEAN : Return(s, att[s].hist, Result(text, FALSE, 0))
  /\ UNCHANGED <<storeVars, wfVars, uses, faults, runs, grants, signalled>>

(* stop_reason "tool_use": the blocks of the turn join the history. *)
ToolUse(s) ==
  LET a == att[s] IN
  /\ AtModelCall(a)
  /\ Unanswered(a.hist) = {}
  /\ \E n \in 1..MaxBlocks :
       /\ uses + n <= MaxUses
       /\ uses' = uses + n
       /\ \E turn \in [1..n -> Tools] :
            Advance(s, [a EXCEPT
              !.phase = "blocks",
              !.from  = Len(a.hist) + 1,
              !.blk   = Len(a.hist) + 1,
              !.hist  = a.hist \o
                 [i \in 1..n |-> [use |-> uses + i, tool |-> turn[i], answered |-> FALSE]]])
  /\ UNCHANGED <<storeVars, wfVars, faults, runs, grants, signalled>>

(* The next block is posted without an approval.  The gate answers 202, a  *)
(* request is stored, and the marker ends the turn at once: results of the *)
(* turn's earlier blocks are dropped with it.                              *)
AskApproval(s) ==
  LET a == att[s] IN
  /\ a.phase = "blocks"
  /\ StoreHITLApproval(a.hist[a.blk].tool)
  /\ Return(s, a.hist, Result(FALSE, FALSE, nextId))
  /\ UNCHANGED <<wfVars, uses, faults, runs, grants, signalled>>

(* The block is answered with an error text instead, and the turn goes on; *)
(* its results join the history together, after its last block.            *)
AnswerWithError(s) ==
  LET a == att[s] IN
  IF a.blk < Len(a.hist)
  THEN Advance(s, [a EXCEPT !.blk = @ + 1])
  ELSE IF a.loop + 1 < MaxIterations
  THEN Advance(s, [a EXCEPT !.phase = "model", !.loop = @ + 1,
                            !.hist = Answer(a.hist, a.from..Len(a.hist))])
  ELSE Return(s, Answer(a.hist, a.from..Len(a.hist)), Result(TRUE, FALSE, 0))

(* The dispatcher did not answer or storing the request failed; or only    *)
(* the store's reply was lost, and the request is there for reviewers to   *)
(* see although nobody waits for it.                                       *)
StoreFailed(s) ==
  /\ att[s].phase = "blocks"
  /\ AnswerWithError(s)
  /\ \/ Fault("store_failed") /\ UNCHANGED storeVars
     \/ Fault("store_reply_lost") /\ StoreHITLApproval(att[s].hist[att[s].blk].tool)
  /\ UNCHANGED <<wfVars, uses, runs, grants, signalled>>

AttemptStep(s) ==
  \/ BuildFailed(s)
  \/ ResumeApproved(s)
  \/ ModelError(s)
  \/ EndTurn(s)
  \/ ToolUse(s)
  \/ AskApproval(s)
  \/ StoreFailed(s)

----------------------------------------------------------------------------
(* workflow-initiator: reviewers decide, the decision is signalled.        *)

Review(r) ==
  /\ ReviewerStep(r)
  /\ UNCHANGED <<wfVars, att, uses, faults, runs, grants, signalled>>

(* hitl_response sets the decision slot of the running workflow, whatever  *)
(* approval_id the signal carries; a closed workflow or a failed call is   *)
(* an error nobody looks at.                                               *)
Signal(r) ==
  /\ SendSignal(r)
  /\ \/ /\ ~Closed
        /\ decision' = rev[r].verdict
        /\ signalled' = IF rev[r].verdict = "approved" THEN signalled + 1 ELSE signalled
        /\ UNCHANGED faults
     \/ /\ Closed
        /\ UNCHANGED <<decision, signalled, faults>>
     \/ /\ Fault("signal_lost")
        /\ UNCHANGED <<decision, signalled>>
  /\ UNCHANGED <<pc, iter, grant, hist, waitFor, events, final, attempts, att,
                 uses, runs, grants>>

Restart ==
  /\ Fault("restart")
  /\ RestartInitiator
  /\ UNCHANGED <<wfVars, att, uses, runs, grants, signalled>>

----------------------------------------------------------------------------
Workflow == SetUp \/ Schedule \/ ProcessDecision \/ Reviewed \/ ApprovalTimeout

Next ==
  \/ Workflow
  \/ AttemptTimeout
  \/ \E s \in Slots : AttemptStep(s)
  \/ \E r \in Reviewers : Review(r) \/ Signal(r)
  \/ Restart

Spec == Init /\ [][Next]_vars

(* Temporal keeps the workflow going and the running attempt is served by  *)
(* some worker; reviewers, faults and abandoned attempts owe nothing.      *)
Fairness == WF_vars(Workflow) /\ WF_vars(AttemptStep("current"))

FairSpec == Spec /\ Fairness

----------------------------------------------------------------------------
Grants == [tool : Tools, id : Ids]
Runs   == [use : 1..MaxUses, tool : Tools, id : Ids]
Blocks == [use : 1..MaxUses, tool : Tools, answered : BOOLEAN]

Attempts ==
  [phase : {"idle", "start", "model", "blocks", "result"},
   hist  : Seq(Blocks), from : Nat \ {0}, blk : Nat \ {0}, loop : Nat,
   grant : Grants \union {NoGrant},
   res   : [final : BOOLEAN, cont : BOOLEAN, ask : Ids \union {0}]]

TypeOK ==
  /\ StoreTypeOK
  /\ pc \in {"setup", "schedule", "activity", "waiting", "completed", "failed"}
  /\ iter \in 0..MaxIterations
  /\ decision \in Decisions \union {"none"}
  /\ grant \in Grants \union {NoGrant}
  /\ hist \in Seq(Blocks)
  /\ waitFor \in Ids \union {0}
  /\ events \in Seq({"thinking", "approval", "text", "done"})
  /\ final \in {"none", "answer", "exceeded", "denied", "timeout"}
  /\ attempts \in 0..MaxAttempts
  /\ att \in [Slots -> Attempts]
  /\ uses \in 0..MaxUses
  /\ faults \in [FaultKinds -> Nat]
  /\ runs \in Seq(Runs)
  /\ grants \in SUBSET Grants
  /\ signalled \in Nat

----------------------------------------------------------------------------
(* A mutating tool runs only under a grant the workflow was given while it *)
(* was paused, for that very tool; and every grant took an "approved"      *)
(* signal of its own.  Holds whatever is retried, lost or restarted.       *)
RunsAreGranted ==
  /\ \A i \in DOMAIN runs : [tool |-> runs[i].tool, id |-> runs[i].id] \in grants
  /\ Cardinality(grants) <= signalled

(* A tool_use block is run at most once, and once more for each attempt    *)
(* Temporal gave up waiting for: the tool_results in the history, not the  *)
(* attempt's memory, say what has already run.                             *)
RunsBounded ==
  \A u \in 1..MaxUses :
    Cardinality({i \in DOMAIN runs : runs[i].use = u})
      <= 1 + faults["attempt_timeout"]

(* A grant belongs to a request that was itself approved, as long as no    *)
(* request was decided by two overlapping handlers and none was orphaned   *)
(* (stored by an abandoned attempt, or with its reply lost).               *)
AnswersReachTheirRequest ==
  /\ faults["attempt_timeout"] = 0
  /\ faults["store_reply_lost"] = 0
  /\ ProcessedOnce
  => \A g \in grants : decided[g.id] = <<"approved">>

(* The event log a client polls: each pause is announced exactly once, all *)
(* pauses but an open or final one ended in a grant, and "text", "done"    *)
(* close the log of a completed session and of no other.                   *)
Announced(log) == Cardinality({i \in DOMAIN log : log[i] = "approval"})

EventsTellTheSession ==
  /\ pc \in {"schedule", "activity"} => Announced(events) = Cardinality(grants)
  /\ pc = "waiting" => Announced(events) = Cardinality(grants) + 1
  /\ pc = "completed" <=> final # "none"
  /\ \A i \in DOMAIN events :
       /\ events[i] = "text" => i = Len(events) - 1
       /\ events[i] = "done" => i = Len(events)
  /\ pc = "completed" => Len(events) >= 3 /\ events[Len(events)] = "done"
                                        /\ events[Len(events) - 1] = "text"

(* Whatever reviewers do or fail to do, the session ends. *)
SessionCloses == <>Closed

(* A grant that comes with an iteration to spare is used: the tool runs,   *)
(* unless the dispatcher or the worker fails it, or attempts run out.      *)
GrantIsUsed ==
  \A id \in Ids :
    pc = "schedule" /\ grant.id = id
      ~> \/ \E i \in DOMAIN runs : runs[i].id = id
         \/ faults["dispatch_failed"] + faults["build_failed"] > 0
         \/ pc = "failed"

----------------------------------------------------------------------------
(* What the documents and comments of the repository say, and the code     *)
(* does not do.                                                            *)

(* workflows.py: the answer "... was not reviewed within 5 minutes" is     *)
(* given only when nobody has decided, or is just deciding, the request.   *)
TimeoutMeansUnreviewed ==
  [][ApprovalTimeout =>
       decided[waitFor] = <<>> \/ \E r \in Reviewers : rev[r].id = waitFor]_vars
============================================================================
