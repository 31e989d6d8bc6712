--------------------------- MODULE ApprovalStore ---------------------------
(***************************************************************************)
(* The approval store of workflow-initiator (pkg/service/hitl.go): an      *)
(* in-memory sync.Map of approval requests, and the HTTP handlers that     *)
(* approve or deny one.  Each reviewer is one HTTP request in flight; a    *)
(* handler tests the status, writes it and signals the workflow in         *)
(* separate steps, because nothing locks the record between them.          *)
(*                                                                         *)
(* A Go string is two words (data pointer and length), so an unlocked      *)
(* write of Status is two stores and two racing writers can leave the      *)
(* pointer of one and the length of the other: the status is then "torn".  *)
(***************************************************************************)
EXTENDS Naturals, Sequences, FiniteSets

CONSTANTS
  Tools,         (* tool names a request may be about                      *)
  Reviewers,     (* approve/deny requests that may be in flight at once    *)
  MaxApprovals   (* bound: how many approval requests one run may store    *)

NoTool == "no tool"

ASSUME StoreAssumption ==
  /\ MaxApprovals \in Nat
  /\ IsFiniteSet(Reviewers)
  /\ NoTool \notin Tools

Ids       == 1..MaxApprovals
Decisions == {"approved", "denied"}
Words     == {"absent", "pending"} \union Decisions

VARIABLES
  status,        (* Ids -> [ptr, len]: the two words of Status             *)
  asked,         (* Ids -> the tool the request is about                   *)
  nextId,        (* the id the next stored request gets (a fresh uuid)     *)
  rev,           (* Reviewers -> where its handler is, and its request     *)
  decided        (* history: Ids -> the decisions handlers have recorded   *)

storeVars == <<status, asked, nextId, rev, decided>>

Word(w)   == [ptr |-> w, len |-> w]
Idle      == [at |-> "idle", id |-> 0, verdict |-> "denied"]

(* The string a reader of Status sees. *)
Status(id) == IF status[id].ptr = status[id].len THEN status[id].ptr ELSE "torn"

StoreInit ==
  /\ status  = [id \in Ids |-> Word("absent")]
  /\ asked   = [id \in Ids |-> NoTool]
  /\ nextId  = 1
  /\ rev     = [r \in Reviewers |-> Idle]
  /\ decided = [id \in Ids |-> <<>>]

----------------------------------------------------------------------------
(* StoreHITLApproval: a new pending request about tool t. *)
StoreHITLApproval(t) ==
  /\ nextId \in Ids
  /\ status' = [status EXCEPT ![nextId] = Word("pending")]
  /\ asked'  = [asked EXCEPT ![nextId] = t]
  /\ nextId' = nextId + 1
  /\ UNCHANGED <<rev, decided>>

(* "approval not found" and "approval already processed": the handler      *)
(* returns the error and changes nothing.                                  *)
RefuseDecision(r, id) ==
  /\ rev[r].at = "idle"
  /\ Status(id) # "pending"
  /\ UNCHANGED storeVars

(* A mutant of CheckPending that forgets to test the status.               *)
CheckNothing(r, id, d) ==
  /\ rev[r].at = "idle"
  /\ rev' = [rev EXCEPT ![r] = [at |-> "write", id |-> id, verdict |-> d]]
  /\ UNCHANGED <<status, asked, nextId, decided>>

(* The handler finds the request pending and goes on with its decision. *)
CheckPending(r, id, d) ==
  /\ rev[r].at = "idle"
  /\ Status(id) = "pending"
  /\ rev' = [rev EXCEPT ![r] = [at |-> "write", id |-> id, verdict |-> d]]
  /\ UNCHANGED <<status, asked, nextId, decided>>

(* approval.Status = "approved" | "denied", first word ... *)
WriteStatus(r) ==
  /\ rev[r].at = "write"
  /\ status' = [status EXCEPT ![rev[r].id].ptr = rev[r].verdict]
  /\ rev'    = [rev EXCEPT ![r].at = "store"]
  /\ UNCHANGED <<asked, nextId, decided>>

(* A mutant of FinishWrite that writes a copy of the record. *)
FinishWriteToCopy(r) ==
  /\ rev[r].at = "store"
  /\ rev'     = [rev EXCEPT ![r].at = "signal"]
  /\ decided' = [decided EXCEPT ![rev[r].id] = Append(@, rev[r].verdict)]
  /\ UNCHANGED <<status, asked, nextId>>

(* ... second word; the sync.Map.Store that follows puts the same pointer  *)
(* back.  From here on the caller will be answered 200.                    *)
FinishWrite(r) ==
  /\ rev[r].at = "store"
  /\ status'  = [status EXCEPT ![rev[r].id].len = rev[r].verdict]
  /\ rev'     = [rev EXCEPT ![r].at = "signal"]
  /\ decided' = [decided EXCEPT ![rev[r].id] = Append(@, rev[r].verdict)]
  /\ UNCHANGED <<asked, nextId>>

(* SendWorkflowSignal was called, its error is dropped, the handler ends. *)
SendSignal(r) ==
  /\ rev[r].at = "signal"
  /\ rev' = [rev EXCEPT ![r] = Idle]
  /\ UNCHANGED <<status, asked, nextId, decided>>

(* The process restarts: the map and every handler in flight are gone. *)
RestartInitiator ==
  /\ status' = [id \in Ids |-> Word("absent")]
  /\ rev'    = [r \in Reviewers |-> Idle]
  /\ UNCHANGED <<asked, nextId, decided>>

HandlerStep(r) ==
  \/ WriteStatus(r)
  \/ FinishWrite(r)

ReviewerStep(r) ==
  \/ \E id \in Ids : RefuseDecision(r, id)
  \/ \E id \in Ids, d \in Decisions : CheckPending(r, id, d)
  \/ HandlerStep(r)

StoreNext ==
  \/ \E t \in Tools : StoreHITLApproval(t)
  \/ \E r \in Reviewers : ReviewerStep(r) \/ SendSignal(r)
  \/ RestartInitiator

StoreSpec == StoreInit /\ [][StoreNext]_storeVars

----------------------------------------------------------------------------
ReviewerStates ==
  [at : {"idle"}, id : {0}, verdict : {"denied"}]
    \union [at : {"write", "store", "signal"}, id : Ids, verdict : Decisions]

StoreTypeOK ==
  /\ status  \in [Ids -> [ptr : Words, len : Words]]
  /\ asked   \in [Ids -> Tools \union {NoTool}]
  /\ nextId  \in 1..(MaxApprovals + 1)
  /\ rev     \in [Reviewers -> ReviewerStates]
  /\ decided \in [Ids -> Seq(Decisions)]

(* A request that only one handler has been deciding reads as that         *)
(* handler's decision once it is written: a torn or contradictory status   *)
(* needs two handlers that both saw "pending".                             *)
SettledStatus ==
  \A id \in Ids :
    /\ Len(decided[id]) = 1
    /\ \A r \in Reviewers : rev[r].id = id => rev[r].at = "signal"
    => Status(id) \in {"absent", decided[id][1]}

(* However requests interleave, one request is decided no oftener than     *)
(* there are handlers, although handlers serve one call after another: the *)
(* test of the status closes it for all that start after the first write.  *)
DecisionsOverlap ==
  \A id \in Ids :
    Len(decided[id]) + Cardinality({r \in Reviewers :
        rev[r].id = id /\ rev[r].at \in {"write", "store"}})
      <= Cardinality(Reviewers)

(* A decided request is never offered for review again.  Violated only if  *)
(* a write could put "pending" back.                                       *)
NeverReopened ==
  [][\A id \in Ids : decided[id] # <<>> => Status(id)' # "pending"]_storeVars

(* No request was decided twice: hitl.go answers the second decision with  *)
(* "approval already processed", unless two handlers overlap.              *)
ProcessedOnce == \A id \in Ids : Len(decided[id]) <= 1
============================================================================
