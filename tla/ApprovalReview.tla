--------------------------- MODULE ApprovalReview ---------------------------
(***************************************************************************)
(* The two places of agent-studio where a user decides a tool request: the *)
(* approvals page, which polls the pending requests of a tenant, and the   *)
(* block the chat page shows for an approval event.                        *)
(*                                                                         *)
(* A poll is asked, answered and applied in separate steps and the page    *)
(* never cancels one, so that answers arrive out of order and, once the    *)
(* page shows another tenant, late.  A click remembers the list of the     *)
(* render it was made on.  The store is the one of ApprovalStore: its      *)
(* handlers test the status and write it in separate steps, with no lock   *)
(* between, and a restart of its process loses it.  The two words of a     *)
(* status are written together here: only two handlers that overlap can    *)
(* leave a mixture, and of that nothing is said below.                     *)
(***************************************************************************)
EXTENDS Naturals, FiniteSets

CONSTANTS
  Approvals,     (* approval requests                                      *)
  Tenants,
  TenantOf,      (* Approvals -> the tenant a request belongs to           *)
  InChat,        (* those the open chat has a block for                    *)
  Polls,         (* polls that may be in flight together                   *)
  MaxClicks      (* bound: decisions the users take                        *)

ASSUME ApprovalReviewAssumption ==
  /\ Approvals # {}
  /\ TenantOf \in [Approvals -> Tenants]
  /\ InChat \subseteq Approvals
  /\ MaxClicks \in Nat

Clicks    == 1..MaxClicks
Decisions == {"approved", "denied"}

VARIABLES
  status,        (* Approvals -> the status in the store                   *)
  taken,         (* history: InChat -> the decisions the store took        *)
  panel,         (* the approvals page                                     *)
  poll,          (* Polls -> a request for the pending approvals           *)
  block,         (* InChat -> the block of a request                       *)
  click          (* Clicks -> a decision on its way                        *)

reviewVars == <<status, taken, panel, poll, block, click>>

IdlePoll == [at |-> "idle", tenant |-> CHOOSE t \in Tenants : TRUE, data |-> {}]
Unused == [at |-> "unused", from |-> "panel", id |-> CHOOSE a \in Approvals : TRUE,
           verdict |-> "denied", list |-> {}]

ReviewTypeOK ==
  /\ status \in [Approvals -> {"absent", "pending", "lost"} \union Decisions]
  /\ taken \in [InChat -> SUBSET Decisions]
  /\ panel \in [mounted : BOOLEAN, tenant : Tenants, list : SUBSET Approvals]
  /\ poll \in [Polls -> [at : {"idle", "asked", "answered"}, tenant : Tenants,
                         data : SUBSET Approvals]]
  /\ block \in [InChat -> [status : {"pending"} \union Decisions, busy : BOOLEAN]]
  /\ click \in [Clicks -> [at : {"unused", "sent", "checked", "ok", "refused", "gone"},
                           from : {"panel", "block"}, id : Approvals,
                           verdict : Decisions, list : SUBSET Approvals]]

Pending(t) == {a \in Approvals : TenantOf[a] = t /\ status[a] = "pending"}
Waiting    == [status |-> "pending", busy |-> FALSE]

ReviewInit ==
  /\ status = [a \in Approvals |-> "absent"]
  /\ taken = [a \in InChat |-> {}]
  /\ panel \in [mounted : BOOLEAN, tenant : Tenants, list : {{}}]
  /\ poll = [p \in Polls |-> IdlePoll]
  /\ block = [a \in InChat |-> Waiting]
  /\ click = [k \in Clicks |-> Unused]

(* A workflow asks for an approval: the chat shows its block.  Bound: the   *)
(* requests of the model are asked for before the store restarts.          *)
AskApproval(a) ==
  /\ status[a] = "absent"
  /\ \A b \in Approvals : status[b] # "lost"
  /\ status' = [status EXCEPT ![a] = "pending"]
  /\ UNCHANGED <<taken, panel, poll, block, click>>

(* fetchApprovals, every two seconds while the page is mounted: what it    *)
(* asks for is the tenant of the effect that made it.                      *)
AskPending(p) ==
  /\ panel.mounted
  /\ poll[p].at = "idle"
  /\ poll' = [poll EXCEPT ![p] = [at |-> "asked", tenant |-> panel.tenant, data |-> {}]]
  /\ UNCHANGED <<status, taken, panel, block, click>>

AnswerPending(p) ==
  /\ poll[p].at = "asked"
  /\ poll' = [poll EXCEPT ![p].at = "answered", ![p].data = Pending(poll[p].tenant)]
  /\ UNCHANGED <<status, taken, panel, block, click>>

(* A mutant of ApplyPending that only ever adds to the list. *)
ApplyPendingMerged(p) ==
  /\ poll[p].at = "answered"
  /\ panel' = [panel EXCEPT !.list = @ \union poll[p].data]
  /\ poll' = [poll EXCEPT ![p] = IdlePoll]
  /\ UNCHANGED <<status, taken, block, click>>

(* setApprovals(data || []), whatever the page shows by now; a poll that   *)
(* failed only sets the error.                                             *)
ApplyPending(p) ==
  /\ poll[p].at = "answered"
  /\ panel' = [panel EXCEPT !.list = poll[p].data]
  /\ poll' = [poll EXCEPT ![p] = IdlePoll]
  /\ UNCHANGED <<status, taken, block, click>>

(* ?tenant= changes: the effect runs again, the list and the polls stay. *)
ShowTenant(t) ==
  /\ panel.mounted
  /\ t # panel.tenant
  /\ panel' = [panel EXCEPT !.tenant = t]
  /\ UNCHANGED <<status, taken, poll, block, click>>

NextClick(k) == click[k].at = "unused" /\ \A j \in 1..(k - 1) : click[j].at # "unused"

(* Of a request that no block shows it matters that it is decided, not how. *)
VerdictsOn(a) == IF a \in InChat THEN Decisions ELSE {"approved"}

(* approve and deny of the page: nothing disables the buttons meanwhile. *)
DecideOnPanel(k, a, v) ==
  /\ NextClick(k)
  /\ a \in panel.list
  /\ click' = [click EXCEPT ![k] = [at |-> "sent", from |-> "panel", id |-> a,
                                    verdict |-> v, list |-> panel.list]]
  /\ UNCHANGED <<status, taken, panel, poll, block>>

(* act of the block: its buttons are there while it is pending and not busy. *)
DecideOnBlock(k, a, v) ==
  /\ NextClick(k)
  /\ status[a] # "absent"
  /\ block[a] = Waiting
  /\ block' = [block EXCEPT ![a].busy = TRUE]
  /\ click' = [click EXCEPT ![k] = [at |-> "sent", from |-> "block", id |-> a,
                                    verdict |-> v, list |-> {}]]
  /\ UNCHANGED <<status, taken, panel, poll>>

(* The page only reports that a decision failed; the block is free again   *)
(* once the answer is there.                                               *)
Failed(c) ==
  IF c.from = "panel" THEN [Unused EXCEPT !.at = "gone"] ELSE [c EXCEPT !.at = "refused"]

(* POST /approvals/{id}/approve|deny: a request that is not there or not   *)
(* pending any more is refused ...                                         *)
CheckDecision(k) ==
  LET c == click[k] IN
  /\ c.at = "sent"
  /\ click' = [click EXCEPT ![k] =
                  IF status[c.id] = "pending" THEN [c EXCEPT !.at = "checked"] ELSE Failed(c)]
  /\ UNCHANGED <<status, taken, panel, poll, block>>

(* ... and one that was pending is decided, whatever another handler that  *)
(* saw it pending as well has written since.  Both answer 200.             *)
TakeDecision(k) ==
  LET c == click[k] IN
  /\ c.at = "checked"
  /\ status' = [status EXCEPT ![c.id] = c.verdict]
  /\ taken' = [a \in InChat |-> IF a = c.id THEN taken[a] \union {c.verdict} ELSE taken[a]]
  /\ click' = [click EXCEPT ![k].at = "ok"]
  /\ UNCHANGED <<panel, poll, block>>

(* workflow-initiator restarts: the map is empty again, what it was        *)
(* serving fails, and a decision that reaches it now is not found.         *)
RestartStore ==
  /\ \E a \in Approvals : status[a] \notin {"absent", "lost"}
  /\ status' = [a \in Approvals |-> IF status[a] = "absent" THEN "absent" ELSE "lost"]
  /\ click' = [k \in Clicks |-> IF click[k].at \in {"sent", "checked"}
                                THEN Failed(click[k]) ELSE click[k]]
  /\ poll' = [p \in Polls |-> IF poll[p].at = "asked" THEN IdlePoll ELSE poll[p]]
  /\ UNCHANGED <<taken, panel, block>>

(* The request never arrives or its answer is lost: to the page the        *)
(* decision failed, and in the second case the store took it.              *)
LoseDecision(k) ==
  /\ click[k].at \in {"sent", "ok"}
  /\ click' = [click EXCEPT ![k] = Failed(@)]
  /\ UNCHANGED <<status, taken, panel, poll, block>>

(* The page takes its decision off the list of the render it was made on;  *)
(* the block shows the decision it asked for.                              *)
Answered(k, ok) ==
  LET c == click[k] IN
  /\ click' = [click EXCEPT ![k] = [Unused EXCEPT !.at = "gone"]]
  /\ IF c.from = "panel"
     THEN /\ panel' = IF ok THEN [panel EXCEPT !.list = c.list \ {c.id}] ELSE panel
          /\ UNCHANGED block
     ELSE /\ block' = [block EXCEPT ![c.id] =
                         [status |-> IF ok THEN c.verdict ELSE @.status, busy |-> FALSE]]
          /\ UNCHANGED panel
  /\ UNCHANGED <<status, taken, poll>>

(* A mutant of DecisionAnswered that does not look at resp.ok. *)
DecisionAssumed(k) ==
  /\ click[k].at \in {"ok", "refused"}
  /\ Answered(k, TRUE)

DecisionAnswered(k) ==
  /\ click[k].at \in {"ok", "refused"}
  /\ Answered(k, click[k].at = "ok")

(* The chat page is left and opened again: the block starts afresh. *)
RemountBlock(a) ==
  /\ block[a] # Waiting
  /\ ~block[a].busy
  /\ block' = [block EXCEPT ![a] = Waiting]
  /\ UNCHANGED <<status, taken, panel, poll, click>>

PollStep(p)     == AskPending(p) \/ AnswerPending(p) \/ ApplyPending(p)
DecisionStep(k) == CheckDecision(k) \/ TakeDecision(k) \/ DecisionAnswered(k)

ReviewNext ==
  \/ RestartStore
  \/ \E a \in Approvals : AskApproval(a)
  \/ \E a \in InChat : RemountBlock(a)
  \/ \E p \in Polls : PollStep(p)
  \/ \E t \in Tenants : ShowTenant(t)
  \/ \E k \in Clicks, a \in Approvals : \E v \in VerdictsOn(a) : DecideOnPanel(k, a, v)
  \/ \E k \in Clicks, a \in InChat, v \in Decisions : DecideOnBlock(k, a, v)
  \/ \E k \in Clicks : DecisionStep(k) \/ LoseDecision(k)

ReviewSpec == ReviewInit /\ [][ReviewNext]_reviewVars

(* The interval keeps polling, and the initiator answers: not every poll,   *)
(* but always some poll, and the same of the decisions.                    *)
ReviewFairness ==
  /\ WF_reviewVars(\E p \in Polls : PollStep(p))
  /\ WF_reviewVars(\E k \in Clicks : DecisionStep(k))

----------------------------------------------------------------------------
(* The store took decision v of a request, and still has it or has more. *)
Recorded(a, v) ==
  /\ v \in taken[a]
  /\ status[a] \in {v, "lost"} \/ taken[a] = Decisions

(* A decision the chat shows is one the store took, never one it refused,  *)
(* lost or somebody else's; and it is still the store's, unless handlers   *)
(* that both saw the request pending took both decisions, or the store     *)
(* itself is gone.                                                         *)
ShownDecisionWasTaken ==
  \A a \in InChat : block[a].status \in Decisions => Recorded(a, block[a].status)

(* The approvals page catches up: however late answers and remembered      *)
(* lists put requests back, as long as it shows one tenant it comes to     *)
(* show exactly that tenant's pending requests (any tenant stands for all).*)
PanelCatchesUp ==
  LET t == CHOOSE t \in Tenants : TRUE IN
    panel.mounted /\ panel.tenant = t ~> (panel.tenant # t \/ panel.list = Pending(t))
============================================================================
