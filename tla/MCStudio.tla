------------------------------ MODULE MCStudio ------------------------------
(***************************************************************************)
(* Model checking the pages of agent-studio that follow a running agent:   *)
(* the chat page and the two places where its tool requests are decided.   *)
(* A browser tab shows one page at a time and the two share no state of    *)
(* the browser, so that each behaviour has one of them at work.            *)
(***************************************************************************)
EXTENDS ChatPage, ApprovalReview, TLC

CONSTANTS a1, a2, t1, t2

MCTenantOf == (a1 :> t1) @@ (a2 :> t2)

StudioInit ==
  /\ Init
  /\ ReviewInit
  /\ panel.mounted \/ panel.tenant = t1

OnChat      == ~panel.mounted /\ Next /\ UNCHANGED reviewVars
OnApprovals == panel.mounted /\ ReviewNext /\ UNCHANGED vars

StudioSpec ==
  /\ StudioInit /\ [][OnChat \/ OnApprovals]_<<vars, reviewVars>>
  /\ Fairness /\ ReviewFairness
=============================================================================
