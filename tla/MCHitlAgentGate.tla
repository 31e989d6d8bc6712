-------------------------- MODULE MCHitlAgentGate --------------------------
(* Model values for HitlAgentGate. *)
EXTENDS HitlAgentGate, TLC

ModelSymmetry == Permutations(Reviewers) \union Permutations(Tools)
============================================================================
