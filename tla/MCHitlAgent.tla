--------------------------- MODULE MCHitlAgent ---------------------------
(* Model values for HitlAgent: reviewers and tools are interchangeable. *)
EXTENDS HitlAgent, TLC

ModelSymmetry == Permutations(Reviewers) \union Permutations(Tools)
============================================================================
