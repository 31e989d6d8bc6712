------------------------- MODULE MCDirectSession -------------------------
(* Model values for DirectSession: requests, and watchers, are             *)
(* interchangeable.                                                        *)
EXTENDS DirectSession, TLC

ModelSymmetry == Permutations(Requests) \union Permutations(Watchers)
============================================================================
