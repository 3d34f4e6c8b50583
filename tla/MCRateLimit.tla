---------------------------- MODULE MCRateLimit ----------------------------
(* Small instances of RateLimit.                                           *)
EXTENDS RateLimit, TLC

Symmetry == Permutations(Requests) \cup Permutations(Clients)
============================================================================
