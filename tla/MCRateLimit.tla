---------------------------- MODULE MCRateLimit ----------------------------
(* TLC instance of RateLimit: handlers are interchangeable.                 *)
EXTENDS RateLimit, TLC

RequestSymmetry == Permutations(Request)
=============================================================================
