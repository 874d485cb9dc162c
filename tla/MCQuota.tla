------------------------------ MODULE MCQuota ------------------------------
(* TLC instance of Quota: requests are interchangeable.                     *)
EXTENDS Quota, TLC

RequestSymmetry == Permutations(Request)
=============================================================================
