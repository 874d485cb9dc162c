--------------------------- MODULE MCUsageOutbox ---------------------------
(* TLC instance of UsageOutbox: emissions are interchangeable.             *)
EXTENDS UsageOutbox, TLC

EmissionSymmetry == Permutations(Emission)
=============================================================================
