--------------------------- MODULE MCMemoryStore ---------------------------
(* TLC instance of MemoryStore: keys are interchangeable.                   *)
EXTENDS MemoryStore, TLC

KeySymmetry == Permutations(Key)
=============================================================================
