------------------------------ MODULE MCSlots ------------------------------
(* TLC instance of Slots: two subjects of one organization, the first with *)
(* two requests.                                                           *)
EXTENDS Slots, TLC

CONSTANTS r1, r2, r3, s1, s2

\* r1 and r2 share a subject, so they are interchangeable.
RequestSymmetry == Permutations({r1, r2})

MCRequest == {r1, r2, r3}
MCTwoRequests == {r1, r2}
MCOneSubject == [r \in MCTwoRequests |-> s1]
MCSubjectOf == (r1 :> s1) @@ (r2 :> s1) @@ (r3 :> s2)
=============================================================================
