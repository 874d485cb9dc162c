--------------------------- MODULE MCBillableCall ---------------------------
(* TLC instance of BillableCall: two calls of one caller.                   *)
EXTENDS BillableCall, TLC

CONSTANTS r1, r2

MCRequest == {r1, r2}

Asks == [question |-> "asked", model |-> Nil, own |-> FALSE, stream |-> FALSE, size |-> "half"]
AsksClaude == [Asks EXCEPT !.model = "claude", !.own = TRUE]

Live(keyed, b) == [keyed |-> keyed, test |-> FALSE, body |-> b]
Test(b)        == [keyed |-> TRUE, test |-> TRUE, body |-> b]

(* The calls that are served, and those whose body the one endpoint, or    *)
(* both, do not take.                                                      *)
Usual == <<Live(TRUE, Asks), Live(TRUE, AsksClaude), Live(FALSE, Asks)>>
Odd ==
    {Live(FALSE, b) : b \in {NotAnObject, [Asks EXCEPT !.size = "infinity"],
                             [Asks EXCEPT !.stream = TRUE], [AsksClaude EXCEPT !.own = FALSE]}}

(* Pairs of usual calls (in one order, requests being interchangeable), an *)
(* odd call beside a keyed one, and a test key.                            *)
MCCalls ==
    {(r1 :> Usual[p[1]]) @@ (r2 :> Usual[p[2]]) :
            p \in {<<1, 1>>, <<1, 2>>, <<1, 3>>, <<2, 2>>, <<3, 3>>}}
        \cup {(r1 :> s) @@ (r2 :> Usual[1]) : s \in Odd}
        \cup {(r1 :> Test(AsksClaude)) @@ (r2 :> Test(AsksClaude))}
=============================================================================
