--------------------------- MODULE MCIdempotency ---------------------------
(* TLC instance of Idempotency: three attempts with one body and one that  *)
(* reuses the key with another body.                                       *)
EXTENDS Idempotency, TLC

CONSTANTS r1, r2, r3, r4, b1, b2

MCRequest == {r1, r2, r3, r4}
MCBody == {b1, b2}
MCCarried == {(r1 :> b1) @@ (r2 :> b1) @@ (r3 :> b1) @@ (r4 :> b2)}
=============================================================================
