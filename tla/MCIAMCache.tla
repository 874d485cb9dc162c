----------------------------- MODULE MCIAMCache -----------------------------
(* TLC instance of IAMCache: two requests at a time use one credential. *)
EXTENDS IAMCache, TLC
=============================================================================
