------------------------------ MODULE UsageLog ------------------------------
(* What V1Store.emit_usage (src/app/services/v1_store.py) promises billing:  *)
(* at-least-once delivery to the stream. An event it has taken was appended *)
(* to the stream, or is kept until it is; a kept event is let go only once  *)
(* it was appended; what was let go, or given up, is never sent again. How  *)
(* events are kept, who sends them and in which order is left open, and so  *)
(* is how long the stream, which Redis trims, keeps what was appended.      *)
EXTENDS Naturals

CONSTANT Event

VARIABLES
    copies,     \* of each event appended to the stream
    kept,       \* the events to be sent by a later call
    taken,      \* the events whose emit_usage returned with a promise
    gone        \* the events given up: the store failed, or the process died

vars == <<copies, kept, taken, gone>>

Init ==
    /\ copies = [e \in Event |-> 0]
    /\ kept = {} /\ taken = {} /\ gone = {}

(* Another copy, of an event that is being emitted or is kept. *)
Send(e) ==
    /\ e \notin gone
    /\ e \in taken => e \in kept
    /\ copies' = [copies EXCEPT ![e] = @ + 1]
    /\ UNCHANGED <<kept, taken, gone>>

(* emit_usage returns: the event was appended, or is kept from now on. *)
Take(e) ==
    /\ e \notin taken \cup gone
    /\ (copies[e] > 0 /\ UNCHANGED kept) \/ kept' = kept \cup {e}
    /\ taken' = taken \cup {e}
    /\ UNCHANGED <<copies, gone>>

LetGo(e) ==
    /\ e \in kept /\ copies[e] > 0
    /\ kept' = kept \ {e}
    /\ UNCHANGED <<copies, taken, gone>>

(* Only events that were never taken are given up, several by one crash. *)
GiveUp(lost) ==
    /\ lost \cap (taken \cup gone) = {}
    /\ gone' = gone \cup lost
    /\ UNCHANGED <<copies, kept, taken>>

Next ==
    \/ \E e \in Event : Send(e) \/ Take(e) \/ LetGo(e)
    \/ \E lost \in SUBSET Event : GiveUp(lost)

Spec == Init /\ [][Next]_vars
=============================================================================
