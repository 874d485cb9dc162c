---------------------------- MODULE ExpiringMap ----------------------------
(* What V1Store asks of its store (src/app/services/v1_store.py), whether   *)
(* Redis or MemoryStore provides it: a map whose entries expire, with the   *)
(* atomic commands GET, SET [NX] [EX], INCR, DECR, EXPIRE and DEL and their *)
(* replies. Keys may be lost in one way only: a write to a store that holds *)
(* MaxKeys live keys may drop up to Drop of the others.                     *)
EXTENDS Integers, FiniteSets

CONSTANTS
    Key, Text,     \* Text: values that are no integers (JSON records)
    MaxNumber,     \* bound on the integers stored, either sign
    TTL,           \* expiries used, in ticks
    Nil,           \* an absent key, an absent expiry, the null reply
    MaxKeys, Drop

VARIABLES
    map,           \* the live entry of each key, or Nil
    reply          \* what the last command returned

vars == <<map, reply>>

(* Integers are stored as text and read back as integers. *)
Str(n) == <<"str", n>>
Numeral == {Str(n) : n \in -MaxNumber..MaxNumber}
Number(v) == v[2]

(* Replies other than a stored value or Nil. *)
Num(n) == <<"int", n>>
Bool(b) == <<"bool", b>>
Error == <<"error">>
Entry == [value : Text \cup Numeral, ttl : TTL \cup {Nil}]

Live == {k \in Key : map[k] # Nil}

Init == map = [k \in Key |-> Nil] /\ reply = Nil

(* A write of k, with the losses it may cause. *)
Write(k, entry) ==
    \E lost \in SUBSET (Live \ {k}) :
        /\ lost # {} => Cardinality(Live) >= MaxKeys /\ Cardinality(lost) <= Drop
        /\ map' = [q \in Key |-> IF q = k THEN entry
                                 ELSE IF q \in lost THEN Nil ELSE map[q]]

Get(k) ==
    /\ reply' = IF map[k] = Nil THEN Nil ELSE map[k].value
    /\ UNCHANGED map

Set(k, v, nx, ex) ==
    IF nx /\ map[k] # Nil
    THEN reply' = Nil /\ UNCHANGED map
    ELSE reply' = Bool(TRUE) /\ Write(k, [value |-> v, ttl |-> ex])

(* INCR (d = 1) and DECR (d = -1): a missing key counts as 0 and gets no   *)
(* expiry, a present one keeps its own, a non-integer is an error.         *)
Add(k, d) ==
    LET n == IF map[k] = Nil THEN 0 ELSE Number(map[k].value)
        t == IF map[k] = Nil THEN Nil ELSE map[k].ttl
    IN  IF map[k] # Nil /\ map[k].value \in Text
        THEN reply' = Error /\ UNCHANGED map
        ELSE /\ n + d \in -MaxNumber..MaxNumber
             /\ reply' = Num(n + d)
             /\ Write(k, [value |-> Str(n + d), ttl |-> t])

Expire(k, ex) ==
    IF map[k] = Nil
    THEN reply' = Bool(FALSE) /\ UNCHANGED map
    ELSE reply' = Bool(TRUE) /\ map' = [map EXCEPT ![k].ttl = ex]

Delete(k) ==
    /\ map' = [map EXCEPT ![k] = Nil]
    /\ reply' = Nil

(* Time passes: an entry whose last tick this is expires. *)
Aged(e) ==
    IF e = Nil THEN Nil
    ELSE IF e.ttl = Nil THEN e
    ELSE IF e.ttl = 1 THEN Nil ELSE [e EXCEPT !.ttl = @ - 1]

Tick ==
    /\ map' = [k \in Key |-> Aged(map[k])]
    /\ UNCHANGED reply

Next ==
    \/ \E k \in Key : Get(k) \/ Delete(k) \/ Add(k, 1) \/ Add(k, -1)
    \/ \E k \in Key, ex \in TTL : Expire(k, ex)
    \/ \E k \in Key, v \in Text, nx \in BOOLEAN, ex \in TTL \cup {Nil} : Set(k, v, nx, ex)
    \/ Tick

Spec == Init /\ [][Next]_vars
=============================================================================
