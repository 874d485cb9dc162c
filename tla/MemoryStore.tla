---------------------------- MODULE MemoryStore ----------------------------
(* The in-process stand-in for Redis, class MemoryStore of                 *)
(* src/app/services/v1_store.py: a Python dict, kept in insertion order,   *)
(* with lazy expiry and a bound on its size. Its methods never await, so   *)
(* each is one step. Time is relative: an entry knows the ticks it has     *)
(* left, and stays in the dict at 0 until something looks at it.           *)
EXTENDS Integers, Sequences, SequencesExt

CONSTANTS
    Key, Text, MaxNumber, TTL, Nil,
    MaxKeys,       \* MAX_KEYS
    Drop           \* MAX_KEYS // 10

ASSUME StoreAssumption ==
    /\ MaxNumber \in Nat /\ TTL \subseteq Nat \ {0} /\ Nil \notin Int \cup Text
    /\ MaxKeys \in Nat /\ Drop \in 1..MaxKeys

VARIABLES
    order,         \* the keys of _data, oldest insertion first
    data,          \* their entries
    reply          \* what the last method returned

vars == <<order, data, reply>>

Str(n) == <<"str", n>>
Numeral == {Str(n) : n \in -MaxNumber..MaxNumber}
Number(v) == v[2]

(* Replies other than a stored value or Nil. *)
Num(n) == <<"int", n>>
Bool(b) == <<"bool", b>>
Error == <<"error">>

(* A dict is its keys in order and their entries. *)
Dict(ks, d) == [order |-> ks, data |-> [k \in Key |-> IF Contains(ks, k) THEN d[k] ELSE Nil]]
Here == [order |-> order, data |-> data]
Keep(m, Test(_)) == Dict(SelectSeq(m.order, Test), m.data)
Become(m) == order' = m.order /\ data' = m.data

Init ==
    /\ order = <<>>
    /\ data = [k \in Key |-> Nil]
    /\ reply = Nil

Expired(e) == e # Nil /\ e.ttl = 0

----------------------------------------------------------------------------
(* Mutants *)

(* the size tested one key too late *)
PruneLate(m) ==
    IF Len(m.order) <= MaxKeys THEN m
    ELSE LET live == Keep(m, LAMBDA k : ~Expired(m.data[k]))
         IN  IF Len(live.order) < MaxKeys THEN live
             ELSE Dict(SubSeq(live.order, Drop + 1, Len(live.order)), live.data)

(* the oldest keys dropped without dropping the expired ones first *)
PruneOldest(m) ==
    IF Len(m.order) < MaxKeys THEN m
    ELSE Dict(SubSeq(m.order, Drop + 1, Len(m.order)), m.data)

----------------------------------------------------------------------------
(* The helpers *)

(* _live: an expired entry is removed when it is looked at. *)
Look(m, k) == IF Expired(m.data[k]) THEN Keep(m, LAMBDA q : q # k) ELSE m

(* _prune: at the limit the expired keys go, and if the dict is full of    *)
(* live ones, the oldest-inserted Drop of them.                            *)
Prune(m) ==
    IF Len(m.order) < MaxKeys THEN m
    ELSE LET live == Keep(m, LAMBDA k : ~Expired(m.data[k]))
         IN  IF Len(live.order) < MaxKeys THEN live
             ELSE Dict(SubSeq(live.order, Drop + 1, Len(live.order)), live.data)

(* _put: the entry is built before _prune runs and stored after it; a key  *)
(* that is still there keeps its place in the order.                       *)
Put(m, k, entry) ==
    LET p == Prune(m)
    IN  [order |-> IF Contains(p.order, k) THEN p.order ELSE Append(p.order, k),
         data  |-> [p.data EXCEPT ![k] = entry]]

----------------------------------------------------------------------------
(* The methods *)

Get(k) ==
    LET m == Look(Here, k)
    IN  Become(m) /\ reply' = IF m.data[k] = Nil THEN Nil ELSE m.data[k].value

(* incr and decr: _put(keep_ttl=True). int() raises on a non-integer. *)
Add(k, d) ==
    LET m == Look(Here, k)
        e == m.data[k]
        n == IF e = Nil THEN 0 ELSE Number(e.value)
    IN  IF e # Nil /\ e.value \in Text
        THEN Become(m) /\ reply' = Error
        ELSE /\ n + d \in -MaxNumber..MaxNumber
             /\ Become(Put(m, k, [value |-> Str(n + d),
                                  ttl   |-> IF e = Nil THEN Nil ELSE e.ttl]))
             /\ reply' = Num(n + d)

Expire(k, ex) ==
    LET m == Look(Here, k)
    IN  IF m.data[k] = Nil
        THEN Become(m) /\ reply' = Bool(FALSE)
        ELSE Become([m EXCEPT !.data[k].ttl = ex]) /\ reply' = Bool(TRUE)

(* set: without nx nothing is looked at first. *)
Set(k, v, nx, ex) ==
    LET m == IF nx THEN Look(Here, k) ELSE Here
    IN  IF nx /\ m.data[k] # Nil
        THEN Become(m) /\ reply' = Nil
        ELSE Become(Put(m, k, [value |-> v, ttl |-> ex])) /\ reply' = Bool(TRUE)

Delete(k) ==
    /\ Become(Keep(Here, LAMBDA q : q # k))
    /\ reply' = Nil

(* External: the monotonic clock advances. *)
Tick ==
    /\ data' = [k \in Key |->
                   IF data[k] = Nil \/ data[k].ttl \in {Nil, 0} THEN data[k]
                   ELSE [data[k] EXCEPT !.ttl = @ - 1]]
    /\ UNCHANGED <<order, reply>>

Next ==
    \/ \E k \in Key : Get(k) \/ Delete(k) \/ Add(k, 1) \/ Add(k, -1)
    \/ \E k \in Key, ex \in TTL : Expire(k, ex)
    \/ \E k \in Key, v \in Text, nx \in BOOLEAN, ex \in TTL \cup {Nil} : Set(k, v, nx, ex)
    \/ Tick

Spec == Init /\ [][Next]_vars

----------------------------------------------------------------------------
(* Properties *)

(* The dict lists each key once, never holds more than MaxKeys of them     *)
(* although expired ones linger, and keeps an entry for exactly those.     *)
TypeOK ==
    /\ IsInjective(order) /\ Len(order) <= MaxKeys
    /\ \A k \in Key : Contains(order, k) <=> data[k] # Nil
    /\ \A k \in Key : data[k] # Nil =>
           data[k] \in [value : Text \cup Numeral, ttl : UNION {0..t : t \in TTL} \cup {Nil}]

(* The entries a caller can see. *)
Visible == [k \in Key |-> IF Expired(data[k]) THEN Nil ELSE data[k]]

Redis == INSTANCE ExpiringMap WITH map <- Visible

(* MemoryStore is a stand-in for the Redis commands V1Store uses: with     *)
(* lazy expiry, pruning and the dict's order hidden, every method does and *)
(* replies what the map's command would, a lapsed counter starts again     *)
(* from zero without its old expiry, and no live key is lost except up to  *)
(* Drop of them in a write at MaxKeys live keys.                           *)
StandsInForRedis == Redis!Spec
=============================================================================
