----------------------------- MODULE SlotsProofs -----------------------------
(* Proofs about Slots for every finite set of requests, every assignment   *)
(* of requests to subjects, every limit and all times with MaxHold <       *)
(* SlotTTL, and any number of faults: its types, that without a fault no   *)
(* counter expires under a holder and none leaks, and the cap on the calls *)
(* admitted at once.                                                       *)
EXTENDS Slots, FiniteSetTheorems, TLAPS

(* Which counter a request works on follows from where it is. *)
Levels ==
    \A r \in Request :
        /\ step[r] \in {"ready", "hold", "back"} => level[r] = "subject"
        /\ step[r] = "decr" => level[r] = "org"

(* Requests between their INCR of key k and its EXPIRE or DECR. *)
Expiring(k) == {r \in Request : step[r] = "expire" /\ KeyOf(r) = k}
Undoing(k)  == {r \in Request : step[r] = "undo" /\ KeyOf(r) = k}

(* Requests that should be in the count of key k. *)
Involved(k) == Holder(k) \cup Expiring(k) \cup Undoing(k)

(* Those under which the counter cannot expire unseen: they have yet to    *)
(* send their EXPIRE, or it outlives them.                                 *)
Safe(k) ==
    {r \in Involved(k) :
        /\ cnt[k] # NoKey
        /\ r \in Expiring(k) \/ age[r] + ttl[k] >= SlotTTL}

(* Those told that they have the slot, or about to be told. *)
Admitted(k) == Holder(k) \cup {r \in Expiring(k) : ~over[r]}

(* Every fault and every slip leaves at most one request unsafe, one       *)
(* uncounted and one admitted over the limit.                              *)
Backed(k)  == Cardinality(Involved(k) \ Safe(k)) <= faults + lost
Counted(k) == Cardinality(Involved(k)) <= Value(cnt[k]) + faults + lost
Capped(k)  == Cardinality(Admitted(k)) <= Limit + faults + lost

(* Without any, the history and the counter are exact; a crash alone       *)
(* leaves the counter too high.                                            *)
Dead == \E r \in Request : step[r] = "dead"
Exact(k) ==
    faults + lost = 0 =>
        /\ counted[k] = Involved(k)
        /\ Dead \/ Value(cnt[k]) = Cardinality(Involved(k))

Sound(k) == Backed(k) /\ Counted(k) /\ Capped(k) /\ Exact(k)
IInv == TypeOK /\ Levels /\ \A k \in Key : Sound(k)

----------------------------------------------------------------------------
(* Constants, keys and types *)

(* The bounds are natural numbers, the absent counter is not one. *)
LEMMA Bounds ==
    /\ Limit \in Nat /\ MaxFaults \in Nat /\ SlotTTL \in Nat /\ MaxHold \in Nat
    /\ MaxHold < SlotTTL /\ NoKey \notin Int
BY LimitAssumption, HoldAssumption

(* A request's two keys exist and differ. *)
LEMMA Keys ==
    ASSUME NEW r \in Request
    PROVE  /\ SubjectOf[r] \in Key /\ Org \in Key /\ SubjectOf[r] # Org
           /\ \A l \in Level : KeyAt(r, l) \in {SubjectOf[r], Org}
           /\ KeyAt(r, "org") = Org /\ KeyAt(r, "subject") = SubjectOf[r]
BY SubjectAssumption DEF Key, KeyAt, Level

(* An absent counter counts as zero. *)
LEMMA Values ==
    ASSUME TypeOK, NEW k \in Key
    PROVE  /\ cnt[k] \in Int \cup {NoKey} /\ Value(cnt[k]) \in Int
           /\ cnt[k] = NoKey => Value(cnt[k]) = 0
BY Bounds DEF TypeOK, Value

(* Moving a request to a point of the protocol keeps the types of the      *)
(* control variables.                                                      *)
LEMMA AtTyped ==
    ASSUME TypeOK, NEW r \in Request, NEW s \in Step, NEW l \in Level, At(r, s, l)
    PROVE  /\ step' \in [Request -> Step] /\ level' \in [Request -> Level]
           /\ age' \in [Request -> 0..MaxHold]
           /\ step'[r] = s /\ level'[r] = l
           /\ \A q \in Request : q # r => step'[q] = step[q] /\ level'[q] = level[q]
                                          /\ age'[q] = age[q]
           /\ s # "ready" => age'[r] = age[r]
BY Bounds DEF TypeOK, At

(* INCR and DECR keep the types of the counter and its history. *)
LEMMA CommandTyped ==
    ASSUME TypeOK, NEW r \in Request, Incr(r) \/ Decr(r)
    PROVE  /\ cnt' \in [Key -> Int \cup {NoKey}]
           /\ counted' \in [Key -> SUBSET Request]
           /\ KeyOf(r) \in Key
           /\ cnt'[KeyOf(r)] \in Int
           /\ \A k \in Key : k # KeyOf(r) => cnt'[k] = cnt[k] /\ counted'[k] = counted[k]
           /\ Incr(r) => /\ cnt'[KeyOf(r)] = Value(cnt[KeyOf(r)]) + 1
                         /\ counted'[KeyOf(r)] = counted[KeyOf(r)] \cup {r}
           /\ Decr(r) => /\ cnt'[KeyOf(r)] = Value(cnt[KeyOf(r)]) - 1
                         /\ counted'[KeyOf(r)] = counted[KeyOf(r)] \ {r}
<1>1. KeyOf(r) \in Key
  BY Keys DEF TypeOK, KeyOf
<1>2. Value(cnt[KeyOf(r)]) \in Int
  BY <1>1, Values
<1> QED BY <1>1, <1>2 DEF TypeOK, Incr, Decr

(* EXPIRE keeps the type of the expiries. *)
LEMMA ExpireTyped ==
    ASSUME TypeOK, NEW r \in Request, SetTTL(KeyOf(r))
    PROVE  /\ KeyOf(r) \in Key
           /\ ttl' \in [Key -> 0..SlotTTL]
           /\ \A k \in Key : k # KeyOf(r) => ttl'[k] = ttl[k]
           /\ cnt[KeyOf(r)] # NoKey => ttl'[KeyOf(r)] = SlotTTL
<1>1. KeyOf(r) \in Key
  BY Keys DEF TypeOK, KeyOf
<1> QED BY <1>1, Bounds DEF TypeOK, SetTTL

(* The key of a request is one of its two. *)
LEMMA KeyOfIn ==
    ASSUME TypeOK, NEW r \in Request
    PROVE  KeyOf(r) \in Key /\ (level[r] = "org" => KeyOf(r) = Org)
                            /\ (level[r] = "subject" => KeyOf(r) = SubjectOf[r])
BY Keys DEF TypeOK, KeyOf, Level

(* Every step of a request keeps the types and the levels. *)
LEMMA RequestTyped ==
    ASSUME TypeOK, Levels, NEW r \in Request,
           Call(r) \/ Acquire(r) \/ AcquireFails(r) \/ ReleaseDecr(r) \/ ReleaseDecrFails(r)
    PROVE  TypeOK' /\ Levels'
<1> USE Bounds
<1>0. level[r] \in Level /\ step[r] \in Step
  BY DEF TypeOK
<1>1. ASSUME NEW s \in Step, NEW l \in Level, At(r, s, l),
             s \in {"ready", "hold", "back"} => l = "subject", s = "decr" => l = "org"
      PROVE  /\ step' \in [Request -> Step] /\ level' \in [Request -> Level]
             /\ age' \in [Request -> 0..MaxHold] /\ Levels'
  BY <1>1, AtTyped DEF Levels
<1>2. CASE Call(r)
  <2>1. At(r, "incr", "subject")
    BY <1>2 DEF Call
  <2> QED BY <1>1, <1>2, <2>1 DEF Call, TypeOK, Step, InFlight, Level
<1>3. Passed(r) => /\ step' \in [Request -> Step] /\ level' \in [Request -> Level]
                   /\ age' \in [Request -> 0..MaxHold] /\ Levels'
  BY <1>0, <1>1 DEF Passed, Step, InFlight, Level
<1>4. Refused(r) => /\ step' \in [Request -> Step] /\ level' \in [Request -> Level]
                    /\ age' \in [Request -> 0..MaxHold] /\ Levels'
  BY <1>0, <1>1 DEF Refused, Step, InFlight, Level
<1>5. Returned(r) => /\ step' \in [Request -> Step] /\ level' \in [Request -> Level]
                     /\ age' \in [Request -> 0..MaxHold] /\ Levels'
  BY <1>0, <1>1 DEF Returned, Step, InFlight, Level
<1>6. Fault => faults' \in 0..MaxFaults /\ lost' \in 0..MaxFaults
  BY DEF Fault, TypeOK
<1>7. CASE AcquireIncr(r)
  <2>1. At(r, "expire", level[r])
    BY <1>7 DEF AcquireIncr
  <2>2. over' \in [Request -> BOOLEAN]
    BY <1>7 DEF AcquireIncr, TypeOK
  <2>3. cnt' \in [Key -> Int \cup {NoKey}] /\ counted' \in [Key -> SUBSET Request]
    BY <1>7, CommandTyped DEF AcquireIncr
  <2> QED BY <1>0, <1>1, <1>7, <2>1, <2>2, <2>3 DEF AcquireIncr, TypeOK, Step, InFlight
<1>8. CASE AcquireIncrFails(r)
  <2>1. cnt' \in [Key -> Int \cup {NoKey}] /\ counted' \in [Key -> SUBSET Request]
    BY <1>8, CommandTyped DEF AcquireIncrFails, TypeOK
  <2> QED BY <1>3, <1>6, <1>8, <2>1 DEF AcquireIncrFails, TypeOK
<1>9. CASE AcquireExpire(r)
  <2>1. ttl' \in [Key -> 0..SlotTTL] /\ over' \in [Request -> BOOLEAN]
    BY <1>9, ExpireTyped DEF AcquireExpire, TypeOK
  <2>2. At(r, "undo", level[r]) \/ Passed(r)
    BY <1>9 DEF AcquireExpire
  <2> QED BY <1>0, <1>1, <1>3, <1>9, <2>1, <2>2 DEF AcquireExpire, TypeOK, Step, InFlight
<1>10. CASE AcquireExpireFails(r)
  <2>1. ttl' \in [Key -> 0..SlotTTL] /\ over' \in [Request -> BOOLEAN]
    BY <1>10, ExpireTyped DEF AcquireExpireFails, TypeOK
  <2> QED BY <1>3, <1>6, <1>10, <2>1 DEF AcquireExpireFails, TypeOK
<1>11. CASE AcquireUndo(r) \/ AcquireUndoFails(r)
  <2>1. cnt' \in [Key -> Int \cup {NoKey}] /\ counted' \in [Key -> SUBSET Request]
    BY <1>11, CommandTyped DEF AcquireUndo, AcquireUndoFails, TypeOK
  <2> QED BY <1>4, <1>6, <1>11, <2>1 DEF AcquireUndo, AcquireUndoFails, TypeOK
<1>12. CASE ReleaseDecr(r) \/ ReleaseDecrFails(r)
  <2>1. cnt' \in [Key -> Int \cup {NoKey}] /\ counted' \in [Key -> SUBSET Request]
    BY <1>12, CommandTyped DEF ReleaseDecr, ReleaseDecrFails, TypeOK
  <2> QED BY <1>5, <1>6, <1>12, <2>1 DEF ReleaseDecr, ReleaseDecrFails, TypeOK
<1> QED BY <1>2, <1>7, <1>8, <1>9, <1>10, <1>11, <1>12 DEF Acquire, AcquireFails

----------------------------------------------------------------------------
(* Who is in the sets of a key after a request has moved *)

(* All of them are sets of requests. *)
LEMMA SetsOfRequests ==
    ASSUME NEW k
    PROVE  /\ Holder(k) \in SUBSET Request /\ Expiring(k) \in SUBSET Request
           /\ Undoing(k) \in SUBSET Request /\ Involved(k) \in SUBSET Request
           /\ Safe(k) \in SUBSET Involved(k) /\ Admitted(k) \in SUBSET Involved(k)
BY DEF Holder, Expiring, Undoing, Involved, Safe, Admitted

(* A move of r leaves every other request where it was. *)
LEMMA OthersStay ==
    ASSUME TypeOK, NEW r \in Request, NEW s \in Step, NEW l \in Level, At(r, s, l),
           NEW q \in Request, q # r, NEW k
    PROVE  /\ q \in Holder(k)' <=> q \in Holder(k)
           /\ q \in Expiring(k)' <=> q \in Expiring(k)
           /\ q \in Undoing(k)' <=> q \in Undoing(k)
           /\ q \in Involved(k)' <=> q \in Involved(k)
           /\ age'[q] = age[q]
<1>1. step'[q] = step[q] /\ level'[q] = level[q] /\ age'[q] = age[q] /\ KeyOf(q)' = KeyOf(q)
  BY AtTyped DEF KeyOf, KeyAt
<1>2. /\ q \in Holder(k)' <=> q \in Holder(k)
      /\ q \in Expiring(k)' <=> q \in Expiring(k)
      /\ q \in Undoing(k)' <=> q \in Undoing(k)
  BY <1>1 DEF Holder, Expiring, Undoing
<1> QED BY <1>1, <1>2 DEF Involved

(* Where a request is decides whose count it should be in: that of its     *)
(* subject from the INCR on it until its DECR, and so for the organization. *)
InSubject(s, l) ==
    \/ s \in {"hold", "back", "expire", "undo"}
    \/ s = "incr" /\ l = "org"
InOrg(s, l) == s \in {"hold", "decr"} \/ (s \in {"expire", "undo"} /\ l = "org")

(* The sets a request is in, by its place. *)
LEMMA Place ==
    ASSUME TypeOK, NEW r \in Request, NEW k \in Key
    PROVE  /\ r \in Involved(k) <=> \/ k = SubjectOf[r] /\ InSubject(step[r], level[r])
                                    \/ k = Org /\ InOrg(step[r], level[r])
           /\ r \in Expiring(k) <=> step[r] = "expire" /\ KeyOf(r) = k
           /\ r \in Undoing(k) <=> step[r] = "undo" /\ KeyOf(r) = k
<1>1. level[r] \in Level /\ step[r] \in Step
  BY DEF TypeOK
<1>2. SubjectOf[r] # Org
  BY Keys
<1> QED BY <1>1, <1>2 DEF Involved, Holder, Expiring, Undoing, InSubject, InOrg, KeyOf, KeyAt,
                          Level

(* On the keys other than the one it works on, a request's membership does *)
(* not change as it goes from one point to the next.                       *)
LEMMA OtherKeys ==
    ASSUME TypeOK, TypeOK', NEW r \in Request, NEW s \in Step, NEW l \in Level, At(r, s, l),
           NEW k \in Key,
           k = SubjectOf[r] => (InSubject(s, l) <=> InSubject(step[r], level[r])),
           k = Org => (InOrg(s, l) <=> InOrg(step[r], level[r]))
    PROVE  Involved(k)' = Involved(k)
<1>1. step'[r] = s /\ level'[r] = l
  BY AtTyped
<1>2. r \in Involved(k)' <=> r \in Involved(k)
  <2>1. r \in Involved(k)' <=> \/ k = SubjectOf[r] /\ InSubject(step'[r], level'[r])
                               \/ k = Org /\ InOrg(step'[r], level'[r])
    <3>1. level'[r] \in Level /\ step'[r] \in Step /\ SubjectOf[r] # Org
      BY Keys DEF TypeOK
    <3> QED BY <3>1 DEF Involved, Holder, Expiring, Undoing, InSubject, InOrg, KeyOf, KeyAt,
                        Level
  <2> QED BY <1>1, <2>1, Place
<1>3. \A q \in Request : q # r => (q \in Involved(k)' <=> q \in Involved(k))
  BY OthersStay
<1>4. Involved(k) \in SUBSET Request /\ Involved(k)' \in SUBSET Request
  BY SetsOfRequests DEF Involved, Holder, Expiring, Undoing
<1> QED BY <1>2, <1>3, <1>4

----------------------------------------------------------------------------
(* Cardinalities *)

(* Sets of requests are finite, and no smaller than their subsets. *)
LEMMA Sizes ==
    ASSUME NEW T \in SUBSET Request
    PROVE  /\ IsFiniteSet(T) /\ Cardinality(T) \in Nat
           /\ \A S \in SUBSET T : Cardinality(S) <= Cardinality(T) /\ Cardinality(S) \in Nat
BY FiniteAssumption, FS_Subset, FS_CardinalityType

(* Adding a request to a set of which it is no member adds one. *)
LEMMA AddOne ==
    ASSUME NEW T \in SUBSET Request, NEW r \in Request, r \notin T
    PROVE  Cardinality(T \cup {r}) = Cardinality(T) + 1
BY Sizes, FS_AddElement

(* Taking a member out takes one away. *)
LEMMA TakeOne ==
    ASSUME NEW T \in SUBSET Request, NEW r \in T
    PROVE  Cardinality(T \ {r}) = Cardinality(T) - 1
BY Sizes, FS_RemoveElement

(* A set within another and one request is larger by at most one. *)
LEMMA OneMore ==
    ASSUME NEW T \in SUBSET Request, NEW r \in Request, NEW S \in SUBSET (T \cup {r})
    PROVE  Cardinality(S) <= Cardinality(T) + 1 /\ Cardinality(S) \in Nat
<1>1. T \cup {r} \in SUBSET Request /\ Cardinality(T) \in Nat
  BY Sizes
<1>2. Cardinality(S) <= Cardinality(T \cup {r}) /\ Cardinality(S) \in Nat
      /\ Cardinality(T \cup {r}) \in Nat
  BY <1>1, Sizes
<1>3. CASE r \in T
  <2>1. T \cup {r} = T
    BY <1>3
  <2>2. Cardinality(T \cup {r}) = Cardinality(T)
    BY <2>1
  <2> QED BY <1>1, <1>2, <2>2
<1>4. CASE r \notin T
  BY <1>1, <1>2, <1>4, AddOne
<1> QED BY <1>3, <1>4

----------------------------------------------------------------------------
(* What a step may do to one key *)

(* The numbers that the four bounds compare. *)
LEMMA Numbers ==
    ASSUME TypeOK, NEW k \in Key
    PROVE  /\ Cardinality(Involved(k)) \in Nat /\ Cardinality(Admitted(k)) \in Nat
           /\ Cardinality(Involved(k) \ Safe(k)) \in Nat
           /\ faults \in Nat /\ lost \in Nat /\ Value(cnt[k]) \in Int
<1>1. /\ Involved(k) \in SUBSET Request /\ Admitted(k) \in SUBSET Request
      /\ Involved(k) \ Safe(k) \in SUBSET Request
  BY SetsOfRequests
<1> QED BY <1>1, Sizes, Values DEF TypeOK

(* A key of which nothing grows stays sound. *)
LEMMA Untouched ==
    ASSUME TypeOK, NEW k \in Key, Sound(k),
           faults' \in Nat, lost' \in Nat, faults + lost <= faults' + lost',
           Involved(k)' = Involved(k), Safe(k) \subseteq Safe(k)',
           Admitted(k)' \subseteq Admitted(k),
           cnt'[k] = cnt[k], counted'[k] = counted[k], Dead => Dead'
    PROVE  Sound(k)'
<1>0. /\ Cardinality(Involved(k)) \in Nat /\ Cardinality(Admitted(k)) \in Nat
      /\ Cardinality(Involved(k) \ Safe(k)) \in Nat
      /\ faults \in Nat /\ lost \in Nat /\ Value(cnt[k]) \in Int /\ Limit \in Nat
  BY Numbers, Bounds
<1>a. PICK ff \in Nat : faults' = ff
  OBVIOUS
<1>b. PICK ll \in Nat : lost' = ll
  OBVIOUS
<1>1. /\ Involved(k) \in SUBSET Request /\ Admitted(k) \in SUBSET Request
      /\ Involved(k) \ Safe(k) \in SUBSET Request
  BY SetsOfRequests
<1>2. /\ Cardinality(Involved(k)' \ Safe(k)') <= Cardinality(Involved(k) \ Safe(k))
      /\ Cardinality(Involved(k)' \ Safe(k)') \in Nat
  <2>1. Involved(k)' \ Safe(k)' \in SUBSET (Involved(k) \ Safe(k))
    OBVIOUS
  <2> QED BY <1>1, <2>1, Sizes
<1>3. /\ Cardinality(Admitted(k)') <= Cardinality(Admitted(k))
      /\ Cardinality(Admitted(k)') \in Nat
  BY <1>1, Sizes
<1>4. Cardinality(Involved(k)') = Cardinality(Involved(k)) /\ Value(cnt[k])' = Value(cnt[k])
  BY DEF Value
<1>5. Backed(k)'
  BY <1>0, <1>2, <1>a, <1>b DEF Sound, Backed
<1>6. Counted(k)'
  BY <1>0, <1>4, <1>a, <1>b DEF Sound, Counted
<1>7. Capped(k)'
  BY <1>0, <1>3, <1>a, <1>b DEF Sound, Capped
<1>8. Exact(k)'
  <2> SUFFICES ASSUME faults' + lost' = 0
               PROVE  counted'[k] = Involved(k)' /\ (Dead' \/ Value(cnt[k])' = Cardinality(Involved(k)'))
    BY DEF Exact
  <2>1. faults + lost = 0
    BY <1>0, <1>a, <1>b
  <2> QED BY <1>4, <2>1 DEF Sound, Exact
<1> QED BY <1>5, <1>6, <1>7, <1>8 DEF Sound

(* A fault or a slip pays for one request r on the key: unsafe, uncounted  *)
(* or over the limit.                                                      *)
LEMMA FaultPays ==
    ASSUME TypeOK, NEW k \in Key, Sound(k), NEW r \in Request,
           faults' + lost' = faults + lost + 1, faults' \in Nat, lost' \in Nat,
           Value(cnt[k])' \in Int,
           Involved(k)' \ Safe(k)' \subseteq (Involved(k) \ Safe(k)) \cup {r},
           Admitted(k)' \subseteq Admitted(k) \cup {r},
           \/ /\ Involved(k)' \subseteq Involved(k) \cup {r}
              /\ Value(cnt[k])' >= Value(cnt[k])
           \/ /\ Involved(k)' \subseteq Involved(k)
              /\ Value(cnt[k])' >= Value(cnt[k]) - 1
    PROVE  Sound(k)'
<1>0. /\ Cardinality(Involved(k)) \in Nat /\ Cardinality(Admitted(k)) \in Nat
      /\ Cardinality(Involved(k) \ Safe(k)) \in Nat
      /\ faults \in Nat /\ lost \in Nat /\ Value(cnt[k]) \in Int /\ Limit \in Nat
  BY Numbers, Bounds
<1>a. PICK ff \in Nat : faults' = ff
  OBVIOUS
<1>b. PICK ll \in Nat : lost' = ll
  OBVIOUS
<1>c. PICK v \in Int : Value(cnt[k])' = v
  OBVIOUS
<1>1. /\ Involved(k) \in SUBSET Request /\ Admitted(k) \in SUBSET Request
      /\ Involved(k) \ Safe(k) \in SUBSET Request
  BY SetsOfRequests
<1>2. /\ Cardinality(Involved(k)' \ Safe(k)') <= Cardinality(Involved(k) \ Safe(k)) + 1
      /\ Cardinality(Involved(k)' \ Safe(k)') \in Nat
  BY <1>1, OneMore
<1>3. /\ Cardinality(Admitted(k)') <= Cardinality(Admitted(k)) + 1
      /\ Cardinality(Admitted(k)') \in Nat
  BY <1>1, OneMore
<1>4. Backed(k)'
  BY <1>0, <1>2, <1>a, <1>b DEF Sound, Backed
<1>5. Capped(k)'
  BY <1>0, <1>3, <1>a, <1>b DEF Sound, Capped
<1>6. Counted(k)'
  <2>1. CASE /\ Involved(k)' \subseteq Involved(k) \cup {r}
             /\ Value(cnt[k])' >= Value(cnt[k])
    <3>1. Cardinality(Involved(k)') <= Cardinality(Involved(k)) + 1
          /\ Cardinality(Involved(k)') \in Nat
      BY <1>1, <2>1, OneMore
    <3> QED BY <1>0, <1>a, <1>b, <1>c, <2>1, <3>1 DEF Sound, Counted
  <2>2. CASE /\ Involved(k)' \subseteq Involved(k)
             /\ Value(cnt[k])' >= Value(cnt[k]) - 1
    <3>1. Cardinality(Involved(k)') <= Cardinality(Involved(k))
          /\ Cardinality(Involved(k)') \in Nat
      BY <1>1, <2>2, Sizes
    <3> QED BY <1>0, <1>a, <1>b, <1>c, <2>2, <3>1 DEF Sound, Counted
  <2> QED BY <2>1, <2>2
<1>7. Exact(k)'
  BY <1>0, <1>a, <1>b DEF Exact
<1> QED BY <1>4, <1>5, <1>6, <1>7 DEF Sound

(* An applied INCR counts one request more, safe until its EXPIRE, and     *)
(* admits it only below the limit.                                         *)
LEMMA Joins ==
    ASSUME TypeOK, NEW k \in Key, Sound(k), NEW r \in Request,
           UNCHANGED <<faults, lost>>,
           r \notin Involved(k), Involved(k)' = Involved(k) \cup {r},
           Safe(k) \cup {r} \subseteq Safe(k)',
           Value(cnt[k])' = Value(cnt[k]) + 1, counted'[k] = counted[k] \cup {r},
           \/ Admitted(k)' \subseteq Admitted(k)
           \/ Admitted(k)' \subseteq Involved(k) \cup {r} /\ Value(cnt[k]) + 1 <= Limit,
           Dead => Dead'
    PROVE  Sound(k)'
<1>0. /\ Cardinality(Involved(k)) \in Nat /\ Cardinality(Admitted(k)) \in Nat
      /\ Cardinality(Involved(k) \ Safe(k)) \in Nat
      /\ faults \in Nat /\ lost \in Nat /\ Value(cnt[k]) \in Int /\ Limit \in Nat
  BY Numbers, Bounds
<1>1. /\ Involved(k) \in SUBSET Request /\ Admitted(k) \in SUBSET Request
      /\ Involved(k) \ Safe(k) \in SUBSET Request
  BY SetsOfRequests
<1>2. /\ Cardinality(Involved(k)' \ Safe(k)') <= Cardinality(Involved(k) \ Safe(k))
      /\ Cardinality(Involved(k)' \ Safe(k)') \in Nat
  <2>1. Involved(k)' \ Safe(k)' \in SUBSET (Involved(k) \ Safe(k))
    OBVIOUS
  <2> QED BY <1>1, <2>1, Sizes
<1>3. Cardinality(Involved(k)') = Cardinality(Involved(k)) + 1
  BY <1>1, AddOne
<1>4. Backed(k)'
  BY <1>0, <1>2 DEF Sound, Backed
<1>5. Counted(k)'
  BY <1>0, <1>3 DEF Sound, Counted
<1>6. Capped(k)'
  <2>1. CASE Admitted(k)' \subseteq Admitted(k)
    <3>1. Cardinality(Admitted(k)') <= Cardinality(Admitted(k)) /\ Cardinality(Admitted(k)') \in Nat
      BY <1>1, <2>1, Sizes
    <3> QED BY <1>0, <3>1 DEF Sound, Capped
  <2>2. CASE Admitted(k)' \subseteq Involved(k) \cup {r} /\ Value(cnt[k]) + 1 <= Limit
    <3>1. Cardinality(Admitted(k)') <= Cardinality(Involved(k)) + 1
          /\ Cardinality(Admitted(k)') \in Nat
      BY <1>1, <2>2, OneMore
    <3> QED BY <1>0, <2>2, <3>1 DEF Sound, Counted, Capped
  <2> QED BY <2>1, <2>2
<1>7. Exact(k)'
  BY <1>0, <1>3 DEF Sound, Exact
<1> QED BY <1>4, <1>5, <1>6, <1>7 DEF Sound

(* An applied DECR takes its request out of the count. *)
LEMMA Leaves ==
    ASSUME TypeOK, NEW k \in Key, Sound(k), NEW r \in Request,
           UNCHANGED <<faults, lost>>,
           r \in Involved(k), Involved(k)' = Involved(k) \ {r},
           Safe(k) \ {r} \subseteq Safe(k)', Admitted(k)' \subseteq Admitted(k),
           Value(cnt[k])' = Value(cnt[k]) - 1, counted'[k] = counted[k] \ {r},
           Dead => Dead'
    PROVE  Sound(k)'
<1>0. /\ Cardinality(Involved(k)) \in Nat /\ Cardinality(Admitted(k)) \in Nat
      /\ Cardinality(Involved(k) \ Safe(k)) \in Nat
      /\ faults \in Nat /\ lost \in Nat /\ Value(cnt[k]) \in Int /\ Limit \in Nat
  BY Numbers, Bounds
<1>1. /\ Involved(k) \in SUBSET Request /\ Admitted(k) \in SUBSET Request
      /\ Involved(k) \ Safe(k) \in SUBSET Request
  BY SetsOfRequests
<1>2. /\ Cardinality(Involved(k)' \ Safe(k)') <= Cardinality(Involved(k) \ Safe(k))
      /\ Cardinality(Involved(k)' \ Safe(k)') \in Nat
  <2>1. Involved(k)' \ Safe(k)' \in SUBSET (Involved(k) \ Safe(k))
    OBVIOUS
  <2> QED BY <1>1, <2>1, Sizes
<1>3. Cardinality(Involved(k)') = Cardinality(Involved(k)) - 1
  BY <1>1, TakeOne
<1>4. Cardinality(Admitted(k)') <= Cardinality(Admitted(k)) /\ Cardinality(Admitted(k)') \in Nat
  BY <1>1, Sizes
<1>5. Backed(k)'
  BY <1>0, <1>2 DEF Sound, Backed
<1>6. Counted(k)'
  BY <1>0, <1>3 DEF Sound, Counted
<1>7. Capped(k)'
  BY <1>0, <1>4 DEF Sound, Capped
<1>8. Exact(k)'
  BY <1>0, <1>3 DEF Sound, Exact
<1> QED BY <1>5, <1>6, <1>7, <1>8 DEF Sound

----------------------------------------------------------------------------
(* The steps of a request *)

(* A move of r changes the sets of a key by r at most. *)
LEMMA ByOne ==
    ASSUME TypeOK, TypeOK', NEW r \in Request, NEW s \in Step, NEW l \in Level, At(r, s, l),
           \A q \in Request : q # r => over'[q] = over[q],
           NEW k \in Key, cnt[k] # NoKey => cnt'[k] # NoKey,
           ttl'[k] = ttl[k] \/ ttl'[k] = SlotTTL
    PROVE  /\ Involved(k)' \subseteq Involved(k) \cup {r}
           /\ Involved(k) \subseteq Involved(k)' \cup {r}
           /\ Admitted(k)' \subseteq Admitted(k) \cup {r}
           /\ Safe(k) \ {r} \subseteq Safe(k)'
<1>1. \A q \in Request : q # r =>
          /\ q \in Holder(k)' <=> q \in Holder(k)
          /\ q \in Expiring(k)' <=> q \in Expiring(k)
          /\ q \in Involved(k)' <=> q \in Involved(k)
          /\ age'[q] = age[q]
  BY OthersStay
<1>2. Involved(k)' \in SUBSET Request /\ Admitted(k)' \in SUBSET Request
  BY DEF Involved, Holder, Expiring, Undoing, Admitted
<1>3. Involved(k) \in SUBSET Request /\ Safe(k) \in SUBSET Involved(k)
  BY SetsOfRequests
<1>4. Admitted(k)' \subseteq Admitted(k) \cup {r}
  BY <1>1, <1>2 DEF Admitted
<1>5. Safe(k) \ {r} \subseteq Safe(k)'
  <2> SUFFICES ASSUME NEW q \in Safe(k), q # r PROVE q \in Safe(k)'
    OBVIOUS
  <2>1. /\ q \in Request /\ q \in Involved(k) /\ cnt[k] # NoKey
        /\ q \in Expiring(k) \/ age[q] + ttl[k] >= SlotTTL
    BY <1>3 DEF Safe
  <2>2. q \in Involved(k)' /\ cnt'[k] # NoKey /\ age'[q] = age[q] /\ age[q] \in Nat
    BY <1>1, <2>1 DEF TypeOK
  <2>3. q \in Expiring(k)' \/ age'[q] + ttl'[k] >= SlotTTL
    <3>1. CASE ttl'[k] = ttl[k]
      BY <1>1, <2>1, <2>2, <3>1
    <3>2. CASE ttl'[k] = SlotTTL
      BY <2>2, <3>2, Bounds
    <3> QED BY <3>1, <3>2
  <2> QED BY <2>2, <2>3 DEF Safe
<1> QED BY <1>1, <1>2, <1>3, <1>4, <1>5

(* A key that r does not work on stays sound. *)
LEMMA Elsewhere ==
    ASSUME TypeOK, TypeOK', NEW r \in Request, NEW s \in Step, NEW l \in Level, At(r, s, l),
           \A q \in Request : q # r => over'[q] = over[q],
           NEW k \in Key, Sound(k), step[r] \in {"expire", "undo"} => k # KeyOf(r),
           cnt'[k] = cnt[k], ttl'[k] = ttl[k], counted'[k] = counted[k],
           faults + lost <= faults' + lost', step[r] # "dead",
           k = SubjectOf[r] => (InSubject(s, l) <=> InSubject(step[r], level[r])),
           k = Org => (InOrg(s, l) <=> InOrg(step[r], level[r])),
           s = "expire" => KeyAt(r, l) # k
    PROVE  Sound(k)'
<1>1. Involved(k)' = Involved(k)
  BY OtherKeys
<1>2. /\ Admitted(k)' \subseteq Admitted(k) \cup {r}
      /\ Safe(k) \ {r} \subseteq Safe(k)'
  BY ByOne
<1>3. step'[r] = s /\ level'[r] = l /\ (s # "ready" => age'[r] = age[r])
      /\ \A q \in Request : q # r => step'[q] = step[q]
  BY AtTyped
<1>4. r \notin Expiring(k) /\ r \notin Undoing(k) /\ r \notin Expiring(k)'
  BY <1>3 DEF Expiring, Undoing, KeyOf
<1>5. r \in Admitted(k)' => r \in Admitted(k)
  BY <1>1, <1>4 DEF Admitted, Involved
<1>6. r \in Safe(k) => r \in Safe(k)'
  <2> SUFFICES ASSUME r \in Safe(k) PROVE r \in Safe(k)'
    OBVIOUS
  <2>1. r \in Involved(k)' /\ cnt'[k] # NoKey /\ age[r] + ttl[k] >= SlotTTL
    BY <1>1, <1>4 DEF Safe
  <2>2. s # "ready"
    BY <1>3, <2>1 DEF Involved, Holder, Expiring, Undoing
  <2> QED BY <1>3, <2>1, <2>2 DEF Safe
<1>7. Dead => Dead'
  BY <1>3 DEF Dead
<1>8. Admitted(k)' \subseteq Admitted(k) /\ Safe(k) \subseteq Safe(k)'
  BY <1>2, <1>5, <1>6
<1>9. faults' \in Nat /\ lost' \in Nat
  BY DEF TypeOK
<1> QED BY <1>1, <1>7, <1>8, <1>9, Untouched

(* A failing command, applied or not, keeps every key sound. *)
LEMMA FaultStep ==
    ASSUME TypeOK, TypeOK', NEW r \in Request, NEW s \in Step, NEW l \in Level, At(r, s, l),
           Fault, \A q \in Request : q # r => over'[q] = over[q],
           NEW k \in Key, Sound(k), ttl'[k] = ttl[k] \/ ttl'[k] = SlotTTL,
           \/ cnt'[k] = cnt[k]
           \/ cnt'[k] = Value(cnt[k]) + 1
           \/ cnt'[k] = Value(cnt[k]) - 1 /\ r \in Involved(k)
    PROVE  Sound(k)'
<1>0. Value(cnt[k]) \in Int /\ faults \in Nat /\ lost \in Nat /\ NoKey \notin Int
  BY Numbers, Bounds
<1>1. /\ cnt[k] # NoKey => cnt'[k] # NoKey
      /\ Value(cnt[k])' \in Int
      /\ \/ Value(cnt[k])' >= Value(cnt[k])
         \/ Value(cnt[k])' >= Value(cnt[k]) - 1 /\ r \in Involved(k)
  <2>1. CASE cnt'[k] = cnt[k]
    <3>1. Value(cnt[k])' = Value(cnt[k])
      BY <2>1 DEF Value
    <3> QED BY <1>0, <2>1, <3>1
  <2>2. CASE cnt'[k] = Value(cnt[k]) + 1
    <3>1. Value(cnt[k])' = Value(cnt[k]) + 1
      BY <1>0, <2>2 DEF Value
    <3> QED BY <1>0, <2>2, <3>1
  <2>3. CASE cnt'[k] = Value(cnt[k]) - 1 /\ r \in Involved(k)
    <3>1. Value(cnt[k])' = Value(cnt[k]) - 1
      BY <1>0, <2>3 DEF Value
    <3> QED BY <1>0, <2>3, <3>1
  <2> QED BY <2>1, <2>2, <2>3
<1>2. /\ Involved(k)' \subseteq Involved(k) \cup {r}
      /\ Admitted(k)' \subseteq Admitted(k) \cup {r}
      /\ Safe(k) \ {r} \subseteq Safe(k)'
  BY <1>1, ByOne
<1>3. Involved(k)' \ Safe(k)' \subseteq (Involved(k) \ Safe(k)) \cup {r}
  BY <1>2
<1>4. r \in Involved(k) => Involved(k)' \subseteq Involved(k)
  BY <1>2
<1>5. faults' + lost' = faults + lost + 1 /\ faults' \in Nat /\ lost' \in Nat
  BY <1>0 DEF Fault
<1> QED BY <1>1, <1>2, <1>3, <1>4, <1>5, FaultPays

(* The handler reaching _acquire_concurrency_slots keeps every key sound. *)
LEMMA CallSound ==
    ASSUME IInv, TypeOK', NEW r \in Request, Call(r), NEW k \in Key
    PROVE  Sound(k)'
<1>1. TypeOK /\ Sound(k) /\ step[r] = "ready" /\ At(r, "incr", "subject")
  BY DEF IInv, Call
<1>2. faults + lost <= faults' + lost' /\ UNCHANGED <<cnt, ttl, over, counted>>
  BY <1>1 DEF Call, TypeOK
<1> QED BY <1>1, <1>2, Elsewhere DEF InSubject, InOrg, Step, InFlight, Level

(* INCR, applied and answered, keeps every key sound: it counts a request  *)
(* and lets it pass only if the count stays within the limit.              *)
LEMMA IncrSound ==
    ASSUME IInv, TypeOK', NEW r \in Request, AcquireIncr(r), NEW k \in Key
    PROVE  Sound(k)'
<1> DEFINE k0 == KeyOf(r)
<1>1. TypeOK /\ Sound(k) /\ step[r] = "incr" /\ At(r, "expire", level[r]) /\ level[r] \in Level
      /\ "expire" \in Step /\ KeyAt(r, level[r]) = k0
  BY DEF IInv, TypeOK, AcquireIncr, Step, InFlight, KeyOf
<1>2. /\ UNCHANGED <<ttl, faults, lost>>
      /\ over'[r] = (Value(cnt[k0]) + 1 > Limit)
      /\ \A q \in Request : q # r => over'[q] = over[q]
  BY <1>1 DEF AcquireIncr, TypeOK
<1>3. /\ k0 \in Key /\ cnt'[k0] = Value(cnt[k0]) + 1 /\ cnt'[k0] \in Int
      /\ counted'[k0] = counted[k0] \cup {r}
      /\ k # k0 => cnt'[k] = cnt[k] /\ counted'[k] = counted[k]
  BY <1>1, CommandTyped DEF AcquireIncr
<1>4. step'[r] = "expire" /\ level'[r] = level[r]
      /\ \A q \in Request : q # r => step'[q] = step[q]
  BY <1>1, AtTyped
<1>5. CASE k # k0
  <2>1. k = SubjectOf[r] => level[r] = "org"
    BY <1>1, <1>5, KeyOfIn DEF Level
  <2>2. k = Org => level[r] # "org"
    BY <1>1, <1>5, KeyOfIn DEF Level
  <2>3. faults + lost <= faults' + lost'
    BY <1>1, <1>2 DEF TypeOK
  <2> QED BY <1>1, <1>2, <1>3, <1>5, <2>1, <2>2, <2>3, Elsewhere DEF InSubject, InOrg
<1>6. CASE k = k0
  <2>1. r \notin Involved(k)
    <3>1. k = SubjectOf[r] => level[r] = "subject"
      BY <1>1, <1>6, KeyOfIn, Keys DEF Level
    <3> QED BY <1>1, <3>1, Place DEF InSubject, InOrg
  <2>2. r \in Expiring(k)'
    BY <1>1, <1>4, <1>6 DEF Expiring, KeyOf
  <2>3. /\ Involved(k)' \subseteq Involved(k) \cup {r}
        /\ Involved(k) \subseteq Involved(k)' \cup {r}
        /\ Admitted(k)' \subseteq Admitted(k) \cup {r}
        /\ Safe(k) \ {r} \subseteq Safe(k)'
    <3>1. cnt'[k] # NoKey /\ ttl'[k] = ttl[k]
      BY <1>2, <1>3, <1>6, Bounds
    <3> QED BY <1>1, <1>2, <3>1, ByOne
  <2>4. Involved(k)' = Involved(k) \cup {r}
    BY <2>2, <2>3 DEF Involved
  <2>5. Safe(k) \cup {r} \subseteq Safe(k)'
    <3>1. r \in Safe(k)'
      BY <1>3, <1>6, <2>2, <2>4, Bounds DEF Safe
    <3> QED BY <2>3, <3>1
  <2>6. Value(cnt[k])' = Value(cnt[k]) + 1
    BY <1>3, <1>6, Bounds DEF Value
  <2>7. \/ Admitted(k)' \subseteq Admitted(k)
        \/ Admitted(k)' \subseteq Involved(k) \cup {r} /\ Value(cnt[k]) + 1 <= Limit
    <3>1. CASE Value(cnt[k0]) + 1 > Limit
      <4>1. r \notin Admitted(k)'
        <5>1. r \notin Holder(k)'
          <6>1. k # SubjectOf[r] \/ level'[r] # "org"
            BY <1>1, <1>4, <1>6, KeyOfIn, Keys
          <6> QED BY <1>4, <6>1 DEF Holder
        <5> QED BY <1>2, <3>1, <5>1 DEF Admitted
      <4> QED BY <2>3, <4>1
    <3>2. CASE ~(Value(cnt[k0]) + 1 > Limit)
      <4>1. Value(cnt[k]) \in Int /\ Limit \in Nat /\ Admitted(k) \subseteq Involved(k)
        BY <1>1, Numbers, Bounds, SetsOfRequests
      <4> QED BY <1>6, <2>3, <3>2, <4>1
    <3> QED BY <3>1, <3>2
  <2>8. Dead => Dead'
    BY <1>1, <1>4 DEF Dead
  <2>9. counted'[k] = counted[k] \cup {r}
    BY <1>3, <1>6
  <2> QED BY <1>1, <1>2, <2>1, <2>4, <2>5, <2>6, <2>7, <2>8, <2>9, Joins
<1> QED BY <1>5, <1>6

(* EXPIRE, applied and answered, keeps every key sound: the request counts *)
(* as before, and the key now outlives whoever is counted in it.           *)
LEMMA ExpireSound ==
    ASSUME IInv, TypeOK', NEW r \in Request, AcquireExpire(r), NEW k \in Key
    PROVE  Sound(k)'
<1> DEFINE k0 == KeyOf(r)
<1>1. TypeOK /\ Sound(k) /\ step[r] = "expire" /\ level[r] \in Level
      /\ KeyAt(r, level[r]) = k0
  BY DEF IInv, TypeOK, AcquireExpire, KeyOf
<1>2. PICK s \in Step, l \in Level :
          /\ At(r, s, l)
          /\ \/ over[r] /\ s = "undo" /\ l = level[r]
             \/ ~over[r] /\ level[r] = "subject" /\ s = "incr" /\ l = "org"
             \/ ~over[r] /\ level[r] = "org" /\ s = "hold" /\ l = "subject"
  BY <1>1 DEF AcquireExpire, Passed, Step, InFlight, Level
<1>3. /\ UNCHANGED <<cnt, counted, faults, lost>>
      /\ \A q \in Request : q # r => over'[q] = over[q]
  BY <1>1 DEF AcquireExpire, TypeOK
<1>4. /\ k0 \in Key /\ cnt[k0] # NoKey => ttl'[k0] = SlotTTL
      /\ k # k0 => ttl'[k] = ttl[k]
  BY <1>1, ExpireTyped DEF AcquireExpire
<1>5. /\ step'[r] = s /\ level'[r] = l /\ s # "ready" /\ age'[r] = age[r]
      /\ \A q \in Request : q # r => step'[q] = step[q]
  BY <1>1, <1>2, AtTyped
<1>6. /\ k = SubjectOf[r] => (InSubject(s, l) <=> InSubject(step[r], level[r]))
      /\ k = Org => (InOrg(s, l) <=> InOrg(step[r], level[r]))
  BY <1>1, <1>2 DEF InSubject, InOrg, Level
<1>7. faults + lost <= faults' + lost' /\ faults' \in Nat /\ lost' \in Nat
  BY <1>1, <1>3 DEF TypeOK
<1>8. CASE k # k0
  BY <1>1, <1>2, <1>3, <1>4, <1>6, <1>7, <1>8, Elsewhere
<1>9. CASE k = k0
  <2>1. Involved(k)' = Involved(k)
    BY <1>1, <1>2, <1>6, OtherKeys
  <2>2. Safe(k) \subseteq Safe(k)'
    <3> SUFFICES ASSUME NEW q \in Safe(k) PROVE q \in Safe(k)'
      OBVIOUS
    <3>1. q \in Involved(k)' /\ q \in Request /\ cnt[k] # NoKey
      BY <2>1, SetsOfRequests DEF Safe
    <3>2. ttl'[k] = SlotTTL /\ age'[q] \in Nat /\ cnt'[k] # NoKey
      BY <1>3, <1>4, <1>9, <3>1 DEF TypeOK
    <3>3. age'[q] + ttl'[k] >= SlotTTL
      BY <3>2, Bounds
    <3> QED BY <3>1, <3>2, <3>3 DEF Safe
  <2>3. Admitted(k)' \subseteq Admitted(k)
    <3>1. Admitted(k)' \subseteq Admitted(k) \cup {r}
      <4>1. \A q \in Request : q # r =>
                /\ q \in Holder(k)' <=> q \in Holder(k)
                /\ q \in Expiring(k)' <=> q \in Expiring(k)
        BY <1>1, <1>2, OthersStay
      <4> QED BY <1>3, <4>1 DEF Admitted, Holder, Expiring
    <3>2. CASE ~over[r]
      BY <1>1, <1>9, <3>1, <3>2 DEF Admitted, Expiring
    <3>3. CASE over[r]
      <4>1. r \notin Holder(k)' /\ r \notin Expiring(k)'
        <5>1. k # SubjectOf[r] \/ level'[r] # "org"
          BY <1>1, <1>2, <1>5, <1>9, <3>3, KeyOfIn, Keys
        <5> QED BY <1>2, <1>5, <3>3, <5>1 DEF Holder, Expiring
      <4> QED BY <3>1, <4>1 DEF Admitted
    <3> QED BY <3>2, <3>3
  <2>4. Dead => Dead'
    BY <1>1, <1>5 DEF Dead
  <2>5. cnt'[k] = cnt[k] /\ counted'[k] = counted[k]
    BY <1>3
  <2> QED BY <1>1, <1>7, <2>1, <2>2, <2>3, <2>4, <2>5, Untouched
<1> QED BY <1>8, <1>9

(* A DECR, applied and answered, keeps every key sound: after a refusal    *)
(* and in both releases it takes out a request that was counted.           *)
LEMMA DecrSound ==
    ASSUME IInv, TypeOK', NEW r \in Request, AcquireUndo(r) \/ ReleaseDecr(r), NEW k \in Key
    PROVE  Sound(k)'
<1> DEFINE k0 == KeyOf(r)
<1>1. TypeOK /\ Levels /\ Sound(k) /\ step[r] \in {"undo", "back", "hold", "decr"} /\ level[r] \in Level
      /\ KeyAt(r, level[r]) = k0
  BY DEF IInv, TypeOK, AcquireUndo, ReleaseDecr, KeyOf
<1>2. PICK s \in Step, l \in Level :
          /\ At(r, s, l)
          /\ \/ step[r] = "undo" /\ level[r] = "subject" /\ s = "ready" /\ l = "subject"
             \/ step[r] = "undo" /\ level[r] = "org" /\ s = "back" /\ l = "subject"
             \/ step[r] = "hold" /\ level[r] = "subject" /\ s = "decr" /\ l = "org"
             \/ step[r] = "back" /\ level[r] = "subject" /\ s = "ready" /\ l = "subject"
             \/ step[r] = "decr" /\ level[r] = "org" /\ s = "ready" /\ l = "subject"
  BY <1>1 DEF AcquireUndo, ReleaseDecr, Refused, Returned, Levels, Step, InFlight, Level
<1>3. UNCHANGED <<ttl, over, faults, lost>>
  BY DEF AcquireUndo, ReleaseDecr
<1>4. /\ k0 \in Key /\ cnt'[k0] = Value(cnt[k0]) - 1 /\ cnt'[k0] \in Int
      /\ counted'[k0] = counted[k0] \ {r}
      /\ k # k0 => cnt'[k] = cnt[k] /\ counted'[k] = counted[k]
  BY <1>1, CommandTyped DEF AcquireUndo, ReleaseDecr
<1>5. /\ step'[r] = s /\ level'[r] = l
      /\ \A q \in Request : q # r => step'[q] = step[q]
  BY <1>1, <1>2, AtTyped
<1>6. SubjectOf[r] # Org /\ (level[r] = "org" => k0 = Org)
      /\ (level[r] = "subject" => k0 = SubjectOf[r])
  BY <1>1, Keys, KeyOfIn
<1>7. CASE k # k0
  <2>1. /\ k = SubjectOf[r] => (InSubject(s, l) <=> InSubject(step[r], level[r]))
        /\ k = Org => (InOrg(s, l) <=> InOrg(step[r], level[r]))
    BY <1>2, <1>6, <1>7 DEF InSubject, InOrg
  <2>2. faults + lost <= faults' + lost'
    BY <1>1, <1>3 DEF TypeOK
  <2>3. s # "expire" /\ step[r] # "dead"
    BY <1>2
  <2> QED BY <1>1, <1>2, <1>3, <1>4, <1>7, <2>1, <2>2, <2>3, Elsewhere
<1>8. CASE k = k0
  <2>1. r \in Involved(k)
    BY <1>1, <1>2, <1>6, <1>8, Place DEF InSubject, InOrg
  <2>2. /\ Involved(k)' \subseteq Involved(k) \cup {r}
        /\ Involved(k) \subseteq Involved(k)' \cup {r}
        /\ Admitted(k)' \subseteq Admitted(k) \cup {r}
        /\ Safe(k) \ {r} \subseteq Safe(k)'
    <3>1. cnt'[k] # NoKey /\ ttl'[k] = ttl[k]
      BY <1>3, <1>4, <1>8, Bounds
    <3> QED BY <1>1, <1>2, <1>3, <3>1, ByOne
  <2>3. r \notin Involved(k)'
    BY <1>2, <1>5, <1>6, <1>8 DEF Involved, Holder, Expiring, Undoing
  <2>4. Involved(k)' = Involved(k) \ {r}
    BY <2>2, <2>3
  <2>5. Admitted(k)' \subseteq Admitted(k)
    <3>1. r \notin Admitted(k)'
      BY <2>3 DEF Admitted, Involved
    <3> QED BY <2>2, <3>1
  <2>6. Value(cnt[k])' = Value(cnt[k]) - 1 /\ counted'[k] = counted[k] \ {r}
    BY <1>4, <1>8, Bounds DEF Value
  <2>7. Dead => Dead'
    BY <1>1, <1>5 DEF Dead
  <2> QED BY <1>1, <1>3, <2>1, <2>2, <2>4, <2>5, <2>6, <2>7, Leaves
<1> QED BY <1>7, <1>8

(* A failing INCR or EXPIRE keeps every key sound although it lets the     *)
(* request pass.                                                           *)
LEMMA PassFailsSound ==
    ASSUME IInv, TypeOK', NEW r \in Request, AcquireIncrFails(r) \/ AcquireExpireFails(r),
           NEW k \in Key
    PROVE  Sound(k)'
<1>1. TypeOK /\ Sound(k) /\ level[r] \in Level /\ Fault
  BY DEF IInv, TypeOK, AcquireIncrFails, AcquireExpireFails
<1>2. PICK s \in Step, l \in Level : At(r, s, l)
  BY DEF AcquireIncrFails, AcquireExpireFails, Passed, Step, InFlight, Level
<1>3. \A q \in Request : q # r => over'[q] = over[q]
  BY <1>1 DEF AcquireIncrFails, AcquireExpireFails, TypeOK
<1>4. ttl'[k] = ttl[k] \/ ttl'[k] = SlotTTL
  <2>1. CASE UNCHANGED ttl
    BY <2>1
  <2>2. CASE SetTTL(KeyOf(r))
    <3>1. KeyOf(r) \in Key
      BY <1>1, KeyOfIn
    <3> QED BY <1>1, <2>2, <3>1 DEF SetTTL, TypeOK
  <2> QED BY <2>1, <2>2 DEF AcquireIncrFails, AcquireExpireFails
<1>5. cnt'[k] = cnt[k] \/ cnt'[k] = Value(cnt[k]) + 1
  <2>1. CASE Incr(r)
    BY <1>1, <2>1, CommandTyped
  <2>2. CASE UNCHANGED cnt
    BY <2>2
  <2> QED BY <2>1, <2>2 DEF AcquireIncrFails, AcquireExpireFails
<1> QED BY <1>1, <1>2, <1>3, <1>4, <1>5, FaultStep

(* So does a failing DECR. *)
LEMMA DecrFailsSound ==
    ASSUME IInv, TypeOK', NEW r \in Request, AcquireUndoFails(r) \/ ReleaseDecrFails(r),
           NEW k \in Key
    PROVE  Sound(k)'
<1>1. TypeOK /\ Levels /\ Sound(k) /\ level[r] \in Level /\ Fault
      /\ step[r] \in {"undo", "back", "hold", "decr"}
  BY DEF IInv, TypeOK, AcquireUndoFails, ReleaseDecrFails
<1>2. PICK s \in Step, l \in Level : At(r, s, l)
  BY DEF AcquireUndoFails, ReleaseDecrFails, Refused, Returned, Step, InFlight, Level
<1>3. UNCHANGED <<over, ttl>>
  BY DEF AcquireUndoFails, ReleaseDecrFails
<1>4. SubjectOf[r] # Org /\ (level[r] = "org" => KeyOf(r) = Org)
      /\ (level[r] = "subject" => KeyOf(r) = SubjectOf[r])
  BY <1>1, Keys, KeyOfIn
<1>5. k = KeyOf(r) => r \in Involved(k)
  BY <1>1, <1>4, Place DEF InSubject, InOrg, Levels, Level
<1>6. cnt'[k] = cnt[k] \/ (cnt'[k] = Value(cnt[k]) - 1 /\ r \in Involved(k))
  <2>1. CASE Decr(r)
    BY <1>1, <1>5, <2>1, CommandTyped
  <2>2. CASE UNCHANGED cnt
    BY <2>2
  <2> QED BY <2>1, <2>2 DEF AcquireUndoFails, ReleaseDecrFails
<1> QED BY <1>1, <1>2, <1>3, <1>6, FaultStep

----------------------------------------------------------------------------
(* Crashes and time *)

(* A crash keeps the invariant: the dead leave every set, and only the     *)
(* counter still holds their increments.                                   *)
LEMMA CrashKeeps ==
    ASSUME IInv, NEW S \in SUBSET Request, Crash(S)
    PROVE  IInv'
<1>1. TypeOK /\ Levels
  BY DEF IInv
<1>2. /\ UNCHANGED <<cnt, ttl, level, over, age, faults, lost>>
      /\ \A q \in Request : step'[q] = step[q] \/ step'[q] = "dead"
      /\ step' \in [Request -> Step] /\ Dead'
      /\ \A k \in Key : counted'[k] = {q \in counted[k] : step'[q] # "dead"}
  BY <1>1 DEF Crash, TypeOK, Step, Dead
<1>3. counted' \in [Key -> SUBSET Request]
  BY <1>1 DEF Crash, TypeOK
<1>4. TypeOK' /\ Levels'
  BY <1>1, <1>2, <1>3 DEF TypeOK, Levels
<1>5. ASSUME NEW k \in Key PROVE Sound(k)'
  <2>1. Sound(k)
    BY DEF IInv
  <2>2. /\ Holder(k)' = {q \in Holder(k) : step'[q] # "dead"}
        /\ Expiring(k)' = {q \in Expiring(k) : step'[q] # "dead"}
        /\ Undoing(k)' = {q \in Undoing(k) : step'[q] # "dead"}
    BY <1>2 DEF Holder, Expiring, Undoing, KeyOf, KeyAt
  <2>3. Involved(k)' = {q \in Involved(k) : step'[q] # "dead"} /\ Admitted(k)' \subseteq Admitted(k)
    BY <1>2, <2>2 DEF Involved, Admitted
  <2>4. Involved(k)' \ Safe(k)' \subseteq Involved(k) \ Safe(k)
    BY <1>2, <2>2, <2>3 DEF Safe
  <2>5. /\ Involved(k) \in SUBSET Request /\ Admitted(k) \in SUBSET Request
        /\ Involved(k) \ Safe(k) \in SUBSET Request
    BY SetsOfRequests
  <2>6. /\ Cardinality(Involved(k)') <= Cardinality(Involved(k))
        /\ Cardinality(Involved(k)') \in Nat
        /\ Cardinality(Admitted(k)') <= Cardinality(Admitted(k))
        /\ Cardinality(Admitted(k)') \in Nat
        /\ Cardinality(Involved(k)' \ Safe(k)') <= Cardinality(Involved(k) \ Safe(k))
        /\ Cardinality(Involved(k)' \ Safe(k)') \in Nat
    BY <2>3, <2>4, <2>5, Sizes
  <2>7. /\ Cardinality(Involved(k)) \in Nat /\ Cardinality(Admitted(k)) \in Nat
        /\ Cardinality(Involved(k) \ Safe(k)) \in Nat
        /\ faults \in Nat /\ lost \in Nat /\ Value(cnt[k]) \in Int /\ Limit \in Nat
    BY <1>1, Numbers, Bounds
  <2>8. Backed(k)'
    BY <1>2, <2>1, <2>6, <2>7 DEF Sound, Backed
  <2>9. Counted(k)'
    BY <1>2, <2>1, <2>6, <2>7 DEF Sound, Counted
  <2>10. Capped(k)'
    BY <1>2, <2>1, <2>6, <2>7 DEF Sound, Capped
  <2>11. Exact(k)'
    BY <1>2, <2>1, <2>3 DEF Sound, Exact
  <2> QED BY <2>8, <2>9, <2>10, <2>11 DEF Sound
<1> QED BY <1>4, <1>5 DEF IInv

(* A counter expires only under requests that a fault left unsafe, or that *)
(* slip in that very tick.                                                 *)
LEMMA ExpiresUnderSlipping ==
    ASSUME IInv, Tick, NEW k \in Key, ttl[k] = 1
    PROVE  /\ Safe(k) \subseteq Slipping
           /\ Cardinality(Involved(k)) <= faults + lost + Cardinality(Slipping)
<1>1. TypeOK /\ Sound(k)
  BY DEF IInv
<1>2. Safe(k) \subseteq Slipping
  <2> SUFFICES ASSUME NEW q \in Safe(k) PROVE q \in Slipping
    OBVIOUS
  <2>1. /\ q \in Involved(k) /\ q \in Request
        /\ q \in Expiring(k) \/ age[q] + ttl[k] >= SlotTTL
    BY SetsOfRequests DEF Safe
  <2>2. step[q] \in InFlight
    BY <2>1 DEF Involved, Holder, Expiring, Undoing, InFlight
  <2>3. age[q] < MaxHold /\ age[q] \in Nat
    BY <1>1, <2>1, <2>2 DEF Tick, TypeOK
  <2>4. q \in Expiring(k)
    BY <2>1, <2>3, Bounds
  <2> QED BY <2>4 DEF Expiring, Slipping
<1>3. /\ Involved(k) \ Safe(k) \in SUBSET Request /\ Slipping \in SUBSET Request
      /\ (Involved(k) \ Safe(k)) \cup Slipping \in SUBSET Request
      /\ Involved(k) \in SUBSET ((Involved(k) \ Safe(k)) \cup Slipping)
  BY <1>2, SetsOfRequests DEF Slipping
<1>4. /\ IsFiniteSet(Involved(k) \ Safe(k)) /\ IsFiniteSet(Slipping)
      /\ Cardinality(Involved(k) \ Safe(k)) \in Nat /\ Cardinality(Slipping) \in Nat
      /\ Cardinality((Involved(k) \ Safe(k)) \cup Slipping) \in Nat
      /\ Cardinality(Involved(k)) <= Cardinality((Involved(k) \ Safe(k)) \cup Slipping)
      /\ Cardinality(Involved(k)) \in Nat
  BY <1>3, Sizes
<1>5. (Involved(k) \ Safe(k)) \cap Slipping \in SUBSET Request
  BY <1>3
<1>6. Cardinality((Involved(k) \ Safe(k)) \cap Slipping) \in Nat
  BY <1>5, Sizes
<1>7. Cardinality((Involved(k) \ Safe(k)) \cup Slipping)
          = Cardinality(Involved(k) \ Safe(k)) + Cardinality(Slipping)
                - Cardinality((Involved(k) \ Safe(k)) \cap Slipping)
  BY <1>4, FS_Union
<1>8. Cardinality(Involved(k) \ Safe(k)) <= faults + lost /\ faults \in Nat /\ lost \in Nat
  BY <1>1 DEF Sound, Backed, TypeOK
<1> QED BY <1>2, <1>4, <1>6, <1>7, <1>8

(* A tick keeps the invariant. *)
LEMMA TickKeeps ==
    ASSUME IInv, Tick
    PROVE  IInv'
<1>1. TypeOK /\ Levels
  BY DEF IInv
<1>2. UNCHANGED <<step, level, over, faults>>
  BY DEF Tick
<1>3. Cardinality(Slipping) \in Nat
  <2>1. Slipping \in SUBSET Request
    BY DEF Slipping
  <2> QED BY <2>1, Sizes
<1>4. PICK ll \in Nat : lost' = ll /\ ll = lost + Cardinality(Slipping) /\ ll + faults <= MaxFaults
  BY <1>1, <1>3 DEF Tick, TypeOK
<1>5. /\ age' \in [Request -> 0..MaxHold] /\ ttl' \in [Key -> 0..SlotTTL]
      /\ cnt' \in [Key -> Int \cup {NoKey}] /\ counted' \in [Key -> SUBSET Request]
  BY <1>1, Bounds DEF Tick, TypeOK
<1>6. TypeOK' /\ Levels'
  <2>1. ll \in 0..MaxFaults
    BY <1>1, <1>4, Bounds DEF TypeOK
  <2> QED BY <1>1, <1>2, <1>4, <1>5, <2>1 DEF TypeOK, Levels
<1>7. ASSUME NEW k \in Key PROVE Sound(k)'
  <2>1. Sound(k)
    BY DEF IInv
  <2>2. /\ Involved(k)' = Involved(k) /\ Admitted(k)' = Admitted(k)
        /\ Expiring(k)' = Expiring(k) /\ Dead' = Dead
    BY <1>2 DEF Involved, Admitted, Holder, Expiring, Undoing, KeyOf, KeyAt, Dead
  <2>3. /\ Cardinality(Involved(k)) \in Nat /\ Cardinality(Admitted(k)) \in Nat
        /\ Cardinality(Involved(k) \ Safe(k)) \in Nat
        /\ faults \in Nat /\ lost \in Nat /\ Value(cnt[k]) \in Int /\ Limit \in Nat
    BY <1>1, Numbers, Bounds
  <2>4. CASE ttl[k] = 1
    <3>1. cnt'[k] = NoKey /\ counted'[k] = {} /\ Value(cnt[k])' = 0
      BY <2>4 DEF Tick, Value
    <3>2. Cardinality(Involved(k)) <= faults + ll
      BY <1>3, <1>4, <2>3, <2>4, ExpiresUnderSlipping
    <3>3. Backed(k)'
      <4>1. Safe(k)' = {}
        BY <3>1 DEF Safe
      <4>2. Cardinality(Involved(k)' \ Safe(k)') = Cardinality(Involved(k))
        BY <2>2, <4>1
      <4> QED BY <1>2, <1>4, <3>2, <4>2 DEF Backed
    <3>4. Counted(k)'
      BY <1>2, <1>4, <2>2, <2>3, <3>1, <3>2 DEF Counted
    <3>5. Capped(k)'
      BY <1>2, <1>3, <1>4, <2>1, <2>2, <2>3 DEF Sound, Capped
    <3>6. Exact(k)'
      <4> SUFFICES ASSUME faults + ll = 0
                   PROVE  Involved(k) = {} /\ Cardinality(Involved(k)) = 0
        BY <1>2, <1>4, <2>2, <3>1 DEF Exact
      <4>1. Cardinality(Involved(k)) = 0
        BY <2>3, <3>2
      <4>2. Involved(k) \in SUBSET Request
        BY SetsOfRequests
      <4> QED BY <4>1, <4>2, Sizes, FS_EmptySet
    <3> QED BY <3>3, <3>4, <3>5, <3>6 DEF Sound
  <2>5. CASE ttl[k] # 1
    <3>1. cnt'[k] = cnt[k] /\ counted'[k] = counted[k]
      BY <1>1, <2>5 DEF Tick, TypeOK
    <3>2. Safe(k) \subseteq Safe(k)'
      <4> SUFFICES ASSUME NEW q \in Safe(k) PROVE q \in Safe(k)'
        OBVIOUS
      <4>1. /\ q \in Involved(k) /\ q \in Request /\ cnt[k] # NoKey
            /\ q \in Expiring(k) \/ age[q] + ttl[k] >= SlotTTL
        BY SetsOfRequests DEF Safe
      <4>2. step[q] \in InFlight
        BY <4>1 DEF Involved, Holder, Expiring, Undoing, InFlight
      <4>3. /\ age[q] \in 0..MaxHold /\ age'[q] = age[q] + 1 /\ ttl[k] \in 0..SlotTTL
            /\ ttl'[k] = IF ttl[k] > 0 THEN ttl[k] - 1 ELSE 0
        BY <1>1, <4>1, <4>2 DEF Tick, TypeOK
      <4>4. q \in Expiring(k) \/ age'[q] + ttl'[k] >= SlotTTL
        BY <4>1, <4>3, Bounds
      <4> QED BY <2>2, <3>1, <4>1, <4>4 DEF Safe
    <3>3. faults + lost <= faults' + lost' /\ faults' \in Nat /\ lost' \in Nat
      BY <1>2, <1>3, <1>4, <2>3
    <3> QED BY <1>1, <2>1, <2>2, <3>1, <3>2, <3>3, Untouched
  <2> QED BY <2>4, <2>5
<1> QED BY <1>6, <1>7 DEF IInv

----------------------------------------------------------------------------
(* The theorems *)

(* IInv holds in every reachable state. *)
LEMMA Invariance == Spec => []IInv
<1>1. Init => IInv
  <2> SUFFICES ASSUME Init PROVE IInv
    OBVIOUS
  <2>1. TypeOK /\ Levels
    BY Bounds DEF Init, TypeOK, Levels, Step, Level
  <2>2. ASSUME NEW k \in Key PROVE Sound(k)
    <3>1. Involved(k) = {} /\ Admitted(k) = {} /\ Involved(k) \ Safe(k) = {}
      BY DEF Init, Involved, Admitted, Holder, Expiring, Undoing
    <3>2. Cardinality({}) = 0
      BY FS_EmptySet
    <3>3. faults = 0 /\ lost = 0 /\ Value(cnt[k]) = 0 /\ counted[k] = {}
      BY DEF Init, Value
    <3> QED BY <3>1, <3>2, <3>3, Bounds DEF Sound, Backed, Counted, Capped, Exact
  <2> QED BY <2>1, <2>2 DEF IInv
<1>2. IInv /\ [Next]_vars => IInv'
  <2> SUFFICES ASSUME IInv, [Next]_vars PROVE IInv'
    OBVIOUS
  <2>1. ASSUME NEW r \in Request, Call(r) \/ Acquire(r) \/ AcquireFails(r)
                                  \/ ReleaseDecr(r) \/ ReleaseDecrFails(r)
        PROVE  IInv'
    <3>1. TypeOK' /\ Levels'
      BY <2>1, RequestTyped DEF IInv
    <3>2. ASSUME NEW k \in Key PROVE Sound(k)'
      BY <2>1, <3>1, CallSound, IncrSound, ExpireSound, DecrSound, PassFailsSound, DecrFailsSound
         DEF Acquire, AcquireFails
    <3> QED BY <3>1, <3>2 DEF IInv
  <2>2. CASE UNCHANGED vars
    <3>1. TypeOK' /\ Levels'
      BY <2>2 DEF IInv, TypeOK, Levels, vars
    <3>2. ASSUME NEW k \in Key PROVE Sound(k)'
      <4>1. /\ Involved(k)' = Involved(k) /\ Admitted(k)' = Admitted(k) /\ Safe(k)' = Safe(k)
            /\ UNCHANGED <<cnt, counted, faults, lost, Dead>>
        BY <2>2 DEF vars, Involved, Admitted, Safe, Holder, Expiring, Undoing, KeyOf, KeyAt, Dead
      <4> QED BY <4>1 DEF IInv, Sound, Backed, Counted, Capped, Exact, Value
    <3> QED BY <3>1, <3>2 DEF IInv
  <2> QED BY <2>1, <2>2, CrashKeeps, TickKeeps DEF Next
<1> QED BY <1>1, <1>2, PTL DEF Spec

(* The counters, their expiries and the requests keep their types. *)
THEOREM TypeCorrect == Spec => []TypeOK
<1>1. IInv => TypeOK
  BY DEF IInv
<1> QED BY <1>1, Invariance, PTL

(* At most Limit calls per caller and per organization are admitted at     *)
(* once, plus one for every Redis error and every slip so far, whatever    *)
(* the interleaving of the INCR, EXPIRE and DECR of any number of calls.   *)
THEOREM LimitHolds == Spec => []LimitRespected
<1>1. IInv => LimitRespected
  <2> SUFFICES ASSUME IInv, NEW k \in Key
               PROVE  Cardinality(Holder(k)) <= Limit + faults + lost
    BY DEF LimitRespected
  <2>1. TypeOK /\ Sound(k)
    BY DEF IInv
  <2>2. Admitted(k) \in SUBSET Request /\ Holder(k) \in SUBSET Admitted(k)
    BY SetsOfRequests DEF Admitted
  <2>3. Cardinality(Holder(k)) <= Cardinality(Admitted(k)) /\ Cardinality(Holder(k)) \in Nat
    BY <2>2, Sizes
  <2>4. Cardinality(Admitted(k)) \in Nat /\ faults \in Nat /\ lost \in Nat /\ Limit \in Nat
    BY <2>1, Numbers, Bounds
  <2> QED BY <2>1, <2>3, <2>4 DEF Sound, Capped
<1> QED BY <1>1, Invariance, PTL

(* With no Redis error and no crash every path through acquire and release *)
(* gives back exactly what it took.                                        *)
THEOREM NoLeak == Spec => []NothingLeaks
<1>1. IInv => NothingLeaks
  <2> SUFFICES ASSUME IInv, \A r \in Request : step[r] = "ready", faults + lost = 0,
                      NEW k \in Key
               PROVE  Value(cnt[k]) = 0
    BY DEF NothingLeaks
  <2>1. Involved(k) = {} /\ ~Dead
    BY DEF Involved, Holder, Expiring, Undoing, Dead
  <2> QED BY <2>1, FS_EmptySet DEF IInv, Sound, Exact
<1> QED BY <1>1, Invariance, PTL

(* MaxHold being below SlotTTL, a counter never expires under a caller     *)
(* that holds a slot on it, as long as every EXPIRE was applied in time.   *)
THEOREM NoExpiry == Spec => []NoExpiryUnderHolder
<1>1. IInv => NoExpiryUnderHolder
  BY DEF IInv, Sound, Exact, Involved, NoExpiryUnderHolder
<1> QED BY <1>1, Invariance, PTL
=============================================================================
