---------------------------- MODULE QuotaProofs ----------------------------
(* Proofs about Quota for every finite set of requests and every set of    *)
(* allowances: its types, the accounting identity that ties the Redis      *)
(* counter to the reservations made on it, the bound on how far it may go  *)
(* below zero, and from the two the bound on the units in use.             *)
EXTENDS Quota, FiniteSetTheorems, TLAPS

(* The counter is what billing published, less one for each applied DECR,  *)
(* plus one for each applied INCR.                                         *)
Conservation ==
    Value(counter) = Value(published) - Cardinality(took) + Cardinality(gave)

(* While the organization is unmetered: either a caught request has        *)
(* written, or the key is absent and whoever may still write was caught.   *)
Unmetered ==
    published = NoQuota =>
        \/ caught \cap (took \cup gave) # {}
        \/ /\ counter = NoQuota
           /\ \A r \in Request : phase[r] \in Writing => r \in caught

IInv == Types /\ OncePerRequest /\ Conservation /\ NegativeOnlyWhileShort

----------------------------------------------------------------------------
(* Cardinalities of subsets of Request. *)

(* The size of a subset of a finite set is a natural number. *)
LEMMA SubsetSize ==
    ASSUME NEW S \in SUBSET Request
    PROVE  IsFiniteSet(S) /\ Cardinality(S) \in Nat
BY RequestAssumption, FS_Subset, FS_CardinalityType

(* Adding one new request adds one to the size. *)
LEMMA AddOne ==
    ASSUME NEW S \in SUBSET Request, NEW r \in Request, r \notin S
    PROVE  Cardinality(S \cup {r}) = Cardinality(S) + 1
BY SubsetSize, FS_AddElement

(* A smaller set has no more elements. *)
LEMMA Monotone ==
    ASSUME NEW T \in SUBSET Request, NEW S \in SUBSET T
    PROVE  Cardinality(S) <= Cardinality(T)
BY SubsetSize, FS_Subset

(* A set contained in another but for one request is larger by at most one. *)
LEMMA AllButOne ==
    ASSUME NEW S \in SUBSET Request, NEW T \in SUBSET Request, NEW r \in Request,
           S \subseteq T \cup {r}
    PROVE  Cardinality(S) <= Cardinality(T) + 1
<1>1. CASE r \in T
  <2>1. T \cup {r} = T
    BY <1>1
  <2> QED BY <2>1, Monotone, SubsetSize
<1>2. CASE r \notin T
  <2>1. Cardinality(T \cup {r}) = Cardinality(T) + 1
    BY <1>2, AddOne
  <2>2. Cardinality(S) <= Cardinality(T \cup {r})
    BY Monotone
  <2> QED BY <2>1, <2>2
<1> QED BY <1>1, <1>2

----------------------------------------------------------------------------
(* What the two atomic writes do to the accounting. *)

(* An applied DECR by a request that has made none keeps the identity. *)
LEMMA DecrConserves ==
    ASSUME Types, Conservation, NEW r \in Request, r \notin took, Decr(r)
    PROVE  /\ counter' \in Int /\ Value(counter)' = Value(counter) - 1
           /\ Conservation'
<1> USE NoQuotaAssumption, AllowanceAssumption
<1>1. Value(counter) \in Int /\ Value(published) \in Int
  BY DEF Types, Value
<1>2. counter' \in Int /\ Value(counter)' = Value(counter) - 1
  BY <1>1 DEF Decr, Value
<1>3. Cardinality(took') = Cardinality(took) + 1
  BY AddOne DEF Types, Decr
<1>4. Cardinality(took) \in Nat /\ Cardinality(gave) \in Nat
  BY SubsetSize DEF Types
<1> QED BY <1>1, <1>2, <1>3, <1>4 DEF Conservation, Decr, Value

(* An applied INCR by a request that has made none keeps the identity. *)
LEMMA IncrConserves ==
    ASSUME Types, Conservation, NEW r \in Request, r \notin gave, Incr(r)
    PROVE  /\ counter' \in Int /\ Value(counter)' = Value(counter) + 1
           /\ Conservation'
<1> USE NoQuotaAssumption, AllowanceAssumption
<1>1. Value(counter) \in Int /\ Value(published) \in Int
  BY DEF Types, Value
<1>2. counter' \in Int /\ Value(counter)' = Value(counter) + 1
  BY <1>1 DEF Incr, Value
<1>3. Cardinality(gave') = Cardinality(gave) + 1
  BY AddOne DEF Types, Incr
<1>4. Cardinality(took) \in Nat /\ Cardinality(gave) \in Nat
  BY SubsetSize DEF Types
<1> QED BY <1>1, <1>2, <1>3, <1>4 DEF Conservation, Incr, Value

(* A step that leaves the counter and the history alone, moves requests    *)
(* only forwards and never turns an uncompensated request into a served    *)
(* one keeps the whole invariant.                                          *)
LEMMA PhaseStep ==
    ASSUME IInv, UNCHANGED <<counter, ledger>>,
           phase' \in [Request -> Phase],
           \A r \in Request :
              /\ phase'[r] \in {"idle", "decr"} => phase[r] \in {"idle", "decr"}
              /\ phase'[r] \in {"undo", "granted", "incr"}
                     => phase[r] \in {"idle", "decr", "undo", "granted", "incr"}
              /\ phase[r] \in {"undo", "denied", "dead"}
                     => phase'[r] \in {"undo", "denied", "dead"}
    PROVE  IInv'
<1>1. Types'
  BY DEF IInv, Types, ledger
<1>2. OncePerRequest'
  BY DEF IInv, OncePerRequest, ledger
<1>3. Conservation'
  BY DEF IInv, Conservation, Value, ledger
<1>4. NegativeOnlyWhileShort'
  <2>1. Short \subseteq Short' /\ Short' \subseteq Request
    BY DEF IInv, Types, Short, ledger
  <2>2. Cardinality(Short) <= Cardinality(Short')
    BY <2>1, Monotone
  <2>3. Cardinality(Short) \in Nat /\ Cardinality(Short') \in Nat
    BY <2>1, SubsetSize
  <2>4. Value(counter) \in Int
    BY NoQuotaAssumption DEF IInv, Types, Value
  <2> QED BY <2>2, <2>3, <2>4 DEF IInv, NegativeOnlyWhileShort, Value, ledger
<1> QED BY <1>1, <1>2, <1>3, <1>4 DEF IInv

(* An applied INCR from the compensation or from release_quota. *)
LEMMA IncrStep ==
    ASSUME IInv, NEW r \in Request, phase[r] \in {"undo", "incr"}, Incr(r),
           Goto(r, "denied") \/ Goto(r, "released")
    PROVE  IInv'
<1>1. r \notin gave
  BY DEF IInv, OncePerRequest
<1>2. Types'
  BY IncrConserves, <1>1 DEF IInv, Types, Incr, Goto, Phase, Final
<1>3. OncePerRequest'
  <2>1. PICK p \in {"denied", "released"} : phase' = [phase EXCEPT ![r] = p]
    BY DEF Goto
  <2> QED BY <2>1 DEF IInv, Types, OncePerRequest, Incr
<1>4. Conservation' /\ Value(counter)' = Value(counter) + 1
  BY IncrConserves, <1>1 DEF IInv
<1>5. NegativeOnlyWhileShort'
  <2>1. Short \subseteq Short' \cup {r} /\ Short \subseteq Request /\ Short' \subseteq Request
    BY <1>2 DEF IInv, Types, Short, Incr, Goto
  <2>2. Cardinality(Short) <= Cardinality(Short') + 1
    BY <2>1, AllButOne
  <2>3. Cardinality(Short) \in Nat /\ Cardinality(Short') \in Nat
    BY <2>1, SubsetSize
  <2>4. Value(counter) \in Int
    BY NoQuotaAssumption DEF IInv, Types, Value
  <2> QED BY <1>4, <2>2, <2>3, <2>4 DEF IInv, NegativeOnlyWhileShort
<1> QED BY <1>2, <1>3, <1>4, <1>5 DEF IInv

(* An applied DECR whose request either sees a non-negative value and is    *)
(* granted, or is counted as short by one.                                 *)
LEMMA DecrStep ==
    ASSUME IInv, NEW r \in Request, phase[r] = "decr", Decr(r),
           NEW p \in {"undo", "granted"}, Goto(r, p),
           blind' = blind \/ blind' = blind \cup {r},
           p = "granted" /\ blind' = blind => counter' >= 0
    PROVE  IInv'
<1>1. r \notin took /\ r \notin gave
  BY DEF IInv, OncePerRequest
<1>2. Types'
  BY DecrConserves, <1>1 DEF IInv, Types, Decr, Goto, Phase, Reserving, Holding
<1>3. OncePerRequest'
  BY <1>1 DEF IInv, Types, OncePerRequest, Decr, Goto
<1>4. Conservation' /\ counter' \in Int /\ Value(counter)' = Value(counter) - 1
  BY DecrConserves, <1>1 DEF IInv
<1>5. Short \subseteq Request /\ Short' \subseteq Request /\ r \notin Short
  BY <1>1, <1>2 DEF IInv, Types, Short
<1>6. Cardinality(Short) \in Nat /\ Cardinality(Short') \in Nat
  BY <1>5, SubsetSize
<1>7. Value(counter) \in Int
  BY NoQuotaAssumption DEF IInv, Types, Value
<1>8. NegativeOnlyWhileShort'
  <2>1. CASE p = "granted" /\ blind' = blind
    <3>1. Value(counter)' >= 0
      BY <2>1, <1>4, NoQuotaAssumption DEF Value
    <3> QED BY <3>1, <1>4, <1>6, <1>7 DEF NegativeOnlyWhileShort
  <2>2. CASE ~(p = "granted" /\ blind' = blind)
    <3>1. r \in Short'
      BY <2>2, <1>1 DEF IInv, Types, Short, Decr, Goto
    <3>2. Short \cup {r} \subseteq Short'
      BY <3>1, <1>1 DEF IInv, Types, Short, Decr, Goto
    <3>3. Cardinality(Short \cup {r}) <= Cardinality(Short')
      BY <3>2, <1>5, Monotone
    <3>4. Cardinality(Short \cup {r}) = Cardinality(Short) + 1
      BY <1>5, AddOne
    <3> QED BY <3>3, <3>4, <1>4, <1>6, <1>7 DEF IInv, NegativeOnlyWhileShort
  <2> QED BY <2>1, <2>2
<1> QED BY <1>2, <1>3, <1>4, <1>8 DEF IInv

----------------------------------------------------------------------------
(* The invariant holds initially ... *)
LEMMA InitInv == Init => IInv
<1> SUFFICES ASSUME Init PROVE IInv
  OBVIOUS
<1> USE NoQuotaAssumption, AllowanceAssumption
<1>1. Types
  BY DEF Init, Types, Phase
<1>2. OncePerRequest
  BY DEF Init, OncePerRequest
<1>3. Value(counter) = Value(published) /\ Value(counter) \in Int /\ Value(counter) >= 0
  BY DEF Init, Value
<1>4. Short = {}
  BY DEF Init, Short
<1> QED BY <1>1, <1>2, <1>3, <1>4, FS_EmptySet
        DEF IInv, Init, Conservation, NegativeOnlyWhileShort

(* ... and every step of reserve_quota, of the caller, of release_quota,   *)
(* every crash and every publication keeps it.                             *)
LEMMA NextInv == IInv /\ [Next]_vars => IInv'
<1> SUFFICES ASSUME IInv, [Next]_vars PROVE IInv'
  OBVIOUS
<1> USE DEF Phase, Reserving, Holding, Final
<1>1. ASSUME NEW r \in Request, ReserveGet(r) \/ ReserveGetFails(r)
      PROVE  IInv'
  BY <1>1, PhaseStep DEF IInv, Types, ReserveGet, ReserveGetFails, Goto
<1>2. ASSUME NEW r \in Request, ReserveDecr(r) PROVE IInv'
  <2>1. counter' \in Int
    BY <1>2, DecrConserves DEF IInv, OncePerRequest, ReserveDecr
  <2>2. CASE counter' < 0
    BY <2>2, <1>2, DecrStep DEF ReserveDecr
  <2>3. CASE counter' >= 0
    BY <2>1, <2>3, <1>2, DecrStep DEF ReserveDecr
  <2> QED BY <2>1, <2>2, <2>3
<1>3. ASSUME NEW r \in Request, ReserveDecrFails(r) PROVE IInv'
  <2>1. CASE Decr(r) /\ blind' = blind \cup {r}
    <3>1. r \notin blind
      BY <1>3 DEF IInv, OncePerRequest, ReserveDecrFails
    <3>2. blind' # blind
      BY <2>1, <3>1
    <3> QED BY <2>1, <3>2, <1>3, DecrStep DEF ReserveDecrFails
  <2>2. CASE UNCHANGED <<counter, ledger>>
    BY <2>2, <1>3, PhaseStep DEF IInv, Types, ReserveDecrFails, Goto
  <2> QED BY <1>3, <2>1, <2>2 DEF ReserveDecrFails
<1>4. ASSUME NEW r \in Request, UndoIncr(r) \/ UndoIncrFails(r) PROVE IInv'
  <2>1. CASE Incr(r)
    BY <2>1, <1>4, IncrStep DEF UndoIncr, UndoIncrFails
  <2>2. CASE UNCHANGED <<counter, ledger>>
    BY <2>2, <1>4, PhaseStep DEF IInv, Types, UndoIncr, UndoIncrFails, Goto
  <2> QED BY <1>4, <2>1, <2>2 DEF UndoIncr, UndoIncrFails
<1>5. ASSUME NEW r \in Request, Consume(r) \/ ReleaseGet(r) \/ ReleaseGetFails(r)
      PROVE  IInv'
  BY <1>5, PhaseStep DEF IInv, Types, Consume, ReleaseGet, ReleaseGetFails, Goto
<1>6. ASSUME NEW r \in Request, ReleaseIncr(r) \/ ReleaseIncrFails(r) PROVE IInv'
  <2>1. CASE Incr(r)
    BY <2>1, <1>6, IncrStep DEF ReleaseIncr, ReleaseIncrFails
  <2>2. CASE UNCHANGED <<counter, ledger>>
    BY <2>2, <1>6, PhaseStep DEF IInv, Types, ReleaseIncr, ReleaseIncrFails, Goto
  <2> QED BY <1>6, <2>1, <2>2 DEF ReleaseIncr, ReleaseIncrFails
<1>7. ASSUME NEW S \in SUBSET Request, Crash(S) PROVE IInv'
  BY <1>7, PhaseStep DEF IInv, Types, Crash
<1>8. ASSUME NEW n \in Allowance \cup {NoQuota}, Publish(n) PROVE IInv'
  <2> USE NoQuotaAssumption, AllowanceAssumption
  <2>1. Types'
    BY <1>8 DEF IInv, Types, Publish
  <2>2. OncePerRequest'
    BY <1>8 DEF IInv, OncePerRequest, Publish
  <2>3. /\ Value(counter)' = Value(published)'
        /\ Value(counter)' \in Int /\ Value(counter)' >= 0
    BY <1>8 DEF Publish, Value
  <2>4. Short' = {} /\ took' = {} /\ gave' = {}
    BY <1>8 DEF Publish, Short
  <2> QED BY <2>1, <2>2, <2>3, <2>4, FS_EmptySet
          DEF IInv, Conservation, NegativeOnlyWhileShort
<1>9. CASE UNCHANGED vars
  BY <1>9, PhaseStep DEF vars, ledger, IInv, Types
<1> QED BY <1>1, <1>2, <1>3, <1>4, <1>5, <1>6, <1>7, <1>8, <1>9
        DEF Next, Reserve, ReserveFails, Release, ReleaseFails

(* The invariant implies the bound on units in use: |took| is bounded by   *)
(* the accounting identity, and every member of took is served, refunded   *)
(* or short.                                                               *)
LEMMA InvNoOverrun == IInv => NoOverrun
<1> SUFFICES ASSUME IInv PROVE NoOverrun
  OBVIOUS
<1> DEFINE Back == took \cap gave
           Seen == Short \ blind
<1>1. /\ took \in SUBSET Request /\ gave \in SUBSET Request /\ blind \in SUBSET Request
      /\ Served \in SUBSET Request /\ Short \in SUBSET Request
      /\ Back \in SUBSET Request /\ Seen \in SUBSET Request
      /\ gave \ took \in SUBSET Request
  BY DEF IInv, Types, Served, Short
<1>2. Cardinality(took) \in Nat /\ Cardinality(gave) \in Nat
      /\ Cardinality(blind) \in Nat /\ Cardinality(Served) \in Nat
      /\ Cardinality(Short) \in Nat /\ Cardinality(Back) \in Nat
      /\ Cardinality(Seen) \in Nat /\ Cardinality(gave \ took) \in Nat
  BY <1>1, SubsetSize
<1>3. Cardinality(Served \cup Back \cup Seen)
         = Cardinality(Served) + Cardinality(Back) + Cardinality(Seen)
  <2>1. Served \cap Back = {} /\ (Served \cup Back) \cap Seen = {}
    BY DEF Served, Short, Holding
  <2>2. Cardinality(Served \cup Back)
           = Cardinality(Served) + Cardinality(Back) - Cardinality({})
    BY <2>1, <1>1, SubsetSize, FS_Union
  <2>3. Served \cup Back \in SUBSET Request
    BY <1>1
  <2>4. Cardinality((Served \cup Back) \cup Seen)
           = Cardinality(Served \cup Back) + Cardinality(Seen) - Cardinality({})
    BY <2>1, <2>3, <1>1, SubsetSize, FS_Union
  <2> QED BY <2>2, <2>4, <1>2, FS_EmptySet
<1>4. Cardinality(Served \cup Back \cup Seen) <= Cardinality(took)
  <2>1. Served \cup Back \cup Seen \subseteq took
    BY DEF Served, Short
  <2> QED BY <2>1, <1>1, Monotone
<1>5. Cardinality(Short) <= Cardinality(Seen) + Cardinality(blind)
  <2>1. Cardinality(Seen) = Cardinality(Short) - Cardinality(Short \cap blind)
    BY <1>1, SubsetSize, FS_Difference
  <2>2. Cardinality(Short \cap blind) <= Cardinality(blind)
    BY <1>1, Monotone
  <2>3. Short \cap blind \in SUBSET Request
    BY <1>1
  <2> QED BY <2>1, <2>2, <2>3, <1>2, SubsetSize
<1>6. Cardinality(gave \ took) = Cardinality(gave) - Cardinality(Back)
  <2>1. gave \cap took = Back
    OBVIOUS
  <2> QED BY <2>1, <1>1, SubsetSize, FS_Difference
<1>7. Value(counter) \in Int /\ Value(published) \in Int
  BY NoQuotaAssumption, AllowanceAssumption DEF IInv, Types, Value
<1> QED BY <1>2, <1>3, <1>4, <1>5, <1>6, <1>7
        DEF IInv, Conservation, NegativeOnlyWhileShort, NoOverrun

(* With every request at rest, the identity leaves exactly the billed ones. *)
LEMMA InvSettled ==
    ASSUME IInv
    PROVE  Settled
<1> DEFINE Spent == {r \in Request : phase[r] = "spent"}
<1> SUFFICES
      ASSUME \A r \in Request : phase[r] \in {"idle", "denied", "spent", "released"},
             \A r \in Request : phase[r] \in {"denied", "released"}
                                    => (r \in took <=> r \in gave),
             \A r \in Request : phase[r] = "spent" => r \in took \ gave
      PROVE  Value(counter) = Value(published) - Cardinality(Spent)
  BY DEF Settled
<1>1. took \in SUBSET Request /\ gave \in SUBSET Request
  BY DEF IInv, Types
<1>2. \A r \in Request : phase[r] = "idle" => r \notin took /\ r \notin gave
  BY DEF IInv, OncePerRequest
<1>3. took \cap gave = gave /\ took \ gave = Spent
  BY <1>1, <1>2
<1>4. Cardinality(Spent) = Cardinality(took) - Cardinality(gave)
  BY <1>1, <1>3, SubsetSize, FS_Difference
<1>5. Cardinality(took) \in Nat /\ Cardinality(gave) \in Nat
  BY <1>1, SubsetSize
<1>6. Value(counter) \in Int /\ Value(published) \in Int
  BY NoQuotaAssumption, AllowanceAssumption DEF IInv, Types, Value
<1> QED BY <1>4, <1>5, <1>6 DEF IInv, Conservation

----------------------------------------------------------------------------
(* The key of an unmetered organization. Every write comes from a request  *)
(* in Writing, and once the key is absent a GET sends nobody there.        *)

LEMMA UnmeteredStep == Types /\ Unmetered /\ [Next]_vars => Unmetered'
<1> SUFFICES ASSUME Types, Unmetered, [Next]_vars PROVE Unmetered'
  OBVIOUS
<1> USE DEF Unmetered, Writing, Reserving
<1>1. ASSUME NEW r \in Request, phase[r] \in Writing, Decr(r) \/ Incr(r),
             NEW p \in Phase, Goto(r, p)
      PROVE  Unmetered'
  <2> SUFFICES ASSUME published = NoQuota
               PROVE  caught' \cap (took' \cup gave') # {}
    BY <1>1 DEF Decr, Incr
  <2>1. CASE caught \cap (took \cup gave) # {}
    BY <1>1, <2>1 DEF Decr, Incr
  <2>2. CASE r \in caught
    BY <1>1, <2>2 DEF Decr, Incr
  <2> QED BY <1>1, <2>1, <2>2
<1>2. ASSUME UNCHANGED <<counter, ledger>>,
             counter = NoQuota =>
                \A r \in Request : phase'[r] \in Writing => phase[r] \in Writing
      PROVE  Unmetered'
  BY <1>2 DEF ledger
<1> USE DEF Phase, Holding, Final
<1>3. ASSUME NEW r \in Request, ReserveGet(r) \/ ReserveGetFails(r) PROVE Unmetered'
  BY <1>3, <1>2 DEF Types, ReserveGet, ReserveGetFails, Goto
<1>4. ASSUME NEW r \in Request, ReserveDecr(r) \/ ReserveDecrFails(r) PROVE Unmetered'
  <2>1. CASE Decr(r)
    BY <1>4, <2>1, <1>1 DEF ReserveDecr, ReserveDecrFails
  <2>2. CASE UNCHANGED <<counter, ledger>>
    BY <1>4, <2>2, <1>2 DEF Types, ReserveDecr, ReserveDecrFails, Goto
  <2> QED BY <1>4, <2>1, <2>2 DEF ReserveDecr, ReserveDecrFails
<1>5. ASSUME NEW r \in Request, UndoIncr(r) \/ UndoIncrFails(r) PROVE Unmetered'
  <2>1. CASE Incr(r)
    BY <1>5, <2>1, <1>1 DEF UndoIncr, UndoIncrFails
  <2>2. CASE UNCHANGED <<counter, ledger>>
    BY <1>5, <2>2, <1>2 DEF Types, UndoIncr, UndoIncrFails, Goto
  <2> QED BY <1>5, <2>1, <2>2 DEF UndoIncr, UndoIncrFails
<1>6. ASSUME NEW r \in Request, Consume(r) \/ ReleaseGet(r) \/ ReleaseGetFails(r)
      PROVE  Unmetered'
  BY <1>6, <1>2 DEF Types, Consume, ReleaseGet, ReleaseGetFails, Goto
<1>7. ASSUME NEW r \in Request, ReleaseIncr(r) \/ ReleaseIncrFails(r) PROVE Unmetered'
  <2>1. CASE Incr(r)
    BY <1>7, <2>1, <1>1 DEF ReleaseIncr, ReleaseIncrFails
  <2>2. CASE UNCHANGED <<counter, ledger>>
    BY <1>7, <2>2, <1>2 DEF Types, ReleaseIncr, ReleaseIncrFails, Goto
  <2> QED BY <1>7, <2>1, <2>2 DEF ReleaseIncr, ReleaseIncrFails
<1>8. ASSUME NEW S \in SUBSET Request, Crash(S) PROVE Unmetered'
  BY <1>8, <1>2 DEF Types, Crash
<1>9. ASSUME NEW n \in Allowance \cup {NoQuota}, Publish(n) PROVE Unmetered'
  BY <1>9 DEF Publish
<1>10. CASE UNCHANGED vars
  BY <1>10, <1>2 DEF vars, ledger
<1> QED BY <1>3, <1>4, <1>5, <1>6, <1>7, <1>8, <1>9, <1>10
        DEF Next, Reserve, ReserveFails, Release, ReleaseFails

----------------------------------------------------------------------------
(* Every behaviour of the quota counter satisfies the invariant. *)
THEOREM Invariance == Spec => []IInv
<1>1. Init => IInv
  BY InitInv
<1>2. IInv /\ [Next]_vars => IInv'
  BY NextInv
<1> QED BY <1>1, <1>2, PTL DEF Spec

(* Types, and at most one DECR and one INCR for each call, for every set of *)
(* requests and allowances.                                                *)
THEOREM TypeCorrect == Spec => []TypeOK
<1>1. IInv => TypeOK
  BY DEF IInv, TypeOK
<1> QED BY <1>1, Invariance, PTL

(* reserve_quota's counter is negative only by the reservations that were   *)
(* denied and have not compensated, or whose outcome the code never saw.   *)
THEOREM NegativeBound == Spec => []NegativeOnlyWhileShort
<1>1. IInv => NegativeOnlyWhileShort
  BY DEF IInv
<1> QED BY <1>1, Invariance, PTL

(* The units in use never exceed the published allowance by more than the  *)
(* blind grants and the refunds of units never taken.                      *)
THEOREM OverrunBound == Spec => []NoOverrun
<1>1. IInv => NoOverrun
  BY InvNoOverrun
<1> QED BY <1>1, Invariance, PTL

(* No sequence of reservations, denials and refunds creates or destroys    *)
(* units: at rest the counter shows the allowance less what was billed.    *)
THEOREM SettledAlways == Spec => []Settled
<1>1. IInv => Settled
  BY InvSettled
<1> QED BY <1>1, Invariance, PTL

(* An organization whose key billing removed stays unmetered, but for a    *)
(* write of a request that had read the key before the removal.            *)
THEOREM UnmeteredStays == Spec => []StaysUnmetered
<1>1. Init => Unmetered
  BY DEF Init, Unmetered, Writing, Reserving
<1>2. Unmetered => StaysUnmetered
  BY DEF Unmetered, StaysUnmetered
<1>3. TypeOK => Types
  BY DEF TypeOK
<1> QED BY <1>1, <1>2, <1>3, UnmeteredStep, TypeCorrect, PTL DEF Spec
=============================================================================
