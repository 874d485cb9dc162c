-------------------------- MODULE IdempotencyProofs --------------------------
(* Proofs about Idempotency for every finite set of attempts, every way of *)
(* spreading bodies over them, all expiries with MaxRun < ClaimTTL <=      *)
(* DoneTTL, and any number of faults: its types, that a replay is faithful *)
(* to an attempt that succeeded, that without Redis errors the attempt     *)
(* that runs owns the claim, and the bound on how often the work is done.  *)
EXTENDS Idempotency, FiniteSetTheorems, TLAPS

(* Only a record has an expiry. *)
Expiry == record = NoRecord <=> ttl = 0

(* What a record says is true: a result is by an attempt that succeeded    *)
(* and responded, a claim by one that has left idempotency_begin.          *)
Stored ==
    record # NoRecord =>
        /\ record \in {Claim(record.by), Result(record.by)}
        /\ step[record.by] \notin {"set", "get"}
        /\ record.state = "done" => step[record.by] = "done" /\ record.by \in ran

(* An attempt is in ran from the end of its call on, and only then. *)
RanSteps ==
    /\ \A r \in Request : step[r] \in {"set", "get", "run", "bad"} => r \notin ran
    /\ \A r \in Request : step[r] = "ok" => r \in ran
    /\ \A r \in lapsed : step[r] = "done"

(* The claim of an attempt that still runs has at least the rest of its    *)
(* ClaimTTL to live.                                                       *)
ClaimAlive ==
    \A r \in Request :
        record = Claim(r) /\ step[r] \in Running => age[r] + ttl >= ClaimTTL

IInv == TypeOK /\ Expiry /\ Stored /\ RanSteps /\ ClaimAlive /\ ReplayFaithful

(* Attempts whose work was done and neither expired nor died with them, or *)
(* may still be counted.                                                   *)
Exposed ==
    {r \in ran : step[r] # "dead" /\ r \notin lapsed}
        \cup {r \in Request : step[r] \in {"run", "bad"}}

(* The attempt that the record keeps others from repeating, if any. *)
Covered ==
    {r \in Request : /\ record # NoRecord
                     /\ record.by = r
                     /\ record.state = "done" \/ step[r] \in Running}

(* Every exposed attempt but the covered one was let through by a fault. *)
OnePerFault == Cardinality(Exposed \ Covered) <= faults

----------------------------------------------------------------------------
(* Records and types *)

(* The expiries are positive natural numbers. *)
LEMMA Times ==
    /\ ClaimTTL \in Nat /\ DoneTTL \in Nat /\ MaxRun \in Nat /\ MaxFaults \in Nat
    /\ 0 < ClaimTTL /\ MaxRun < ClaimTTL /\ ClaimTTL <= DoneTTL
BY TimeAssumption, FaultAssumption

(* Claims and results are records, tell their attempt, and are told apart. *)
LEMMA Records ==
    ASSUME TypeOK, NEW r \in Request
    PROVE  /\ Claim(r) \in Record /\ Claim(r) # NoRecord
           /\ Claim(r).by = r /\ Claim(r).body = body[r] /\ Claim(r).state = "in_progress"
           /\ Result(r) \in Record /\ Result(r) # NoRecord
           /\ Result(r).by = r /\ Result(r).body = body[r] /\ Result(r).state = "done"
BY NoRecordAssumption DEF TypeOK, Claim, Result, Record

(* What is in the key is nothing or a record with an attempt and a state. *)
LEMMA StoredTyped ==
    ASSUME TypeOK, record # NoRecord
    PROVE  /\ record \in Record /\ record.by \in Request
           /\ record.state \in {"in_progress", "done"} /\ record.body \in Body
BY DEF TypeOK, Record

(* idempotency_begin's SET keeps the invariant, applied or not. *)
LEMMA SetKeeps ==
    ASSUME IInv, NEW r \in Request, BeginSet(r) \/ BeginSetFails(r)
    PROVE  IInv'
<1> USE Times
<1>0. TypeOK /\ step[r] = "set" /\ faults' \in 0..MaxFaults
  BY DEF IInv, BeginSet, BeginSetFails, Fault, TypeOK
<1>1. UNCHANGED <<body, age, served, ran, lapsed>>
  BY DEF BeginSet, BeginSetFails, Goto
<1>2. /\ step' \in [Request -> Live \cup Final]
      /\ step'[r] \in {"run", "get"}
      /\ \A q \in Request : q # r => step'[q] = step[q]
  BY <1>0 DEF TypeOK, BeginSet, BeginSetFails, Goto, Live, Running, Final
<1>3. \/ record = NoRecord /\ record' = Claim(r) /\ ttl' = ClaimTTL /\ step'[r] = "run"
      \/ UNCHANGED <<record, ttl>>
  BY <1>0 DEF TypeOK, BeginSet, BeginSetFails, Store, Goto
<1>4. \A q \in Request : Claim(q)' = Claim(q) /\ Result(q)' = Result(q)
  BY <1>1 DEF Claim, Result
<1>5. TypeOK'
  BY <1>0, <1>1, <1>2, <1>3, Records DEF TypeOK
<1>6. Expiry'
  BY <1>0, <1>3, Records DEF IInv, Expiry
<1>7. RanSteps'
  BY <1>0, <1>1, <1>2 DEF IInv, RanSteps, TypeOK
<1>8. ReplayFaithful'
  BY <1>0, <1>1, <1>2 DEF IInv, ReplayFaithful, TypeOK
<1>9. CASE record' = Claim(r) /\ ttl' = ClaimTTL /\ step'[r] = "run"
  <2>1. Stored'
    BY <1>0, <1>4, <1>9, Records DEF Stored
  <2>2. ClaimAlive'
    <3> SUFFICES ASSUME NEW q \in Request, record' = Claim(q)'
                 PROVE  age'[q] + ttl' >= ClaimTTL
      BY DEF ClaimAlive
    <3> QED BY <1>0, <1>1, <1>9 DEF TypeOK
  <2> QED BY <1>5, <1>6, <1>7, <1>8, <2>1, <2>2 DEF IInv
<1>10. CASE UNCHANGED <<record, ttl>>
  <2>1. record # NoRecord => record.by \in Request /\ record.by # r
    BY <1>0, StoredTyped DEF IInv, Stored
  <2>2. Stored'
    BY <1>0, <1>1, <1>2, <1>4, <1>10, <2>1 DEF IInv, Stored
  <2>3. record # Claim(r)
    BY <1>0, <2>1, Records
  <2>4. ClaimAlive'
    <3> SUFFICES ASSUME NEW q \in Request, record' = Claim(q)', step'[q] \in Running
                 PROVE  age'[q] + ttl' >= ClaimTTL
      BY DEF ClaimAlive
    <3>1. record = Claim(q) /\ q # r /\ step'[q] = step[q]
      BY <1>2, <1>4, <1>10, <2>3
    <3> QED BY <1>1, <1>10, <3>1 DEF IInv, ClaimAlive
  <2> QED BY <1>5, <1>6, <1>7, <1>8, <2>2, <2>4 DEF IInv
<1> QED BY <1>3, <1>9, <1>10

(* idempotency_begin's GET keeps the invariant; a replay is of a result    *)
(* with the attempt's own body.                                            *)
LEMMA GetKeeps ==
    ASSUME IInv, NEW r \in Request, BeginGet(r) \/ BeginGetFails(r)
    PROVE  IInv'
<1> USE Times
<1>0. TypeOK /\ step[r] = "get" /\ faults' \in 0..MaxFaults
  BY DEF IInv, BeginGet, BeginGetFails, Fault, TypeOK
<1>1. UNCHANGED <<body, record, ttl, age, ran, lapsed>>
  BY DEF BeginGet, BeginGetFails, Goto
<1>2. /\ step' \in [Request -> Live \cup Final]
      /\ step'[r] \in {"run", "in_progress", "mismatch", "replay"}
      /\ \A q \in Request : q # r => step'[q] = step[q]
  BY <1>0 DEF TypeOK, BeginGet, BeginGetFails, Answer, Goto, Live, Running, Final
<1>3. /\ \A q \in Request : q # r => served'[q] = served[q]
      /\ served' \in [Request -> SUBSET Request]
      /\ \A q \in served'[r] : q \in ran /\ body[q] = body[r] /\ step'[r] = "replay"
  <2>1. CASE BeginGetFails(r)
    <3>1. served' = served
      BY <2>1 DEF BeginGetFails
    <3>2. served[r] = {}
      BY <1>0 DEF IInv, ReplayFaithful, TypeOK
    <3> QED BY <1>0, <3>1, <3>2 DEF TypeOK
  <2>2. CASE BeginGet(r)
    <3>1. served' = [served EXCEPT ![r] = IF step'[r] = "replay" THEN {record.by} ELSE {}]
      BY <2>2 DEF BeginGet
    <3>2. ASSUME step'[r] = "replay"
          PROVE  record.by \in ran /\ record.by \in Request /\ body[record.by] = body[r]
      <4>1. record # NoRecord /\ record.body = body[r] /\ record.state = "done"
        BY <1>0, <2>2, <3>2 DEF BeginGet, Answer, Goto, TypeOK
      <4>2. record.by \in Request
        BY <1>0, <4>1, StoredTyped
      <4>3. record = Result(record.by) /\ record.by \in ran
        BY <1>0, <4>1, <4>2, Records DEF IInv, Stored
      <4> QED BY <1>0, <4>1, <4>2, <4>3, Records
    <3> QED BY <1>0, <3>1, <3>2 DEF TypeOK
  <2> QED BY <2>1, <2>2
<1>4. \A q \in Request : Claim(q)' = Claim(q) /\ Result(q)' = Result(q)
  BY <1>1 DEF Claim, Result
<1>5. record # NoRecord => record.by \in Request /\ record.by # r
  BY <1>0, StoredTyped DEF IInv, Stored
<1>6. TypeOK'
  BY <1>0, <1>1, <1>2, <1>3 DEF TypeOK
<1>7. Expiry' /\ Stored'
  BY <1>1, <1>2, <1>4, <1>5 DEF IInv, Expiry, Stored
<1>8. RanSteps'
  BY <1>0, <1>1, <1>2 DEF IInv, RanSteps, TypeOK
<1>9. ReplayFaithful'
  BY <1>0, <1>1, <1>2, <1>3 DEF IInv, ReplayFaithful, TypeOK
<1>10. ClaimAlive'
  <2> SUFFICES ASSUME NEW q \in Request, record' = Claim(q)', step'[q] \in Running
               PROVE  age'[q] + ttl' >= ClaimTTL
    BY DEF ClaimAlive
  <2>1. record # Claim(r)
    BY <1>0, <1>5, Records
  <2>2. record = Claim(q) /\ q # r /\ step'[q] = step[q]
    BY <1>1, <1>2, <1>4, <2>1
  <2> QED BY <1>1, <2>2 DEF IInv, ClaimAlive
<1> QED BY <1>6, <1>7, <1>8, <1>9, <1>10 DEF IInv

(* The call itself keeps the invariant. *)
LEMMA ExecuteKeeps ==
    ASSUME IInv, NEW r \in Request, Execute(r)
    PROVE  IInv'
<1> USE Times
<1>0. TypeOK /\ step[r] = "run"
  BY DEF IInv, Execute
<1>1. UNCHANGED <<body, record, ttl, age, served, lapsed, faults>>
  BY DEF Execute, Goto
<1>2. /\ step' \in [Request -> Live \cup Final]
      /\ \A q \in Request : q # r => step'[q] = step[q]
      /\ \/ step'[r] = "ok" /\ ran' = ran \cup {r}
         \/ step'[r] = "bad" /\ ran' = ran
  BY <1>0 DEF TypeOK, Execute, Goto, Live, Running
<1>3. \A q \in Request : Claim(q)' = Claim(q) /\ Result(q)' = Result(q)
  BY <1>1 DEF Claim, Result
<1>4. TypeOK'
  BY <1>0, <1>1, <1>2 DEF TypeOK
<1>5. Expiry'
  BY <1>1 DEF IInv, Expiry
<1>6. Stored'
  <2> SUFFICES ASSUME record # NoRecord PROVE Stored'
    BY <1>1 DEF Stored
  <2>1. record.by \in Request
    BY <1>0, StoredTyped
  <2>2. record.state = "done" => record.by # r
    BY <1>0 DEF IInv, Stored
  <2> QED BY <1>1, <1>2, <1>3, <2>1, <2>2 DEF IInv, Stored
<1>7. RanSteps'
  BY <1>0, <1>1, <1>2 DEF IInv, RanSteps, TypeOK
<1>8. ReplayFaithful'
  BY <1>0, <1>1, <1>2 DEF IInv, ReplayFaithful, TypeOK
<1>9. ClaimAlive'
  <2> SUFFICES ASSUME NEW q \in Request, record' = Claim(q)', step'[q] \in Running
               PROVE  age'[q] + ttl' >= ClaimTTL
    BY DEF ClaimAlive
  <2>1. record = Claim(q) /\ step[q] \in Running
    BY <1>0, <1>1, <1>2, <1>3 DEF Running
  <2> QED BY <1>1, <2>1 DEF IInv, ClaimAlive
<1> QED BY <1>4, <1>5, <1>6, <1>7, <1>8, <1>9 DEF IInv

(* idempotency_finish keeps the invariant, whoever's record it writes      *)
(* over, and whether or not the write was applied.                         *)
LEMMA FinishKeeps ==
    ASSUME IInv, NEW r \in Request, Finish(r) \/ FinishFails(r)
    PROVE  IInv'
<1> USE Times
<1>0. TypeOK /\ step[r] \in {"ok", "bad"} /\ faults' \in 0..MaxFaults
  BY DEF IInv, Finish, FinishFails, Fault, TypeOK
<1>1. UNCHANGED <<body, age, ran, lapsed>>
  BY DEF Finish, FinishFails, Respond, Goto
<1>2. /\ step' \in [Request -> Live \cup Final]
      /\ step'[r] = IF step[r] = "ok" THEN "done" ELSE "failed"
      /\ \A q \in Request : q # r => step'[q] = step[q]
  BY <1>0 DEF TypeOK, Finish, FinishFails, Respond, Goto, Final
<1>3. /\ served' \in [Request -> SUBSET Request]
      /\ served'[r] = IF step[r] = "ok" THEN {r} ELSE {}
      /\ \A q \in Request : q # r => served'[q] = served[q]
  <2>1. served' = [served EXCEPT ![r] = IF step[r] = "ok" THEN {r} ELSE {}]
    BY DEF Finish, FinishFails, Respond
  <2> QED BY <1>0, <2>1 DEF TypeOK
<1>4. \/ step[r] = "ok" /\ record' = Result(r) /\ ttl' = DoneTTL
      \/ step[r] = "bad" /\ record' = NoRecord /\ ttl' = 0
      \/ UNCHANGED <<record, ttl>>
  BY <1>0 DEF Finish, FinishFails, FinishWrite, Store
<1>5. \A q \in Request : Claim(q)' = Claim(q) /\ Result(q)' = Result(q)
  BY <1>1 DEF Claim, Result
<1>6. TypeOK'
  BY <1>0, <1>1, <1>2, <1>3, <1>4, Records DEF TypeOK
<1>7. Expiry'
  BY <1>0, <1>4, Records DEF IInv, Expiry
<1>8. step[r] = "ok" => r \in ran
  BY DEF IInv, RanSteps
<1>9. RanSteps'
  BY <1>0, <1>1, <1>2 DEF IInv, RanSteps, TypeOK
<1>10. ReplayFaithful'
  BY <1>0, <1>1, <1>2, <1>3, <1>8 DEF IInv, ReplayFaithful, TypeOK
<1>11. Stored'
  <2>1. CASE step[r] = "ok" /\ record' = Result(r)
    BY <1>0, <1>1, <1>2, <1>5, <1>8, <2>1, Records DEF Stored
  <2>2. CASE record' = NoRecord
    BY <2>2 DEF Stored
  <2>3. CASE record' = record /\ record # NoRecord
    <3>1. record.by \in Request
      BY <1>0, <2>3, StoredTyped
    <3>2. record.state = "done" => record.by # r
      BY <1>0, <2>3 DEF IInv, Stored
    <3> QED BY <1>1, <1>2, <1>5, <2>3, <3>1, <3>2 DEF IInv, Stored
  <2> QED BY <1>4, <2>1, <2>2, <2>3
<1>12. ClaimAlive'
  <2> SUFFICES ASSUME NEW q \in Request, record' = Claim(q)', step'[q] \in Running
               PROVE  age'[q] + ttl' >= ClaimTTL
    BY DEF ClaimAlive
  <2>1. record' = Claim(q) /\ Claim(q) # NoRecord /\ Claim(q) # Result(r)
    BY <1>0, <1>5, Records
  <2>2. UNCHANGED <<record, ttl>> /\ record = Claim(q)
    BY <1>4, <2>1
  <2>3. q # r /\ step[q] \in Running
    BY <1>0, <1>2 DEF Running
  <2> QED BY <1>1, <2>2, <2>3 DEF IInv, ClaimAlive
<1> QED BY <1>6, <1>7, <1>9, <1>10, <1>11, <1>12 DEF IInv

(* The death of some attempts keeps the invariant. *)
LEMMA CrashKeeps ==
    ASSUME IInv, NEW S \in SUBSET Request, Crash(S)
    PROVE  IInv'
<1>0. TypeOK
  BY DEF IInv
<1>1. UNCHANGED <<body, record, ttl, age, served, ran, lapsed, faults>>
  BY DEF Crash
<1>2. /\ step' \in [Request -> Live \cup Final]
      /\ \A q \in Request : step'[q] = step[q] \/ (step[q] \in Live /\ step'[q] = "dead")
  BY <1>0 DEF TypeOK, Crash, Final
<1>3. \A q \in Request : Claim(q)' = Claim(q) /\ Result(q)' = Result(q)
  BY <1>1 DEF Claim, Result
<1>4. TypeOK' /\ Expiry'
  BY <1>0, <1>1, <1>2 DEF IInv, TypeOK, Expiry
<1>5. Stored'
  <2> SUFFICES ASSUME record # NoRecord PROVE Stored'
    BY <1>1 DEF Stored
  <2>1. record.by \in Request
    BY <1>0, StoredTyped
  <2> QED BY <1>1, <1>2, <1>3, <2>1 DEF IInv, Stored, Live, Running
<1>6. RanSteps'
  BY <1>0, <1>1, <1>2 DEF IInv, RanSteps, TypeOK, Live, Running
<1>7. ReplayFaithful'
  BY <1>0, <1>1, <1>2 DEF IInv, ReplayFaithful, TypeOK, Live, Running
<1>8. ClaimAlive'
  BY <1>1, <1>2, <1>3 DEF IInv, ClaimAlive, Running
<1> QED BY <1>4, <1>5, <1>6, <1>7, <1>8 DEF IInv

(* A claim does not expire under the attempt that made it: in the tick     *)
(* that ends a record, its attempt no longer runs.                         *)
LEMMA ClaimOutlivesRun ==
    ASSUME IInv, Tick, NEW r \in Request, record = Claim(r), step[r] \in Running
    PROVE  ttl > 1 /\ age'[r] + (ttl - 1) >= ClaimTTL
<1>1. age[r] + ttl >= ClaimTTL /\ age[r] \in 0..MaxRun /\ ttl \in Nat
  BY DEF IInv, ClaimAlive, TypeOK
<1>2. age[r] < MaxRun /\ age'[r] = age[r] + 1
  BY DEF Tick
<1> QED BY <1>1, <1>2, Times

(* A tick keeps the invariant. *)
LEMMA TickKeeps ==
    ASSUME IInv, Tick
    PROVE  IInv'
<1> USE Times
<1>0. TypeOK
  BY DEF IInv
<1>1. UNCHANGED <<body, step, served, ran, faults>>
  BY DEF Tick
<1>2. age' \in [Request -> 0..MaxRun]
  BY <1>0 DEF Tick, TypeOK
<1>3. \A q \in Request : Claim(q)' = Claim(q) /\ Result(q)' = Result(q)
  BY <1>1 DEF Claim, Result
<1>4. CASE ttl = 1
  <2>1. record # NoRecord /\ record' = NoRecord /\ ttl' = 0
    BY <1>4 DEF IInv, Expiry, Tick, Store
  <2>2. record.by \in Request /\ (record.state = "done" => step[record.by] = "done")
    BY <1>0, <2>1, StoredTyped DEF IInv, Stored
  <2>3. lapsed' = IF record.state = "done" THEN lapsed \cup {record.by} ELSE lapsed
    BY <1>4 DEF Tick
  <2>4. TypeOK'
    BY <1>0, <1>1, <1>2, <2>1, <2>2, <2>3 DEF TypeOK
  <2>5. Expiry' /\ Stored'
    BY <2>1 DEF Expiry, Stored
  <2>6. RanSteps'
    BY <1>1, <2>2, <2>3 DEF IInv, RanSteps
  <2>7. ReplayFaithful'
    BY <1>1 DEF IInv, ReplayFaithful
  <2>8. ClaimAlive'
    BY <1>0, <1>3, <2>1, Records DEF ClaimAlive
  <2> QED BY <2>4, <2>5, <2>6, <2>7, <2>8 DEF IInv
<1>5. CASE ttl # 1
  <2>1. /\ UNCHANGED <<record, lapsed>> /\ ttl' = (IF ttl > 0 THEN ttl - 1 ELSE ttl)
        /\ ttl \in 0..DoneTTL
    BY <1>0, <1>5 DEF Tick, TypeOK
  <2>2. TypeOK'
    BY <1>0, <1>1, <1>2, <2>1 DEF TypeOK
  <2>3. Expiry'
    BY <1>5, <2>1 DEF IInv, Expiry
  <2>4. Stored'
    <3> SUFFICES ASSUME record # NoRecord PROVE Stored'
      BY <2>1 DEF Stored
    <3>1. record.by \in Request
      BY <1>0, StoredTyped
    <3> QED BY <1>1, <1>3, <2>1, <3>1 DEF IInv, Stored
  <2>5. RanSteps' /\ ReplayFaithful'
    BY <1>1, <2>1 DEF IInv, RanSteps, ReplayFaithful
  <2>6. ClaimAlive'
    <3> SUFFICES ASSUME NEW q \in Request, record' = Claim(q)', step'[q] \in Running
                 PROVE  age'[q] + ttl' >= ClaimTTL
      BY DEF ClaimAlive
    <3>1. record = Claim(q) /\ step[q] \in Running
      BY <1>1, <1>3, <2>1
    <3>2. ttl > 1 /\ age'[q] + (ttl - 1) >= ClaimTTL
      BY <3>1, ClaimOutlivesRun
    <3> QED BY <2>1, <3>2
  <2> QED BY <2>2, <2>3, <2>4, <2>5, <2>6 DEF IInv
<1> QED BY <1>4, <1>5

(* A step that changes nothing keeps the invariant. *)
LEMMA StutterKeeps ==
    ASSUME IInv, UNCHANGED vars
    PROVE  IInv'
<1>1. \A q \in Request : Claim(q)' = Claim(q) /\ Result(q)' = Result(q)
  BY DEF Claim, Result, vars
<1>2. record # NoRecord => record.by \in Request
  BY StoredTyped DEF IInv
<1>3. Stored' /\ ClaimAlive'
  BY <1>1, <1>2 DEF IInv, Stored, ClaimAlive, vars
<1>4. TypeOK' /\ Expiry' /\ RanSteps' /\ ReplayFaithful'
  BY DEF IInv, TypeOK, Expiry, RanSteps, ReplayFaithful, vars
<1> QED BY <1>3, <1>4 DEF IInv

(* IInv holds initially and every step keeps it. *)
LEMMA Invariance == Spec => []IInv
<1>1. Init => IInv
  <2> SUFFICES ASSUME Init PROVE IInv
    OBVIOUS
  <2>1. TypeOK
    BY Times, BodyAssumption DEF Init, TypeOK, Live
  <2> QED BY <2>1, Records DEF Init, IInv, Expiry, Stored, RanSteps, ClaimAlive, ReplayFaithful
<1>2. IInv /\ [Next]_vars => IInv'
  BY SetKeeps, GetKeeps, ExecuteKeeps, FinishKeeps, CrashKeeps, TickKeeps, StutterKeeps
     DEF Next, Begin, BeginFails
<1> QED BY <1>1, <1>2, PTL DEF Spec

(* The key, its expiry and the attempts keep their types: in particular no *)
(* record is without an expiry and no attempt runs past MaxRun.            *)
THEOREM TypeCorrect == Spec => []TypeOK
<1>1. IInv => TypeOK
  BY DEF IInv
<1> QED BY <1>1, Invariance, PTL

(* Every answer that idempotency_begin replays is the result of an attempt *)
(* that succeeded with the same body.                                      *)
THEOREM FaithfulReplay == Spec => []ReplayFaithful
<1>1. IInv => ReplayFaithful
  BY DEF IInv
<1> QED BY <1>1, Invariance, PTL

----------------------------------------------------------------------------
(* Without Redis errors *)

(* SET NX and the expiries alone make the attempt that runs the owner of   *)
(* the claim, as long as no Redis command has failed.                      *)
THEOREM RunnerOwns == Spec => []RunnerOwnsClaim
<1>1. Init => RunnerOwnsClaim
  BY DEF Init, RunnerOwnsClaim, Running
<1>2. IInv /\ RunnerOwnsClaim /\ [Next]_vars => RunnerOwnsClaim'
  <2> SUFFICES ASSUME IInv, RunnerOwnsClaim, [Next]_vars, faults' = 0,
                      NEW q \in Request, step'[q] \in Running
               PROVE  record' = Claim(q)'
    BY DEF RunnerOwnsClaim
  <2>0. TypeOK /\ faults \in Nat
    BY DEF IInv, TypeOK
  <2>1. faults = 0 => \A p \in Request : step[p] \in Running => record = Claim(p)
    BY DEF RunnerOwnsClaim
  <2>2. ASSUME NEW r \in Request, BeginFails(r) \/ FinishFails(r)
        PROVE  FALSE
    BY <2>0, <2>2 DEF BeginFails, BeginSetFails, BeginGetFails, FinishFails, Fault
  <2>3. ASSUME NEW r \in Request, BeginSet(r)
        PROVE  record' = Claim(q)'
    <3>1. faults = 0 /\ body' = body /\ Claim(q)' = Claim(q)
      BY <2>3 DEF BeginSet, Goto, Claim
    <3>2. CASE q = r
      BY <2>0, <2>3, <3>1, <3>2 DEF BeginSet, Goto, Store, TypeOK, Running
    <3>3. CASE q # r
      <4>1. step[q] \in Running
        BY <2>0, <2>3, <3>3 DEF BeginSet, Goto, TypeOK
      <4>2. record = Claim(q) /\ record # NoRecord
        BY <2>0, <2>1, <3>1, <4>1, Records
      <4> QED BY <2>3, <3>1, <4>2 DEF BeginSet
    <3> QED BY <3>2, <3>3
  <2>4. ASSUME NEW r \in Request, BeginGet(r)
        PROVE  record' = Claim(q)'
    <3>1. faults = 0 /\ record' = record /\ Claim(q)' = Claim(q) /\ step[q] \in Running
      BY <2>0, <2>4 DEF BeginGet, Goto, Answer, Claim, TypeOK, Running
    <3> QED BY <2>1, <3>1
  <2>5. ASSUME NEW r \in Request, Execute(r)
        PROVE  record' = Claim(q)'
    <3>1. faults = 0 /\ record' = record /\ Claim(q)' = Claim(q) /\ step[q] \in Running
      BY <2>0, <2>5 DEF Execute, Goto, Claim, TypeOK, Running
    <3> QED BY <2>1, <3>1
  <2>6. ASSUME NEW r \in Request, Finish(r)
        PROVE  FALSE
    <3>1. faults = 0 /\ step[r] \in Running
      BY <2>6 DEF Finish, Running
    <3>2. step[q] \in Running /\ q # r
      BY <2>0, <2>6 DEF Finish, Respond, Goto, TypeOK, Running
    <3>3. Claim(q) = Claim(r)
      BY <2>1, <3>1, <3>2
    <3> QED BY <2>0, <3>2, <3>3, Records
  <2>7. ASSUME NEW S \in SUBSET Request, Crash(S)
        PROVE  record' = Claim(q)'
    <3>1. faults = 0 /\ record' = record /\ Claim(q)' = Claim(q) /\ step[q] \in Running
      BY <2>0, <2>7 DEF Crash, Claim, TypeOK, Running
    <3> QED BY <2>1, <3>1
  <2>8. CASE Tick
    <3>1. faults = 0 /\ Claim(q)' = Claim(q) /\ step[q] \in Running
      BY <2>8 DEF Tick, Claim
    <3>2. record = Claim(q)
      BY <2>1, <3>1
    <3>3. ttl # 1
      BY <2>0, <2>8, <3>1, <3>2, ClaimOutlivesRun DEF TypeOK
    <3> QED BY <2>8, <3>1, <3>2, <3>3 DEF Tick
  <2>9. CASE UNCHANGED vars
    BY <2>1, <2>9 DEF vars, Claim
  <2> QED BY <2>2, <2>3, <2>4, <2>5, <2>6, <2>7, <2>8, <2>9 DEF Next, Begin
<1> QED BY <1>1, <1>2, Invariance, PTL DEF Spec

(* Without Redis errors, a claim in the key is by an attempt that runs or  *)
(* that died.                                                              *)
ClaimHeld ==
    faults = 0 => \A r \in Request : record = Claim(r) => step[r] \in Running \cup {"dead"}

(* So a claim does not outlive an attempt that ended: whoever responded    *)
(* has replaced or removed it, as long as no Redis command has failed.     *)
THEOREM ClaimReleased == Spec => []ClaimHeld
<1>1. Init => ClaimHeld
  <2> SUFFICES ASSUME Init, NEW r \in Request PROVE record # Claim(r)
    BY DEF ClaimHeld
  <2> QED BY BodyAssumption, NoRecordAssumption DEF Init, Claim, Record
<1>2. IInv /\ ClaimHeld /\ [Next]_vars => ClaimHeld'
  <2> SUFFICES ASSUME IInv, ClaimHeld, [Next]_vars, faults' = 0,
                      NEW q \in Request, record' = Claim(q)'
               PROVE  step'[q] \in Running \cup {"dead"}
    BY DEF ClaimHeld
  <2>0. TypeOK /\ faults \in Nat
    BY DEF IInv, TypeOK
  <2>1. /\ Claim(q) # NoRecord /\ Claim(q).state = "in_progress"
        /\ \A r \in Request : /\ Claim(r) = Claim(q) => r = q
                              /\ Result(r).state = "done"
    BY <2>0, Records
  <2>2. faults = 0 /\ record = Claim(q) => step[q] \in Running \cup {"dead"}
    BY DEF ClaimHeld
  <2>3. ASSUME NEW r \in Request, BeginFails(r) \/ FinishFails(r)
        PROVE  FALSE
    BY <2>0, <2>3 DEF BeginFails, BeginSetFails, BeginGetFails, FinishFails, Fault
  <2>4. ASSUME NEW r \in Request, BeginSet(r)
        PROVE  step'[q] \in Running \cup {"dead"}
    <3>1. faults = 0 /\ Claim(q)' = Claim(q)
      BY <2>4 DEF BeginSet, Goto, Claim
    <3>2. CASE record = NoRecord
      BY <2>0, <2>1, <2>4, <3>1, <3>2 DEF BeginSet, Goto, Store, TypeOK, Running
    <3>3. CASE record # NoRecord
      <4>1. record = Claim(q) /\ step[q] # "set"
        BY <2>2, <2>4, <3>1, <3>3 DEF BeginSet, Running
      <4> QED BY <2>0, <2>2, <2>4, <3>1, <4>1 DEF BeginSet, Goto, TypeOK
    <3> QED BY <3>2, <3>3
  <2>5. ASSUME NEW r \in Request, BeginGet(r) \/ Execute(r)
        PROVE  step'[q] \in Running \cup {"dead"}
    <3>1. faults = 0 /\ Claim(q)' = Claim(q) /\ record' = record
      BY <2>5 DEF BeginGet, Execute, Goto, Claim
    <3>2. step[q] \in Running \cup {"dead"}
      BY <2>2, <3>1
    <3> QED BY <2>0, <2>5, <3>2 DEF BeginGet, Execute, Goto, TypeOK, Running
  <2>6. ASSUME NEW r \in Request, Finish(r)
        PROVE  FALSE
    <3>1. Claim(q)' = Claim(q) /\ record' \in {Result(r), NoRecord}
      BY <2>6 DEF Finish, FinishWrite, Store, Respond, Goto, Claim
    <3> QED BY <2>1, <3>1
  <2>7. ASSUME NEW S \in SUBSET Request, Crash(S)
        PROVE  step'[q] \in Running \cup {"dead"}
    <3>1. faults = 0 /\ Claim(q)' = Claim(q) /\ record' = record
      BY <2>7 DEF Crash, Claim
    <3> QED BY <2>0, <2>2, <2>7, <3>1 DEF Crash, TypeOK
  <2>8. CASE Tick
    <3>1. faults = 0 /\ Claim(q)' = Claim(q) /\ step' = step
      BY <2>8 DEF Tick, Claim
    <3>2. record' \in {record, NoRecord}
      BY <2>8 DEF Tick, Store
    <3> QED BY <2>1, <2>2, <3>1, <3>2
  <2>9. CASE UNCHANGED vars
    BY <2>2, <2>9 DEF vars, Claim
  <2> QED BY <2>3, <2>4, <2>5, <2>6, <2>7, <2>8, <2>9 DEF Next, Begin
<1> QED BY <1>1, <1>2, Invariance, PTL DEF Spec

(* Without Redis errors, a record in the key changes in two ways only: its *)
(* claimant responds, or it expires, as a result or as the claim of an     *)
(* attempt that died.                                                      *)
RecordEnds ==
    faults' = 0 /\ record # NoRecord =>
        \/ record' = record
        \/ /\ record.state = "in_progress" /\ step[record.by] \in {"ok", "bad"}
           /\ step'[record.by] \in {"done", "failed"}
        \/ /\ ttl = 1 /\ record' = NoRecord
           /\ record.state = "in_progress" => step[record.by] = "dead"

(* idempotency_finish writes or deletes the key without looking at it, yet *)
(* no attempt ever overwrites or deletes the result or the claim of        *)
(* another: a stored result stays for its whole DoneTTL.                   *)
THEOREM OwnersOnly == Spec => [][RecordEnds]_vars
<1>1. IInv /\ RunnerOwnsClaim /\ ClaimHeld /\ [Next]_vars => [RecordEnds]_vars
  <2> SUFFICES ASSUME IInv, RunnerOwnsClaim, ClaimHeld, Next, faults' = 0, record # NoRecord
               PROVE  RecordEnds
    BY DEF RecordEnds
  <2>0. /\ TypeOK /\ faults \in Nat /\ record.by \in Request
        /\ record.state \in {"in_progress", "done"}
    BY StoredTyped DEF IInv, TypeOK
  <2>1. ASSUME NEW r \in Request, BeginFails(r) \/ FinishFails(r)
        PROVE  FALSE
    BY <2>0, <2>1 DEF BeginFails, BeginSetFails, BeginGetFails, FinishFails, Fault
  <2>2. ASSUME NEW r \in Request, Begin(r) \/ Execute(r)
        PROVE  RecordEnds
    BY <2>2 DEF Begin, BeginSet, BeginGet, Execute, RecordEnds
  <2>3. ASSUME NEW r \in Request, Finish(r)
        PROVE  RecordEnds
    <3>1. record = Claim(r) /\ step[r] \in {"ok", "bad"}
      BY <2>3 DEF Finish, RunnerOwnsClaim, Running
    <3>2. record.by = r /\ record.state = "in_progress"
      BY <2>0, <3>1, Records
    <3>3. step'[r] \in {"done", "failed"}
      BY <2>0, <2>3 DEF Finish, Respond, Goto, TypeOK
    <3> QED BY <3>1, <3>2, <3>3 DEF RecordEnds
  <2>4. CASE \E S \in SUBSET Request : Crash(S)
    BY <2>4 DEF Crash, RecordEnds
  <2>5. CASE Tick
    <3>1. CASE ttl # 1
      BY <2>5, <3>1 DEF Tick, RecordEnds
    <3>2. CASE ttl = 1
      <4>1. record' = NoRecord /\ faults = 0
        BY <2>5, <3>2 DEF Tick, Store
      <4>2. ASSUME record.state = "in_progress" PROVE step[record.by] = "dead"
        <5>1. record = Claim(record.by)
          BY <2>0, <4>2, Records DEF IInv, Stored
        <5>2. step[record.by] \in Running \cup {"dead"}
          BY <2>0, <4>1, <5>1 DEF ClaimHeld
        <5>3. step[record.by] \notin Running
          <6> SUFFICES ASSUME step[record.by] \in Running PROVE FALSE
            OBVIOUS
          <6>1. ttl > 1
            BY <2>0, <2>5, <5>1, ClaimOutlivesRun
          <6> QED BY <3>2, <6>1
        <5> QED BY <5>2, <5>3
      <4> QED BY <3>2, <4>1, <4>2 DEF RecordEnds
    <3> QED BY <3>1, <3>2
  <2> QED BY <2>1, <2>2, <2>3, <2>4, <2>5 DEF Next
<1> QED BY <1>1, Invariance, RunnerOwns, ClaimReleased, PTL DEF Spec

(* Whoever was answered with a result has one, and the attempt it is from  *)
(* has ended.                                                              *)
Answers ==
    \A r \in Request :
        /\ step[r] = "replay" => served[r] # {}
        /\ step[r] = "done" => r \in served[r]
        /\ \A q \in served[r] : step[q] = "done"

(* A result is replayed only once the attempt that made it has stored it.  *)
THEOREM AnsweredByResult == Spec => []Answers
<1>1. Init => Answers
  BY DEF Init, Answers
<1>2. IInv /\ Answers /\ [Next]_vars => Answers'
  <2> SUFFICES ASSUME IInv, Answers, [Next]_vars, NEW q \in Request
               PROVE  /\ step'[q] = "replay" => served'[q] # {}
                      /\ step'[q] = "done" => q \in served'[q]
                      /\ \A p \in served'[q] : step'[p] = "done"
    BY DEF Answers
  <2>0. TypeOK /\ \A r \in Request : served[r] \subseteq Request
    BY DEF IInv, TypeOK
  <2>1. /\ step[q] = "replay" => served[q] # {}
        /\ step[q] = "done" => q \in served[q]
        /\ \A p \in served[q] : p \in Request /\ step[p] = "done"
    BY <2>0 DEF Answers
  <2>2. ASSUME NEW r \in Request,
               \/ BeginSet(r) \/ BeginSetFails(r) \/ BeginGetFails(r) \/ Execute(r)
        PROVE  /\ served' = served /\ step[r] # "done" /\ step'[r] \notin {"done", "replay"}
               /\ \A p \in Request : p # r => step'[p] = step[p]
    BY <2>0, <2>2 DEF BeginSet, BeginSetFails, BeginGetFails, Execute, Goto, TypeOK
  <2>3. ASSUME NEW r \in Request, BeginGet(r)
        PROVE  /\ step[r] # "done" /\ step'[r] # "done"
               /\ served'[r] # {} <=> step'[r] = "replay"
               /\ \A p \in served'[r] : p \in Request /\ step[p] = "done"
               /\ \A p \in Request : p # r => step'[p] = step[p] /\ served'[p] = served[p]
    <3>1. record # NoRecord /\ record.state = "done" =>
             record.by \in Request /\ step[record.by] = "done"
      BY <2>0, StoredTyped DEF IInv, Stored
    <3>2. step'[r] = "replay" => record # NoRecord /\ record.state = "done"
      BY <2>0, <2>3 DEF BeginGet, Goto, Answer, TypeOK
    <3>3. step[r] # "done" /\ step'[r] # "done"
      BY <2>0, <2>3 DEF BeginGet, Goto, Answer, TypeOK
    <3>4. served'[r] = IF step'[r] = "replay" THEN {record.by} ELSE {}
      BY <2>0, <2>3 DEF BeginGet, TypeOK
    <3>5. \A p \in Request : p # r => step'[p] = step[p] /\ served'[p] = served[p]
      BY <2>0, <2>3 DEF BeginGet, Goto, TypeOK
    <3> QED BY <3>1, <3>2, <3>3, <3>4, <3>5
  <2>4. ASSUME NEW r \in Request, Finish(r) \/ FinishFails(r)
        PROVE  /\ step[r] # "done" /\ step'[r] # "replay"
               /\ step'[r] = "done" => served'[r] = {r}
               /\ step'[r] # "done" => served'[r] = {}
               /\ \A p \in Request : p # r => step'[p] = step[p] /\ served'[p] = served[p]
    BY <2>0, <2>4 DEF Finish, FinishFails, Respond, Goto, TypeOK
  <2>5. ASSUME NEW S \in SUBSET Request, Crash(S)
        PROVE  /\ served' = served
               /\ \A p \in Request : step[p] \in {"done", "replay"}
                                        <=> step'[p] \in {"done", "replay"}
               /\ \A p \in Request : step[p] \in {"done", "replay"} => step'[p] = step[p]
    BY <2>0, <2>5 DEF Crash, TypeOK, Live, Running
  <2>6. CASE Tick \/ UNCHANGED vars
    BY <2>1, <2>6 DEF Tick, vars
  <2>7. ASSUME NEW r \in Request,
               \/ BeginSet(r) \/ BeginSetFails(r) \/ BeginGetFails(r) \/ Execute(r)
        PROVE  /\ step'[q] = "replay" => served'[q] # {}
               /\ step'[q] = "done" => q \in served'[q]
               /\ \A p \in served'[q] : step'[p] = "done"
    BY <2>1, <2>2, <2>7
  <2>8. ASSUME NEW r \in Request, BeginGet(r)
        PROVE  /\ step'[q] = "replay" => served'[q] # {}
               /\ step'[q] = "done" => q \in served'[q]
               /\ \A p \in served'[q] : step'[p] = "done"
    <3>1. CASE q = r
      BY <2>3, <2>8, <3>1
    <3>2. CASE q # r
      BY <2>1, <2>3, <2>8, <3>2
    <3> QED BY <3>1, <3>2
  <2>9. ASSUME NEW r \in Request, Finish(r) \/ FinishFails(r)
        PROVE  /\ step'[q] = "replay" => served'[q] # {}
               /\ step'[q] = "done" => q \in served'[q]
               /\ \A p \in served'[q] : step'[p] = "done"
    <3>1. CASE q = r
      BY <2>4, <2>9, <3>1
    <3>2. CASE q # r
      BY <2>1, <2>4, <2>9, <3>2
    <3> QED BY <3>1, <3>2
  <2>10. ASSUME NEW S \in SUBSET Request, Crash(S)
        PROVE  /\ step'[q] = "replay" => served'[q] # {}
               /\ step'[q] = "done" => q \in served'[q]
               /\ \A p \in served'[q] : step'[p] = "done"
    BY <2>1, <2>5, <2>10
  <2> QED BY <2>6, <2>7, <2>8, <2>9, <2>10 DEF Next, Begin, BeginFails
<1> QED BY <1>1, <1>2, Invariance, PTL DEF Spec

----------------------------------------------------------------------------
(* Cardinalities of sets of attempts *)

(* A set of attempts is finite, and no smaller than its subsets. *)
LEMMA Sizes ==
    ASSUME NEW T \in SUBSET Request
    PROVE  /\ IsFiniteSet(T) /\ Cardinality(T) \in Nat
           /\ \A S \in SUBSET T : Cardinality(S) <= Cardinality(T)
BY FiniteAssumption, FS_Subset, FS_CardinalityType

(* One attempt more makes a set larger by at most one. *)
LEMMA OneMore ==
    ASSUME NEW S \in SUBSET Request, NEW T \in SUBSET Request, NEW r \in Request,
           S \subseteq T \cup {r}
    PROVE  Cardinality(S) <= Cardinality(T) + 1
<1>1. IsFiniteSet(T) /\ Cardinality(T) \in Nat /\ Cardinality(S) \in Nat
  BY Sizes
<1>2. Cardinality(T \cup {r}) <= Cardinality(T) + 1
  <2>1. CASE r \in T
    <3>1. T \cup {r} = T
      BY <2>1
    <3>2. Cardinality(T \cup {r}) = Cardinality(T)
      BY <3>1
    <3> QED BY <1>1, <3>2
  <2>2. CASE r \notin T
    <3>1. Cardinality(T \cup {r}) = Cardinality(T) + 1
      BY <1>1, <2>2, FS_AddElement
    <3> QED BY <1>1, <3>1
  <2> QED BY <2>1, <2>2
<1>3. Cardinality(S) <= Cardinality(T \cup {r}) /\ Cardinality(T \cup {r}) \in Nat
  <2>1. T \cup {r} \in SUBSET Request
    OBVIOUS
  <2> QED BY <2>1, Sizes
<1> QED BY <1>1, <1>2, <1>3

(* Two sets of attempts together have no more members than apart. *)
LEMMA UnionSize ==
    ASSUME NEW S \in SUBSET Request, NEW T \in SUBSET Request
    PROVE  Cardinality(S \cup T) <= Cardinality(S) + Cardinality(T)
<1>1. S \cap T \in SUBSET Request /\ S \cup T \in SUBSET Request
  OBVIOUS
<1>2. /\ IsFiniteSet(S) /\ IsFiniteSet(T) /\ Cardinality(S) \in Nat /\ Cardinality(T) \in Nat
      /\ Cardinality(S \cap T) \in Nat /\ Cardinality(S \cup T) \in Nat
  BY <1>1, Sizes
<1>3. Cardinality(S \cup T) = Cardinality(S) + Cardinality(T) - Cardinality(S \cap T)
  BY <1>2, FS_Union
<1> QED BY <1>2, <1>3

(* Taking out a member leaves no more than taking out any other attempt. *)
LEMMA TakeOut ==
    ASSUME NEW X \in SUBSET Request, NEW r \in X, NEW q \in Request
    PROVE  Cardinality(X \ {r}) <= Cardinality(X \ {q})
<1>1. IsFiniteSet(X) /\ Cardinality(X) \in Nat
  BY Sizes
<1>2. Cardinality(X \ {r}) = Cardinality(X) - 1
  BY <1>1, FS_RemoveElement
<1>3. CASE q \in X
  <2>1. Cardinality(X \ {q}) = Cardinality(X) - 1
    BY <1>1, <1>3, FS_RemoveElement
  <2> QED BY <1>1, <1>2, <2>1
<1>4. CASE q \notin X
  <2>1. X \ {q} = X
    BY <1>4
  <2>2. Cardinality(X \ {q}) = Cardinality(X)
    BY <2>1
  <2> QED BY <1>1, <1>2, <2>2
<1> QED BY <1>3, <1>4

----------------------------------------------------------------------------
(* How often the work is done *)

(* Exposed and Covered are sets of attempts, Covered of at most one. *)
LEMMA Accounts ==
    ASSUME TypeOK
    PROVE  /\ Exposed \in SUBSET Request /\ Covered \in SUBSET Request
           /\ Cardinality(Exposed \ Covered) \in Nat
           /\ \/ Covered = {}
              \/ \E q \in Request : Covered = {q}
<1>1. Exposed \in SUBSET Request /\ Covered \in SUBSET Request
  BY DEF TypeOK, Exposed, Covered
<1>2. Covered \subseteq {record.by}
  BY DEF Covered
<1>3. Exposed \ Covered \in SUBSET Request
  BY <1>1
<1> QED BY <1>1, <1>2, <1>3, Sizes

(* A step that exposes nothing new and gives up no cover keeps the bound. *)
LEMMA NothingNew ==
    ASSUME TypeOK, TypeOK', OnePerFault, faults <= faults',
           Exposed' \ Covered' \subseteq Exposed \ Covered
    PROVE  OnePerFault'
<1>1. Exposed \ Covered \in SUBSET Request
  BY Accounts
<1>2. /\ Cardinality(Exposed \ Covered) \in Nat
      /\ Cardinality(Exposed' \ Covered') <= Cardinality(Exposed \ Covered)
      /\ Cardinality(Exposed' \ Covered') \in Nat
  <2>1. Exposed' \ Covered' \in SUBSET Request
    BY <1>1
  <2> QED BY <1>1, <2>1, Sizes
<1> QED BY <1>2 DEF OnePerFault, TypeOK

(* A fault pays for one more exposed attempt. *)
LEMMA FaultPays ==
    ASSUME TypeOK, TypeOK', OnePerFault, faults' = faults + 1, NEW r \in Request,
           Exposed' \ Covered' \subseteq (Exposed \ Covered) \cup {r}
    PROVE  OnePerFault'
<1>1. Exposed \ Covered \in SUBSET Request
  BY Accounts
<1>2. Exposed' \ Covered' \in SUBSET Request
  BY <1>1
<1>3. /\ Cardinality(Exposed \ Covered) \in Nat
      /\ Cardinality(Exposed' \ Covered') \in Nat
      /\ Cardinality(Exposed' \ Covered') <= Cardinality(Exposed \ Covered) + 1
  BY <1>1, <1>2, Sizes, OneMore
<1> QED BY <1>3 DEF OnePerFault, TypeOK

(* One exposed attempt may take the cover over from another. *)
LEMMA CoverMoves ==
    ASSUME TypeOK, TypeOK', OnePerFault, faults' = faults, NEW r \in Exposed,
           Exposed' \ Covered' \subseteq Exposed \ {r}
    PROVE  OnePerFault'
<1>1. Exposed \in SUBSET Request /\ Cardinality(Exposed \ Covered) \in Nat
  BY Accounts
<1>2. Cardinality(Exposed \ {r}) <= Cardinality(Exposed \ Covered)
  <2>1. CASE Covered = {}
    <3>1. Exposed \ {r} \in SUBSET (Exposed \ Covered) /\ Exposed \ Covered \in SUBSET Request
      BY <1>1, <2>1
    <3> QED BY <3>1, Sizes
  <2>2. ASSUME NEW q \in Request, Covered = {q}
        PROVE  Cardinality(Exposed \ {r}) <= Cardinality(Exposed \ Covered)
    <3>1. Cardinality(Exposed \ {r}) <= Cardinality(Exposed \ {q})
      BY <1>1, TakeOut
    <3> QED BY <2>2, <3>1
  <2> QED BY <2>1, <2>2, Accounts
<1>3. Exposed \ {r} \in SUBSET Request
  BY <1>1
<1>4. /\ Cardinality(Exposed' \ Covered') <= Cardinality(Exposed \ {r})
      /\ Cardinality(Exposed' \ Covered') \in Nat /\ Cardinality(Exposed \ {r}) \in Nat
  <2>1. Exposed' \ Covered' \in SUBSET Request
    BY <1>3
  <2> QED BY <1>3, <2>1, Sizes
<1> QED BY <1>1, <1>2, <1>4 DEF OnePerFault, TypeOK

(* Every step keeps the account: each action exposes an attempt only with  *)
(* its claim or a fault, and uncovers one only as it expires, dies or is   *)
(* paid for.                                                               *)
LEMMA Accounting ==
    ASSUME IInv, IInv', OnePerFault, [Next]_vars
    PROVE  OnePerFault'
<1>0. TypeOK /\ TypeOK'
  BY DEF IInv
<1>00. faults \in Nat
  BY <1>0 DEF TypeOK
<1>1. ASSUME NEW r \in Request, BeginSet(r)
      PROVE  OnePerFault'
  <2>0. /\ step[r] = "set" /\ faults' = faults /\ UNCHANGED <<ran, lapsed>>
        /\ \A q \in Request : q # r => step'[q] = step[q]
    BY <1>0, <1>1 DEF BeginSet, Goto, TypeOK
  <2>1. CASE record = NoRecord
    <3>1. /\ step'[r] = "run" /\ record' = Claim(r)
          /\ Claim(r).by = r /\ Claim(r) # NoRecord
      BY <1>0, <1>1, <2>1, Records DEF BeginSet, Store, Goto, TypeOK
    <3>2. r \in Covered' /\ Covered = {}
      BY <2>1, <3>1 DEF Covered, Running
    <3>3. Exposed' \subseteq Exposed \cup {r}
      BY <1>0, <2>0 DEF Exposed, TypeOK
    <3>4. Exposed' \ Covered' \subseteq Exposed \ Covered
      BY <3>2, <3>3
    <3> QED BY <1>0, <1>00, <2>0, <3>4, NothingNew
  <2>2. CASE record # NoRecord
    <3>1. step'[r] = "get" /\ record' = record
      BY <1>0, <1>1, <2>2 DEF BeginSet, Goto, TypeOK
    <3>2. Exposed' \subseteq Exposed
      BY <1>0, <2>0, <3>1 DEF Exposed, TypeOK
    <3>3. Covered \subseteq Covered'
      BY <2>0, <3>1 DEF Covered, Running
    <3> QED BY <1>0, <1>00, <2>0, <3>2, <3>3, NothingNew
  <2> QED BY <2>1, <2>2
<1>2. ASSUME NEW r \in Request, BeginSetFails(r) \/ BeginGetFails(r)
      PROVE  OnePerFault'
  <2>0. /\ step[r] \in {"set", "get"} /\ step'[r] = "run"
        /\ faults' = faults + 1 /\ UNCHANGED <<ran, lapsed>>
        /\ \A q \in Request : q # r => step'[q] = step[q]
        /\ record = NoRecord \/ record' = record
    BY <1>0, <1>2 DEF BeginSetFails, BeginGetFails, Fault, Goto, TypeOK
  <2>1. Exposed' \subseteq Exposed \cup {r}
    BY <1>0, <2>0 DEF Exposed, TypeOK
  <2>2. Covered \subseteq Covered'
    BY <2>0 DEF Covered, Running
  <2>3. Exposed' \ Covered' \subseteq (Exposed \ Covered) \cup {r}
    BY <2>1, <2>2
  <2> QED BY <1>0, <2>0, <2>3, FaultPays
<1>3. ASSUME NEW r \in Request, BeginGet(r)
      PROVE  OnePerFault'
  <2>0. /\ step[r] = "get" /\ step'[r] \in {"replay", "mismatch", "in_progress"}
        /\ UNCHANGED <<record, ran, lapsed, faults>>
        /\ \A q \in Request : q # r => step'[q] = step[q]
    BY <1>0, <1>3 DEF BeginGet, Answer, Goto, TypeOK
  <2>1. Exposed' \subseteq Exposed /\ Covered \subseteq Covered'
    BY <1>0, <2>0 DEF Exposed, Covered, TypeOK, Running
  <2> QED BY <1>0, <1>00, <2>0, <2>1, NothingNew
<1>4. ASSUME NEW r \in Request, Execute(r)
      PROVE  OnePerFault'
  <2>0. /\ step[r] = "run" /\ step'[r] \in {"ok", "bad"} /\ ran' \subseteq ran \cup {r}
        /\ UNCHANGED <<record, lapsed, faults>>
        /\ \A q \in Request : q # r => step'[q] = step[q]
    BY <1>0, <1>4 DEF Execute, Goto, TypeOK
  <2>1. Exposed' \subseteq Exposed /\ Covered \subseteq Covered'
    BY <1>0, <2>0 DEF Exposed, Covered, TypeOK, Running
  <2> QED BY <1>0, <1>00, <2>0, <2>1, NothingNew
<1>5. ASSUME NEW r \in Request, Finish(r)
      PROVE  OnePerFault'
  <2>0. /\ step[r] \in {"ok", "bad"} /\ UNCHANGED <<ran, lapsed, faults>>
        /\ step'[r] = IF step[r] = "ok" THEN "done" ELSE "failed"
        /\ \A q \in Request : q # r => step'[q] = step[q]
    BY <1>0, <1>5 DEF Finish, Respond, Goto, TypeOK
  <2>1. r \in Exposed
    BY <1>0, <2>0 DEF IInv, RanSteps, Exposed, TypeOK
  <2>2. Exposed' \subseteq Exposed
    BY <1>0, <2>0 DEF Exposed, TypeOK
  <2>3. r \notin Exposed' \ Covered'
    <3>1. CASE step[r] = "ok"
      <4>1. record' = Result(r) /\ Result(r) # NoRecord /\ Result(r).by = r
            /\ Result(r).state = "done"
        BY <1>0, <1>5, <3>1, Records DEF Finish, FinishWrite, Store
      <4> QED BY <4>1 DEF Covered
    <3>2. CASE step[r] = "bad"
      <4>1. step'[r] = "failed" /\ r \notin ran'
        BY <2>0, <3>2 DEF IInv, RanSteps
      <4> QED BY <4>1 DEF Exposed
    <3> QED BY <2>0, <3>1, <3>2
  <2>4. Exposed' \ Covered' \subseteq Exposed \ {r}
    BY <2>2, <2>3
  <2> QED BY <1>0, <2>0, <2>1, <2>4, CoverMoves
<1>6. ASSUME NEW r \in Request, FinishFails(r)
      PROVE  OnePerFault'
  <2>0. /\ step[r] \in {"ok", "bad"} /\ UNCHANGED <<ran, lapsed>> /\ faults' = faults + 1
        /\ step'[r] = IF step[r] = "ok" THEN "done" ELSE "failed"
        /\ \A q \in Request : q # r => step'[q] = step[q]
    BY <1>0, <1>6 DEF FinishFails, Fault, Respond, Goto, TypeOK
  <2>1. Exposed' \subseteq Exposed
    BY <1>0, <2>0 DEF Exposed, TypeOK
  <2>2. PICK q \in Request : Covered \subseteq {q}
    BY <1>0, Accounts
  <2>3. Exposed' \ Covered' \subseteq (Exposed \ Covered) \cup {q}
    BY <2>1, <2>2
  <2> QED BY <1>0, <2>0, <2>3, FaultPays
<1>7. ASSUME NEW S \in SUBSET Request, Crash(S)
      PROVE  OnePerFault'
  <2>0. /\ UNCHANGED <<record, ran, lapsed, faults>>
        /\ \A q \in Request : step'[q] = step[q] \/ (step[q] \in Live /\ step'[q] = "dead")
    BY <1>0, <1>7 DEF Crash, TypeOK
  <2>1. Exposed' \subseteq Exposed
    BY <1>0, <2>0 DEF Exposed, TypeOK
  <2>2. Exposed' \cap Covered \subseteq Covered'
    BY <1>0, <2>0 DEF Exposed, Covered, TypeOK
  <2>3. Exposed' \ Covered' \subseteq Exposed \ Covered
    BY <2>1, <2>2
  <2> QED BY <1>0, <1>00, <2>0, <2>3, NothingNew
<1>8. CASE Tick
  <2>0. UNCHANGED <<step, ran, faults>> /\ lapsed \subseteq lapsed'
    BY <1>8 DEF Tick
  <2>1. Exposed' \subseteq Exposed
    BY <1>0, <2>0 DEF Exposed, TypeOK
  <2>2. Exposed' \cap Covered \subseteq Covered'
    <3>1. CASE ttl # 1
      BY <1>8, <2>0, <3>1 DEF Covered, Tick
    <3>2. CASE ttl = 1
      <4> SUFFICES ASSUME NEW q \in Covered, q \in Exposed' PROVE FALSE
        OBVIOUS
      <4>1. /\ q \in Request /\ record # NoRecord /\ record.by = q
            /\ record.state = "done" \/ step[q] \in Running
        BY DEF Covered
      <4>2. CASE record.state = "done"
        <5>1. q \in lapsed' /\ step'[q] = "done"
          BY <1>8, <2>0, <3>2, <4>1, <4>2 DEF Tick, IInv, Stored
        <5> QED BY <5>1 DEF Exposed
      <4>3. CASE record.state # "done"
        <5>1. record = Claim(q) /\ step[q] \in Running
          BY <1>0, <4>1, <4>3, Records DEF IInv, Stored
        <5>2. ttl > 1
          BY <1>8, <4>1, <5>1, ClaimOutlivesRun
        <5> QED BY <3>2, <5>2
      <4> QED BY <4>2, <4>3
    <3> QED BY <3>1, <3>2
  <2>3. Exposed' \ Covered' \subseteq Exposed \ Covered
    BY <2>1, <2>2
  <2> QED BY <1>0, <1>00, <2>0, <2>3, NothingNew
<1>9. CASE UNCHANGED vars
  <2>1. Exposed' = Exposed /\ Covered' = Covered /\ faults' = faults
    BY <1>9 DEF vars, Exposed, Covered
  <2> QED BY <1>0, <1>00, <2>1, NothingNew
<1> QED BY <1>1, <1>2, <1>3, <1>4, <1>5, <1>6, <1>7, <1>8, <1>9 DEF Next, Begin, BeginFails

(* "A retried request is never run or billed twice", with its exceptions   *)
(* counted: the work behind a key is done once, plus once per expired      *)
(* result, per attempt that died with its result and per Redis error.      *)
THEOREM RunOnce == Spec => []NeverRunTwice
<1>1. Init => OnePerFault
  <2> SUFFICES ASSUME Init PROVE OnePerFault
    OBVIOUS
  <2>1. Exposed \ Covered = {}
    BY DEF Init, Exposed
  <2> QED BY <2>1, FS_EmptySet DEF Init, OnePerFault
<1>2. IInv /\ IInv' /\ OnePerFault /\ [Next]_vars => OnePerFault'
  BY Accounting
<1>3. IInv /\ OnePerFault => NeverRunTwice
  <2> SUFFICES ASSUME IInv, OnePerFault PROVE NeverRunTwice
    OBVIOUS
  <2> DEFINE Died == {r \in ran : step[r] = "dead"}
  <2>1. TypeOK
    BY DEF IInv
  <2>2. /\ Exposed \in SUBSET Request /\ lapsed \in SUBSET Request
        /\ Died \in SUBSET Request /\ ran \in SUBSET Request
    BY <2>1, Accounts DEF TypeOK
  <2>3. ran \subseteq (Exposed \cup lapsed) \cup Died
    BY DEF Exposed
  <2>4. Cardinality(Exposed) <= Cardinality(Exposed \ Covered) + 1
    <3>1. Cardinality(Exposed \ Covered) \in Nat
      BY <2>1, Accounts
    <3>2. CASE Covered = {}
      <4>1. Exposed \ Covered = Exposed
        BY <3>2
      <4>2. Cardinality(Exposed \ Covered) = Cardinality(Exposed)
        BY <4>1
      <4> QED BY <3>1, <4>2
    <3>3. ASSUME NEW q \in Request, Covered = {q}
          PROVE  Cardinality(Exposed) <= Cardinality(Exposed \ Covered) + 1
      <4>1. Exposed \subseteq (Exposed \ Covered) \cup {q} /\ Exposed \ Covered \in SUBSET Request
        BY <2>2, <3>3
      <4> QED BY <2>2, <4>1, OneMore
    <3> QED BY <2>1, <3>2, <3>3, Accounts
  <2>5. Cardinality(ran) <= Cardinality(Exposed) + Cardinality(lapsed) + Cardinality(Died)
    <3>1. Exposed \cup lapsed \in SUBSET Request
      BY <2>2
    <3>2. Cardinality(Exposed \cup lapsed) <= Cardinality(Exposed) + Cardinality(lapsed)
      BY <2>2, UnionSize
    <3>3. Cardinality((Exposed \cup lapsed) \cup Died)
              <= Cardinality(Exposed \cup lapsed) + Cardinality(Died)
      BY <2>2, <3>1, UnionSize
    <3>4. (Exposed \cup lapsed) \cup Died \in SUBSET Request
      BY <2>2
    <3>5. Cardinality(ran) <= Cardinality((Exposed \cup lapsed) \cup Died)
      BY <2>3, <3>4, Sizes
    <3>6. /\ Cardinality(ran) \in Nat /\ Cardinality((Exposed \cup lapsed) \cup Died) \in Nat
          /\ Cardinality(Exposed \cup lapsed) \in Nat /\ Cardinality(Exposed) \in Nat
          /\ Cardinality(lapsed) \in Nat /\ Cardinality(Died) \in Nat
      BY <2>2, <3>1, <3>4, Sizes
    <3> QED BY <3>2, <3>3, <3>5, <3>6
  <2>6. /\ Cardinality(ran) \in Nat /\ Cardinality(Exposed) \in Nat
        /\ Cardinality(lapsed) \in Nat /\ Cardinality(Died) \in Nat
        /\ Cardinality(Exposed \ Covered) \in Nat /\ faults \in Nat
    BY <2>1, <2>2, Sizes, Accounts DEF TypeOK
  <2>7. Cardinality(Exposed \ Covered) <= faults
    BY DEF OnePerFault
  <2>8. Cardinality(ran) <= 1 + Cardinality(lapsed) + Cardinality(Died) + faults
    <3> HIDE DEF Died
    <3> QED BY <2>4, <2>5, <2>6, <2>7
  <2> QED BY <2>8 DEF NeverRunTwice
<1> QED BY <1>1, <1>2, <1>3, Invariance, PTL DEF Spec
=============================================================================
