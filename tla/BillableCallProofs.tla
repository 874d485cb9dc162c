-------------------------- MODULE BillableCallProofs --------------------------
(* Proofs about BillableCall for every finite set of requests, every mix of *)
(* calls they may make, and any number of faults and crashes: the handler   *)
(* uses each of its stores as the store's own module allows, so what is     *)
(* proved of Quota, Slots, Idempotency and UsageOutbox holds of its calls,  *)
(* and from that and from where each request is in the handler follow the   *)
(* promises the API makes about charging, retries, slots and models.        *)
EXTENDS BillableCall, FiniteSetTheorems, TLAPS

SP == INSTANCE SlotsProofs WITH ttl <- sttl, step <- sstep, level <- slevel, age <- sage,
                         faults <- sfaults, SlotTTL <- 2, MaxHold <- 1,
                         Subject <- {Caller}, SubjectOf <- [r \in Request |-> Caller]
IP == INSTANCE IdempotencyProofs WITH ttl <- ittl, step <- istep, age <- iage,
                               faults <- ifaults, Carried <- [Request -> Body],
                               body <- [r \in Request |-> input[r].body],
                               ClaimTTL <- 2, DoneTTL <- 3, MaxRun <- 1
QP == INSTANCE QuotaProofs WITH phase <- qphase
UP == INSTANCE UsageOutboxProofs

----------------------------------------------------------------------------
(* Where a request is tells what it has of each store. *)

FlowAt(r) ==
    /\ stage[r] \in Early => outcome[r] = "none" /\ usage[r] = {}
    /\ stage[r] = "finish" => outcome[r] \in {"ok", "error"}
    /\ stage[r] = "emit" => outcome[r] = "ok"
    /\ stage[r] = "release" => outcome[r] \in {"ok", "error", "raised"} /\ Capped(r)
    /\ stage[r] = "answered" => outcome[r] # "none"
    /\ outcome[r] = "replay" => stage[r] = "answered"
    /\ stage[r] \notin {"arrive", "answered", "dead"} => RagBody(r).kind = "query"
    /\ stage[r] = "claim" => input[r].keyed
    /\ stage[r] = "reveal" => ByokModel(r) # Nil
    /\ stage[r] = "acquire" => Capped(r)
    /\ stage[r] = "canned" => input[r].test
    /\ stage[r] \in {"reserve", "forward", "refund", "emit"} => ~input[r].test

(* The provider key is looked up exactly for the calls that name a model. *)
KeyAt(r) ==
    /\ stage[r] \in {"arrive", "claim", "reveal"} => key[r] = "none"
    /\ stage[r] \in {"acquire", "canned", "reserve", "forward", "refund"} =>
           (key[r] # "none" <=> ByokModel(r) # Nil)
    /\ usage[r] # {} => endpoint = "answers"

QuotaAt(r) ==
    /\ stage[r] \in {"arrive", "claim", "reveal", "acquire", "canned"} => qphase[r] = "idle"
    /\ stage[r] = "reserve" => qphase[r] \in {"idle", "decr", "undo"}
    /\ stage[r] = "forward" => qphase[r] = "granted"
    /\ stage[r] = "refund" => qphase[r] \in {"granted", "incr"}
    /\ stage[r] \in {"finish", "emit", "release", "answered"} =>
           /\ outcome[r] = "ok" => qphase[r] = IF input[r].test THEN "idle" ELSE "spent"
           /\ outcome[r] = "error" => qphase[r] \in {"idle", "denied", "released"}
           /\ outcome[r] = "replay" => qphase[r] = "idle"
           /\ outcome[r] = "raised" => qphase[r] \in {"idle", "granted"}
    /\ input[r].test => qphase[r] \in {"idle", "dead"}

SlotAt(r) ==
    /\ stage[r] \in {"arrive", "claim", "reveal", "canned", "answered"} => sstep[r] = "ready"
    /\ stage[r] = "acquire" => sstep[r] \in {"ready", "incr", "expire", "undo", "back"}
    /\ stage[r] \in {"reserve", "forward", "refund", "emit"} =>
           sstep[r] = IF Capped(r) THEN "hold" ELSE "ready"
    /\ stage[r] = "finish" =>
           \/ Capped(r) /\ sstep[r] = "hold"
           \/ sstep[r] = "ready" /\ (outcome[r] = "error" \/ ~Capped(r))
    /\ stage[r] = "release" => sstep[r] \in {"hold", "decr"}
    /\ stage[r] = "dead" \/ input[r].test => sstep[r] \in {"ready", "dead"}

IdemAt(r) ==
    /\ input[r].keyed =>
         /\ stage[r] = "arrive" => istep[r] = "set"
         /\ stage[r] = "claim" => istep[r] \in {"set", "get"}
         /\ stage[r] \in Early \ {"arrive", "claim"} => istep[r] = "run"
         /\ stage[r] = "finish" => istep[r] = IF outcome[r] = "ok" THEN "ok" ELSE "bad"
         /\ stage[r] = "emit" => istep[r] = "done"
         /\ stage[r] \in {"release", "answered"} =>
              /\ outcome[r] = "ok" => istep[r] = "done"
              /\ outcome[r] = "error" => istep[r] \in {"set", "mismatch", "in_progress", "failed"}
              /\ outcome[r] = "replay" => istep[r] = "replay"
              /\ outcome[r] = "raised" => istep[r] \in {"set", "run"}
    /\ ~input[r].keyed =>
         /\ istep[r] = IF stage[r] = "dead" THEN "dead" ELSE "set"
         /\ outcome[r] # "replay"
    /\ istep[r] = "done" =>
         /\ stage[r] \in {"emit", "release", "answered", "dead"} /\ outcome[r] = "ok"
         /\ input[r].test \/ qphase[r] = "spent"

(* Only the events due are ever emitted, only in the emit stage, and a call *)
(* leaves it with every one of them returned.                               *)
UsageAt(r) ==
    /\ \A u \in Unit : <<r, u>> \in blocked => stage[r] = "emit" /\ u \in {"call"} \cup usage[r]
    /\ \A u \in Unit : at[<<r, u>>] # "ready" =>
           /\ u \in {"call"} \cup usage[r]
           /\ ~input[r].test /\ outcome[r] = "ok"
           /\ stage[r] \in {"emit", "release", "answered", "dead"}
    /\ stage[r] \in {"release", "answered"} /\ outcome[r] = "ok" /\ ~input[r].test =>
           \A u \in {"call"} \cup usage[r] : at[<<r, u>>] \in {"done", "lost"}
    /\ stage[r] = "dead" => \A u \in Unit : at[<<r, u>>] \in {"ready", "done", "lost", "dead"}

Placed(r) == FlowAt(r) /\ KeyAt(r) /\ QuotaAt(r) /\ SlotAt(r) /\ IdemAt(r) /\ UsageAt(r)

(* No TTL runs out and no quota is published meanwhile; every error of a    *)
(* store is counted.                                                        *)
Quiet ==
    /\ faults \in Nat /\ lost = 0 /\ lapsed = {}
    /\ faults = 0 => sfaults = 0 /\ ifaults = 0
    /\ counter = NoQuota => took = {}

(* Without errors, a unit taken by a call that was denied or refunded went  *)
(* back.                                                                    *)
Refunded ==
    faults = 0 =>
        \A r \in Request : qphase[r] \in {"denied", "released"} => r \notin took \ gave

LInv == Types /\ (\A r \in Request : Placed(r)) /\ Quiet /\ Refunded

----------------------------------------------------------------------------
(* Types *)

(* What a request is moved to is a stage. *)
LEMMA Stages ==
    ASSUME NEW r \in Request
    PROVE  /\ {AfterReveal(r), AfterClaim(r), AfterFinish(r), AfterEmit(r)} \subseteq Stage
           /\ AfterReveal(r) \in {"acquire", "canned", "reserve"}
           /\ AfterClaim(r) \in {"reveal", "acquire", "canned", "reserve"}
           /\ AfterFinish(r) \in {"emit", "release", "answered"}
           /\ AfterEmit(r) \in {"release", "answered"}
BY DEF AfterReveal, AfterClaim, AfterFinish, AfterEmit, Stage

(* One step of a request keeps the types of the handler's own state, and    *)
(* touches that of no other request.                                        *)
LEMMA StepTyped ==
    ASSUME Types, NEW r \in Request, Step(r)
    PROVE  /\ Types' /\ UNCHANGED <<input, endpoint>>
           /\ \A q \in Request \ {r} :
                  /\ stage'[q] = stage[q] /\ outcome'[q] = outcome[q]
                  /\ key'[q] = key[q] /\ usage'[q] = usage[q]
<1> DEFINE Kept == /\ Types' /\ UNCHANGED <<input, endpoint>>
                   /\ \A q \in Request \ {r} :
                          /\ stage'[q] = stage[q] /\ outcome'[q] = outcome[q]
                          /\ key'[q] = key[q] /\ usage'[q] = usage[q]
<1>1. ASSUME NEW s \in Stage, Goto(r, s), UNCHANGED <<input, endpoint>> PROVE Kept
  BY <1>1 DEF Goto, Move, got, Types
<1>2. ASSUME NEW s \in Stage, NEW o \in Outcome, Decide(r, s, o), UNCHANGED <<input, endpoint>>
      PROVE  Kept
  BY <1>2 DEF Decide, Move, got, Types
<1>3. ASSUME Wait, UNCHANGED <<input, endpoint>> PROVE Kept
  BY <1>3 DEF Wait, got, Types
<1> USE Stages DEF Resume, Stage, Outcome
<1> SUFFICES Kept
  OBVIOUS
<1> HIDE DEF Kept
<1>4. CASE Reject(r) \/ TranslationRaises(r)
  BY <1>2, <1>4 DEF Reject, TranslationRaises
<1>5. CASE Accept(r)
  BY <1>1, <1>5 DEF Accept
<1>6. CASE Claim(r)
  BY <1>1, <1>2, <1>3, <1>6 DEF Claim
<1>7. CASE Reveal(r)
  BY <1>7 DEF Reveal, Move, Types, Kept
<1>8. CASE RevealFails(r) \/ RevealRaises(r)
  BY <1>2, <1>8 DEF RevealFails, RevealRaises, FailEarly
<1>9. CASE Acquire(r)
  BY <1>1, <1>2, <1>3, <1>9 DEF Acquire, FailEarly
<1>10. CASE Canned(r)
  BY <1>2, <1>10 DEF Canned
<1>11. CASE Reserve(r)
  BY <1>1, <1>2, <1>3, <1>11 DEF Reserve
<1>12. CASE Forward(r)
  <2>1. PICK t \in SUBSET {"input", "output"} :
            usage' = [usage EXCEPT ![r] = PublicUsage(RagBody(r).mode, t)]
    BY <1>12 DEF Forward
  <2>2. PublicUsage(RagBody(r).mode, t) \in SUBSET Unit
    BY DEF PublicUsage, Unit
  <2> QED BY <1>12, <2>1, <2>2 DEF Forward, Move, Types, Kept
<1>13. CASE ForwardFails(r) \/ ForwardRaises(r)
  BY <1>1, <1>2, <1>13 DEF ForwardFails, ForwardRaises
<1>14. CASE Refund(r)
  BY <1>2, <1>3, <1>14 DEF Refund
<1>15. CASE Finish(r)
  BY <1>1, <1>15 DEF Finish
<1>16. CASE EmitUsage(r) \/ EmitReturns(r)
  BY <1>1, <1>3, <1>16 DEF EmitUsage, EmitReturns
<1>17. CASE ReleaseSlots(r)
  BY <1>1, <1>3, <1>17 DEF ReleaseSlots
<1> QED BY <1>4, <1>5, <1>6, <1>7, <1>8, <1>9, <1>10, <1>11, <1>12, <1>13, <1>14, <1>15,
           <1>16, <1>17 DEF Step

(* The handler's own state keeps its types. *)
THEOREM TypesKept == Spec => []Types
<1>1. Init => Types
  BY DEF Init, Types, Stage, Outcome
<1>2. Types /\ [Next]_vars => Types'
  <2> SUFFICES ASSUME Types, [Next]_vars PROVE Types'
    OBVIOUS
  <2>1. CASE \E r \in Request : Step(r)
    BY <2>1, StepTyped
  <2>2. CASE Crash
    BY <2>2 DEF Crash, Types, got, Stage
  <2>3. CASE UNCHANGED vars
    BY <2>3 DEF vars, Types
  <2> QED BY <2>1, <2>2, <2>3 DEF Next
<1> QED BY <1>1, <1>2, PTL DEF Spec

----------------------------------------------------------------------------
(* The handler implements the users of its stores. *)

(* A step of the handler is, for each store, a step that its module allows  *)
(* a request, or leaves the store alone.                                    *)
LEMMA HandlerSteps ==
    ASSUME Types, NEW r \in Request, Step(r)
    PROVE  /\ \/ UNCHANGED quotaVars
              \/ Q!Reserve(r) \/ Q!ReserveFails(r) \/ Q!Consume(r)
              \/ Q!Release(r) \/ Q!ReleaseFails(r)
           /\ \/ UNCHANGED slotVars
              \/ S!Call(r) \/ S!Acquire(r) \/ S!AcquireFails(r)
              \/ S!ReleaseDecr(r) \/ S!ReleaseDecrFails(r)
           /\ \/ UNCHANGED idemVars
              \/ I!Begin(r) \/ I!BeginFails(r) \/ I!Execute(r)
              \/ I!Finish(r) \/ I!FinishFails(r)
           /\ \/ UNCHANGED usageVars
              \/ \E u \in Unit : U!EmitUsage(<<r, u>>) \/ U!EmitFails(<<r, u>>)
           /\ UNCHANGED <<input, endpoint>>
<1> USE DEF Resume, Ran, FailEarly, Try
<1>1. CASE Reject(r) \/ TranslationRaises(r) \/ Accept(r)
  BY <1>1 DEF Reject, TranslationRaises, Accept
<1>2. CASE Claim(r)
  BY <1>2 DEF Claim
<1>3. CASE Reveal(r) \/ RevealFails(r) \/ RevealRaises(r)
  BY <1>3 DEF Reveal, RevealFails, RevealRaises
<1>4. CASE Acquire(r)
  BY <1>4 DEF Acquire, SlotStep
<1>5. CASE Canned(r)
  BY <1>5 DEF Canned
<1>6. CASE Reserve(r)
  BY <1>6 DEF Reserve
<1>7. CASE Forward(r) \/ ForwardFails(r) \/ ForwardRaises(r)
  BY <1>7 DEF Forward, ForwardFails, ForwardRaises
<1>8. CASE Refund(r)
  BY <1>8 DEF Refund
<1>9. CASE Finish(r)
  BY <1>9 DEF Finish
<1>10. CASE EmitUsage(r) \/ EmitReturns(r)
  <2>1. Due(r) \subseteq Unit
    BY DEF Due, Unit, Types
  <2> QED BY <1>10, <2>1 DEF EmitUsage, EmitReturns
<1>11. CASE ReleaseSlots(r)
  BY <1>11 DEF ReleaseSlots
<1> QED BY <1>1, <1>2, <1>3, <1>4, <1>5, <1>6, <1>7, <1>8, <1>9, <1>10, <1>11 DEF Step

(* So does a crash. *)
LEMMA CrashSteps ==
    ASSUME Crash
    PROVE  /\ InFlight \in SUBSET Request
           /\ UNCHANGED quotaVars \/ Q!Crash(InFlight)
           /\ UNCHANGED slotVars \/ S!Crash(InFlight)
           /\ UNCHANGED idemVars \/ I!Crash(InFlight)
           /\ UNCHANGED usageVars \/ U!Restart
           /\ UNCHANGED <<input, endpoint>>
BY DEF Crash, InFlight

(* Every step of the handler is a step of each store, or none of it. *)
LEMMA StoreSteps ==
    ASSUME Types, [Next]_vars
    PROVE  /\ [Q!Next]_(Q!vars) /\ [S!Next]_(S!vars)
           /\ [I!Next]_(I!vars) /\ [U!Next]_(U!vars)
           /\ [r \in Request |-> input[r].body]' = [r \in Request |-> input[r].body]
<1> USE DEF quotaVars, slotVars, idemVars, usageVars
<1>1. CASE \E r \in Request : Step(r)
  <2>1. PICK r \in Request : Step(r)
    BY <1>1
  <2>2. UNCHANGED quotaVars \/ Q!Next
    BY <2>1, HandlerSteps DEF Q!Next
  <2>3. UNCHANGED slotVars \/ S!Next
    BY <2>1, HandlerSteps DEF S!Next
  <2>4. UNCHANGED idemVars \/ I!Next
    BY <2>1, HandlerSteps DEF I!Next
  <2>5. UNCHANGED usageVars \/ U!Next
    <3>1. \A u \in Unit : <<r, u>> \in Emission
      BY DEF Emission
    <3> QED BY <2>1, <3>1, HandlerSteps DEF U!Next
  <2>6. UNCHANGED input
    BY <2>1, HandlerSteps
  <2> QED BY <2>2, <2>3, <2>4, <2>5, <2>6 DEF Q!vars, S!vars, I!vars, U!vars
<1>2. CASE Crash
  <2>1. Q!Next \/ UNCHANGED quotaVars
    BY <1>2, CrashSteps DEF Q!Next
  <2>2. S!Next \/ UNCHANGED slotVars
    BY <1>2, CrashSteps DEF S!Next
  <2>3. I!Next \/ UNCHANGED idemVars
    BY <1>2, CrashSteps DEF I!Next
  <2>4. U!Next \/ UNCHANGED usageVars
    BY <1>2, CrashSteps DEF U!Next
  <2>5. UNCHANGED input
    BY <1>2, CrashSteps
  <2> QED BY <2>1, <2>2, <2>3, <2>4, <2>5 DEF Q!vars, S!vars, I!vars, U!vars
<1>3. CASE UNCHANGED vars
  BY <1>3 DEF vars, Q!vars, S!vars, I!vars, U!vars
<1> QED BY <1>1, <1>2, <1>3 DEF Next

(* The theorems about Quota are about the Quota this module uses. *)
LEMMA QuotaSame == Q!Spec => QP!Spec
<1>1. Q!Init => QP!Init
  BY DEF Q!Init, QP!Init
<1>2. [Q!Next]_(Q!vars) => [QP!Next]_(QP!vars)
  BY DEF Q!vars, Q!ledger, Q!Goto, Q!Value, Q!Decr, Q!Incr, Q!ReserveGet,
     Q!ReserveGetFails, Q!ReserveDecr, Q!ReserveDecrFails, Q!UndoIncr,
     Q!UndoIncrFails, Q!Consume, Q!ReleaseGet, Q!ReleaseGetFails, Q!ReleaseIncr,
     Q!ReleaseIncrFails, Q!Final, Q!Reserving, Q!Writing, Q!Crash, Q!Publish,
     Q!Reserve, Q!ReserveFails, Q!Release, Q!ReleaseFails, Q!Next, Q!Init, QP!vars,
     QP!ledger, QP!Goto, QP!Value, QP!Decr, QP!Incr, QP!ReserveGet,
     QP!ReserveGetFails, QP!ReserveDecr, QP!ReserveDecrFails, QP!UndoIncr,
     QP!UndoIncrFails, QP!Consume, QP!ReleaseGet, QP!ReleaseGetFails,
     QP!ReleaseIncr, QP!ReleaseIncrFails, QP!Final, QP!Reserving, QP!Writing,
     QP!Crash, QP!Publish, QP!Reserve, QP!ReserveFails, QP!Release,
     QP!ReleaseFails, QP!Next, QP!Init
<1> QED BY <1>1, <1>2, PTL DEF Q!Spec, QP!Spec

(* The theorems about Slots are about the Slots this module uses. *)
LEMMA SlotsSame == S!Spec => SP!Spec
<1>1. S!Key = SP!Key /\ S!InFlight = SP!InFlight
  BY DEF S!Key, SP!Key, S!InFlight, SP!InFlight
<1>2. S!Init => SP!Init
  BY <1>1 DEF S!Init, SP!Init
<1>3. S!Tick => SP!Tick
  <2>1. \A T : S!Cardinality(T) = SP!Cardinality(T)
    BY DEF S!Cardinality, SP!Cardinality
  <2>2. S!Slipping = SP!Slipping
    BY DEF S!Slipping, SP!Slipping, S!KeyOf, SP!KeyOf, S!KeyAt, SP!KeyAt
  <2>3. S!Cardinality(S!Slipping) = SP!Cardinality(SP!Slipping)
    BY <2>1, <2>2
  <2> QED BY <1>1, <2>3 DEF S!Tick, SP!Tick
<1>4. [S!Next]_(S!vars) => [SP!Next]_(SP!vars)
  BY <1>1, <1>3 DEF S!vars, S!KeyAt, S!KeyOf, S!Value, S!At, S!Passed, S!Refused,
     S!Returned, S!Incr, S!Decr, S!Fault, S!Call, S!AcquireIncr,
     S!AcquireIncrFails, S!SetTTL, S!AcquireExpire, S!AcquireExpireFails,
     S!AcquireUndo, S!AcquireUndoFails, S!ReleaseDecr, S!ReleaseDecrFails, S!Crash,
     S!Acquire, S!AcquireFails, S!Next, SP!vars,
     SP!KeyAt, SP!KeyOf, SP!Value, SP!At, SP!Passed,
     SP!Refused, SP!Returned, SP!Incr, SP!Decr, SP!Fault, SP!Call, SP!AcquireIncr,
     SP!AcquireIncrFails, SP!SetTTL, SP!AcquireExpire, SP!AcquireExpireFails,
     SP!AcquireUndo, SP!AcquireUndoFails, SP!ReleaseDecr, SP!ReleaseDecrFails,
     SP!Crash, SP!Acquire, SP!AcquireFails, SP!Next
<1> QED BY <1>2, <1>4, PTL DEF S!Spec, SP!Spec

(* The theorems about Idempotency are about the Idempotency this module uses. *)
LEMMA IdempotencySame == I!Spec => IP!Spec
<1>1. I!Init => IP!Init
  BY DEF I!Init, IP!Init
<1>2. [I!Next]_(I!vars) => [IP!Next]_(IP!vars)
  BY DEF I!vars, I!Running, I!Live, I!Claim, I!Result, I!Init, I!Goto, I!Store,
     I!Fault, I!BeginSet, I!BeginSetFails, I!Answer, I!BeginGet, I!BeginGetFails,
     I!Execute, I!FinishWrite, I!Respond, I!Finish, I!FinishFails, I!Crash, I!Tick,
     I!Begin, I!BeginFails, I!Next, IP!vars, IP!Running, IP!Live, IP!Claim,
     IP!Result, IP!Init, IP!Goto, IP!Store, IP!Fault, IP!BeginSet,
     IP!BeginSetFails, IP!Answer, IP!BeginGet, IP!BeginGetFails, IP!Execute,
     IP!FinishWrite, IP!Respond, IP!Finish, IP!FinishFails, IP!Crash, IP!Tick,
     IP!Begin, IP!BeginFails, IP!Next
<1> QED BY <1>1, <1>2, PTL DEF I!Spec, IP!Spec

(* The theorems about UsageOutbox are about the UsageOutbox this module uses. *)
LEMMA UsageOutboxSame == U!Spec => UP!Spec
<1>1. U!Init => UP!Init
  BY DEF U!Init, UP!Init
<1>2. [U!Next]_(U!vars) => [UP!Next]_(UP!vars)
  BY DEF U!vars, U!Active, U!Init, U!Goto, U!LoopRuns, U!Wedge, U!Range, U!Drain,
     U!DrainFails, U!DrainBlocks, U!FlushApplied, U!AfterRow, U!Deleted,
     U!FlushRecorded, U!FlushFails, U!XaddApplied, U!XaddRecorded, U!Write,
     U!WriteBlocks, U!Started, U!Restart, U!EmitUsage, U!EmitFails, U!Next,
     UP!vars, UP!Active, UP!Init, UP!Goto, UP!LoopRuns, UP!Wedge, UP!Range,
     UP!Drain, UP!DrainFails, UP!DrainBlocks, UP!FlushApplied, UP!AfterRow,
     UP!Deleted, UP!FlushRecorded, UP!FlushFails, UP!XaddApplied, UP!XaddRecorded,
     UP!Write, UP!WriteBlocks, UP!Started, UP!Restart, UP!EmitUsage, UP!EmitFails,
     UP!Next
<1> QED BY <1>1, <1>2, PTL DEF U!Spec, UP!Spec

(* The calls of one caller use the quota counter, the concurrency slots,    *)
(* the Idempotency-Key and the usage outbox only as those components allow: *)
(* every behaviour of the handler is one of each of them.                   *)
THEOREM UsesStores == Spec => Q!Spec /\ S!Spec /\ I!Spec /\ U!Spec
<1>1. Init => Q!Init /\ S!Init /\ I!Init /\ U!Init
  BY DEF Init
<1>2. Types /\ [Next]_vars => /\ [Q!Next]_(Q!vars) /\ [S!Next]_(S!vars)
                               /\ [I!Next]_(I!vars) /\ [U!Next]_(U!vars)
  BY StoreSteps
<1> QED BY <1>1, <1>2, TypesKept, PTL DEF Spec, Q!Spec, S!Spec, I!Spec, U!Spec

(* The constants each store is used with are ones its theorems are about. *)
LEMMA StoreConstants ==
    /\ IsFiniteSet(Request) /\ IsFiniteSet(Emission)
    /\ Allowance \subseteq Nat /\ NoQuota \notin Int
    /\ [r \in Request |-> Caller] \in [Request -> {Caller}] /\ Org \notin {Caller}
    /\ Limit \in Nat /\ MaxFaults \in Nat /\ NoKey \notin Int
    /\ 2 \in Nat /\ 1 \in Nat /\ 3 \in Nat /\ 1 < 2 /\ 2 <= 3
    /\ NoRecord \notin IP!Record
<1>1. IsFiniteSet(Unit)
  <2>1. IsFiniteSet({"call"}) /\ IsFiniteSet({"input"}) /\ IsFiniteSet({"output"})
    BY FS_Singleton
  <2>2. Unit = {"call"} \cup ({"input"} \cup {"output"})
    BY DEF Unit
  <2> QED BY <2>1, <2>2, FS_Union
<1>2. IsFiniteSet(Emission)
  BY <1>1, StoreAssumption, FS_Product DEF Emission
<1>3. NoRecord \notin IP!Record
  BY NoRecordAssumption DEF I!Record, IP!Record
<1> QED BY <1>2, <1>3, StoreAssumption

(* What is proved of the stores, as far as the handler's promises need it. *)
StoreInv ==
    /\ QP!Types /\ QP!OncePerRequest
    /\ SP!IInv
    /\ IP!IInv /\ IP!NeverRunTwice /\ IP!ClaimHeld /\ IP!Answers
    /\ UP!IInv /\ UP!Unsent

(* It holds of the stores of the handler. *)
LEMMA StoresHold == Spec => []StoreInv
<1>1. QP!IInv => QP!Types /\ QP!OncePerRequest
  BY DEF QP!IInv
<1>2. Spec => [](QP!Types /\ QP!OncePerRequest)
  <2>1. QP!Spec => []QP!IInv
    BY QP!Invariance, StoreConstants DEF QP!IsFiniteSet, IsFiniteSet
  <2> QED BY <1>1, <2>1, UsesStores, QuotaSame, PTL
<1>3. Spec => []SP!IInv
  <2>1. SP!Spec => []SP!IInv
    BY SP!Invariance, StoreConstants DEF SP!IsFiniteSet, IsFiniteSet
  <2> QED BY <2>1, UsesStores, SlotsSame, PTL
<1>4. Spec => [](IP!IInv /\ IP!NeverRunTwice /\ IP!ClaimHeld /\ IP!Answers)
  <2>1. IP!Spec => []IP!IInv
    BY IP!Invariance, StoreConstants DEF IP!IsFiniteSet, IsFiniteSet
  <2>2. IP!Spec => []IP!NeverRunTwice
    BY IP!RunOnce, StoreConstants DEF IP!IsFiniteSet, IsFiniteSet
  <2>3. IP!Spec => []IP!ClaimHeld
    BY IP!ClaimReleased, StoreConstants DEF IP!IsFiniteSet, IsFiniteSet
  <2>4. IP!Spec => []IP!Answers
    BY IP!AnsweredByResult, StoreConstants DEF IP!IsFiniteSet, IsFiniteSet
  <2> QED BY <2>1, <2>2, <2>3, <2>4, UsesStores, IdempotencySame, PTL
<1>5. Spec => [](UP!IInv /\ UP!Unsent)
  <2>1. UP!Spec => []UP!IInv
    BY UP!Invariance, StoreConstants DEF UP!IsFiniteSet, IsFiniteSet
  <2>2. UP!Spec => []UP!Unsent
    BY UP!NothingEarly, StoreConstants DEF UP!IsFiniteSet, IsFiniteSet
  <2> QED BY <2>1, <2>2, UsesStores, UsageOutboxSame, PTL
<1> QED BY <1>2, <1>3, <1>4, <1>5, PTL DEF StoreInv

----------------------------------------------------------------------------
(* How a store moves the request that uses it *)

(* The stores' positions, as functions. *)
Positions ==
    /\ qphase \in [Request -> QP!Phase] /\ sstep \in [Request -> SP!Step]
    /\ istep \in [Request -> IP!Live \cup IP!Final] /\ at \in [Emission -> UP!At]
    /\ slevel \in [Request -> SP!Level]

(* They are. *)
LEMMA PositionsTyped == StoreInv => Positions
BY DEF StoreInv, Positions, QP!Types, SP!IInv, SP!TypeOK, IP!IInv, IP!TypeOK, UP!IInv, UP!TypeOK

(* A step of reserve_quota or release_quota, or the end of a billable call, *)
(* takes only its own request on.                                           *)
LEMMA QuotaMoves ==
    ASSUME Positions, NEW r \in Request
    PROVE  /\ Q!Reserve(r) \/ Q!ReserveFails(r) =>
                /\ qphase[r] \in {"idle", "decr", "undo"}
                /\ qphase'[r] \in {"decr", "undo", "granted", "denied"}
                /\ \A q \in Request \ {r} : qphase'[q] = qphase[q]
           /\ Q!Consume(r) =>
                /\ qphase[r] = "granted" /\ qphase'[r] = "spent"
                /\ \A q \in Request \ {r} : qphase'[q] = qphase[q]
           /\ Q!Release(r) \/ Q!ReleaseFails(r) =>
                /\ qphase[r] \in {"granted", "incr"} /\ qphase'[r] \in {"incr", "released"}
                /\ \A q \in Request \ {r} : qphase'[q] = qphase[q]
<1> USE DEF Positions, Q!Goto
<1>1. Q!Reserve(r) \/ Q!ReserveFails(r) =>
        /\ qphase[r] \in {"idle", "decr", "undo"}
        /\ \E p \in {"decr", "undo", "granted", "denied"} : qphase' = [qphase EXCEPT ![r] = p]
  BY DEF Q!Reserve, Q!ReserveFails, Q!ReserveGet, Q!ReserveGetFails, Q!ReserveDecr,
     Q!ReserveDecrFails, Q!UndoIncr, Q!UndoIncrFails
<1>2. Q!Consume(r) => qphase[r] = "granted" /\ qphase' = [qphase EXCEPT ![r] = "spent"]
  BY DEF Q!Consume
<1>3. Q!Release(r) \/ Q!ReleaseFails(r) =>
        /\ qphase[r] \in {"granted", "incr"}
        /\ \E p \in {"incr", "released"} : qphase' = [qphase EXCEPT ![r] = p]
  BY DEF Q!Release, Q!ReleaseFails, Q!ReleaseGet, Q!ReleaseGetFails, Q!ReleaseIncr,
     Q!ReleaseIncrFails
<1> QED BY <1>1, <1>2, <1>3

(* So does a step on the slots: an acquire ends with the slot, without it,  *)
(* or with the subject's slot to give back.                                 *)
LEMMA SlotMoves ==
    ASSUME Positions, NEW r \in Request
    PROVE  /\ S!Call(r) => sstep[r] = "ready" /\ sstep'[r] = "incr"
           /\ S!Acquire(r) \/ S!AcquireFails(r) =>
                /\ sstep[r] \in {"incr", "expire", "undo"}
                /\ sstep'[r] \in {"incr", "expire", "undo", "hold", "back", "ready"}
           /\ S!ReleaseDecr(r) \/ S!ReleaseDecrFails(r) =>
                /\ sstep[r] \in {"back", "hold", "decr"}
                /\ sstep'[r] = IF sstep[r] = "hold" THEN "decr" ELSE "ready"
           /\ (\/ S!Call(r) \/ S!Acquire(r) \/ S!AcquireFails(r)
               \/ S!ReleaseDecr(r) \/ S!ReleaseDecrFails(r)) =>
                \A q \in Request \ {r} : sstep'[q] = sstep[q]
<1> USE DEF Positions, S!At
<1>1. S!Call(r) => sstep[r] = "ready" /\ sstep' = [sstep EXCEPT ![r] = "incr"]
  BY DEF S!Call
<1>2. S!Acquire(r) \/ S!AcquireFails(r) =>
        /\ sstep[r] \in {"incr", "expire", "undo"}
        /\ \E p \in {"incr", "expire", "undo", "hold", "back", "ready"} :
               sstep' = [sstep EXCEPT ![r] = p]
  BY DEF S!Acquire, S!AcquireFails, S!AcquireIncr, S!AcquireIncrFails, S!AcquireExpire,
     S!AcquireExpireFails, S!AcquireUndo, S!AcquireUndoFails, S!Passed, S!Refused
<1>3. S!ReleaseDecr(r) \/ S!ReleaseDecrFails(r) =>
        /\ sstep[r] \in {"back", "hold", "decr"}
        /\ sstep' = [sstep EXCEPT ![r] = IF sstep[r] = "hold" THEN "decr" ELSE "ready"]
  BY DEF S!ReleaseDecr, S!ReleaseDecrFails, S!Returned
<1> QED BY <1>1, <1>2, <1>3

(* So does a step of the idempotency protocol. *)
LEMMA IdemMoves ==
    ASSUME Positions, NEW r \in Request
    PROVE  /\ I!Begin(r) \/ I!BeginFails(r) =>
                /\ istep[r] \in {"set", "get"}
                /\ istep'[r] \in {"run", "get", "mismatch", "in_progress", "replay"}
           /\ I!Execute(r) => istep[r] = "run" /\ istep'[r] \in {"ok", "bad"}
           /\ I!Finish(r) \/ I!FinishFails(r) =>
                /\ istep[r] \in {"ok", "bad"}
                /\ istep'[r] = IF istep[r] = "ok" THEN "done" ELSE "failed"
           /\ (\/ I!Begin(r) \/ I!BeginFails(r) \/ I!Execute(r)
               \/ I!Finish(r) \/ I!FinishFails(r)) =>
                \A q \in Request \ {r} : istep'[q] = istep[q]
<1> USE DEF Positions, I!Goto
<1>1. I!Begin(r) \/ I!BeginFails(r) =>
        /\ istep[r] \in {"set", "get"}
        /\ \E p \in {"run", "get", "mismatch", "in_progress", "replay"} :
               istep' = [istep EXCEPT ![r] = p]
  BY DEF I!Begin, I!BeginFails, I!BeginSet, I!BeginSetFails, I!BeginGet, I!BeginGetFails,
     I!Answer
<1>2. I!Execute(r) => /\ istep[r] = "run"
                      /\ \E p \in {"ok", "bad"} : istep' = [istep EXCEPT ![r] = p]
  BY DEF I!Execute
<1>3. I!Finish(r) \/ I!FinishFails(r) =>
        /\ istep[r] \in {"ok", "bad"}
        /\ istep' = [istep EXCEPT ![r] = IF istep[r] = "ok" THEN "done" ELSE "failed"]
  BY DEF I!Finish, I!FinishFails, I!Respond
<1> QED BY <1>1, <1>2, <1>3

(* So does a step of emit_usage, but for the rows its drain flushes. *)
LEMMA UsageMoves ==
    ASSUME Positions, NEW e \in Emission, U!EmitUsage(e) \/ U!EmitFails(e)
    PROVE  /\ blocked' \subseteq blocked \cup {e}
           /\ \A x \in Emission \ {e} : at'[x] = at[x]
<1> USE DEF Positions, U!Goto, U!Wedge
<1>1. at' = at \/ \E p \in UP!At : at' = [at EXCEPT ![e] = p]
  BY DEF U!EmitUsage, U!EmitFails, U!Drain, U!DrainBlocks, U!FlushApplied, U!FlushRecorded,
     U!XaddApplied, U!XaddRecorded, U!DrainFails, U!FlushFails, U!Write, U!WriteBlocks,
     U!AfterRow, UP!At, UP!Active
<1>2. blocked' = blocked \/ blocked' = {e}
  BY DEF U!EmitUsage, U!EmitFails, U!Drain, U!DrainBlocks, U!FlushApplied, U!FlushRecorded,
     U!XaddApplied, U!XaddRecorded, U!DrainFails, U!FlushFails, U!Write, U!WriteBlocks
<1> QED BY <1>1, <1>2

(* Once the result of a keyed call is known, its attempt is about to finish *)
(* with or without one.                                                     *)
LEMMA RanMoves ==
    ASSUME Positions, NEW r \in Request, NEW ok \in BOOLEAN, Ran(r, ok)
    PROVE  /\ input[r].keyed => istep[r] = "run" /\ istep'[r] = IF ok THEN "ok" ELSE "bad"
           /\ ~input[r].keyed => istep'[r] = istep[r]
           /\ \A q \in Request \ {r} : istep'[q] = istep[q]
BY IdemMoves DEF Ran, idemVars

----------------------------------------------------------------------------
(* A request stays placed *)

(* What a call asks for and which endpoint it came to never change. *)
LEMMA SameCall ==
    ASSUME UNCHANGED <<input, endpoint>>, NEW r \in Request
    PROVE  /\ input'[r] = input[r] /\ Capped(r)' = Capped(r)
           /\ RagBody(r)' = RagBody(r) /\ ByokModel(r)' = ByokModel(r)
BY DEF Capped, RagBody, ByokModel

(* A request whose own state is untouched stays where it is. *)
LEMMA UntouchedPlaced ==
    ASSUME Types, NEW q \in Request, Placed(q), UNCHANGED <<input, endpoint>>,
           stage'[q] = stage[q], outcome'[q] = outcome[q], key'[q] = key[q], usage'[q] = usage[q],
           qphase'[q] = qphase[q], sstep'[q] = sstep[q], istep'[q] = istep[q],
           \A u \in Unit : /\ at'[<<q, u>>] = at[<<q, u>>]
                           /\ <<q, u>> \in blocked' => <<q, u>> \in blocked
    PROVE  Placed(q)'
<1>1. /\ input'[q] = input[q] /\ endpoint' = endpoint /\ Capped(q)' = Capped(q)
      /\ RagBody(q)' = RagBody(q) /\ ByokModel(q)' = ByokModel(q)
  BY SameCall
<1>2. FlowAt(q)'
  BY <1>1 DEF Placed, FlowAt
<1>3. KeyAt(q)'
  BY <1>1 DEF Placed, KeyAt
<1>4. QuotaAt(q)'
  BY <1>1 DEF Placed, QuotaAt
<1>5. SlotAt(q)'
  BY <1>1 DEF Placed, SlotAt
<1>6. IdemAt(q)'
  BY <1>1 DEF Placed, IdemAt
<1>7. UsageAt(q)'
  BY <1>1 DEF Placed, UsageAt, Unit, Types
<1> QED BY <1>2, <1>3, <1>4, <1>5, <1>6, <1>7 DEF Placed

(* A request that has not reached its emissions has none. *)
LEMMA NothingEmitted ==
    ASSUME NEW r \in Request, UsageAt(r), UNCHANGED usageVars, UNCHANGED <<input, endpoint>>,
           stage[r] \in Early \cup {"finish"},
           stage'[r] \in {"release", "answered"} => outcome'[r] # "ok" \/ input[r].test
    PROVE  UsageAt(r)'
BY DEF UsageAt, usageVars, Early

(* The steps that use no store. *)
LEMMA PlainPlaced ==
    ASSUME Types, NEW r \in Request, Placed(r),
           \/ Reject(r) \/ TranslationRaises(r) \/ Accept(r) \/ Reveal(r) \/ RevealRaises(r)
           \/ ForwardFails(r) \/ ForwardRaises(r)
    PROVE  Placed(r)'
<1>1. /\ UNCHANGED <<qphase, sstep, istep>> /\ UNCHANGED usageVars /\ UNCHANGED <<input, endpoint>>
      /\ stage[r] \in Early
  BY DEF Reject, TranslationRaises, Accept, Reveal, RevealRaises, ForwardFails, ForwardRaises,
     Resume, quotaVars, slotVars, idemVars, Early
<1>2. /\ input'[r] = input[r] /\ endpoint' = endpoint /\ Capped(r)' = Capped(r)
      /\ RagBody(r)' = RagBody(r) /\ ByokModel(r)' = ByokModel(r)
  BY <1>1, SameCall
<1> USE <1>1, <1>2 DEF Placed, Types
<1>3. CASE Reject(r) \/ TranslationRaises(r) \/ RevealRaises(r) \/ ForwardRaises(r)
  <2>1. /\ key' = key /\ usage' = usage /\ stage[r] \in {"arrive", "reveal", "forward"}
        /\ stage'[r] = IF stage[r] = "forward" THEN AfterEmit(r) ELSE "answered"
        /\ outcome'[r] \in {"error", "raised"} /\ (stage[r] # "arrive" => outcome'[r] = "raised")
    BY <1>3 DEF Reject, TranslationRaises, RevealRaises, ForwardRaises, Resume, Decide, Move, got
  <2>2. FlowAt(r)' /\ KeyAt(r)'
    BY <2>1 DEF FlowAt, KeyAt, AfterEmit, Early
  <2>3. QuotaAt(r)' /\ SlotAt(r)'
    BY <2>1 DEF QuotaAt, SlotAt, FlowAt, AfterEmit, Capped
  <2>4. IdemAt(r)'
    BY <2>1 DEF IdemAt, AfterEmit, Early
  <2>5. UsageAt(r)'
    BY <2>1, NothingEmitted
  <2> QED BY <2>2, <2>3, <2>4, <2>5
<1>4. CASE Accept(r)
  <2>1. /\ key' = key /\ usage' = usage /\ outcome' = outcome /\ stage[r] = "arrive"
        /\ stage'[r] = IF input[r].keyed THEN "claim" ELSE AfterClaim(r)
        /\ RagBody(r).kind = "query"
    BY <1>4 DEF Accept, Resume, Goto, Move, got
  <2>2. FlowAt(r)'
    BY <2>1 DEF FlowAt, AfterClaim, AfterReveal, Early, Capped
  <2>3. KeyAt(r)'
    BY <2>1 DEF FlowAt, KeyAt, AfterClaim, AfterReveal, Early
  <2>4. QuotaAt(r)' /\ SlotAt(r)'
    BY <2>1 DEF QuotaAt, SlotAt, AfterClaim, AfterReveal, Capped
  <2>5. IdemAt(r)'
    BY <2>1 DEF IdemAt, FlowAt, AfterClaim, AfterReveal, Early
  <2>6. UsageAt(r)'
    BY <2>1, NothingEmitted DEF AfterClaim, AfterReveal
  <2> QED BY <2>2, <2>3, <2>4, <2>5, <2>6
<1>5. CASE Reveal(r)
  <2>1. /\ key'[r] \in {"key", "null"} /\ usage' = usage /\ outcome' = outcome
        /\ stage[r] = "reveal" /\ stage'[r] = AfterReveal(r)
    BY <1>5 DEF Reveal, Resume, Move
  <2>2. FlowAt(r)' /\ KeyAt(r)'
    BY <2>1 DEF FlowAt, KeyAt, AfterReveal, Early, Capped
  <2>3. QuotaAt(r)' /\ SlotAt(r)'
    BY <2>1 DEF QuotaAt, SlotAt, AfterReveal, Capped
  <2>4. IdemAt(r)'
    BY <2>1 DEF IdemAt, FlowAt, AfterReveal, Early
  <2>5. UsageAt(r)'
    BY <2>1, NothingEmitted DEF AfterReveal
  <2> QED BY <2>2, <2>3, <2>4, <2>5
<1>6. CASE ForwardFails(r)
  <2>1. /\ key' = key /\ usage' = usage /\ outcome' = outcome
        /\ stage[r] = "forward" /\ stage'[r] = "refund"
    BY <1>6 DEF ForwardFails, Resume, Goto, Move, got
  <2>2. FlowAt(r)' /\ KeyAt(r)' /\ QuotaAt(r)' /\ SlotAt(r)' /\ IdemAt(r)'
    BY <2>1 DEF FlowAt, KeyAt, QuotaAt, SlotAt, IdemAt, Early
  <2>3. UsageAt(r)'
    BY <2>1, NothingEmitted
  <2> QED BY <2>2, <2>3
<1> QED BY <1>3, <1>4, <1>5, <1>6

(* What build_rag_query and build_rag_search_query make of a body they do   *)
(* not reject.                                                              *)
LEMMA Contract ==
    ASSUME Types, NEW r \in Request, RagBody(r).kind = "query"
    PROVE  /\ endpoint = "search" => RagBody(r).mode = "search" /\ RagBody(r).model = Nil
           /\ endpoint = "answers" => /\ RagBody(r).mode = "answer"
                                      /\ RagBody(r).model = input[r].body.model
                                      /\ ~input[r].body.stream
<1>1. Unsupported.kind # "query"
  BY DEF Unsupported
<1>2. ASSUME NEW model, NEW mode, NEW size, Query(model, mode, size).kind = "query"
      PROVE  Query(model, mode, size).mode = mode /\ Query(model, mode, size).model = model
  BY <1>2 DEF Query, Raises
<1>3. endpoint = "search" => RagBody(r) = Query(Nil, "search", input[r].body.size)
  BY <1>1 DEF RagBody, BuildRagSearchQuery
<1>4. endpoint = "answers" => /\ RagBody(r) = Query(input[r].body.model, "answer", input[r].body.size)
                              /\ ~input[r].body.stream
  BY <1>1 DEF RagBody, BuildRagQuery
<1> QED BY <1>2, <1>3, <1>4

(* The steps that end the call with an error or a canned answer before it   *)
(* has reserved anything.                                                   *)
LEMMA EarlyEndPlaced ==
    ASSUME Types, Positions, NEW r \in Request, Placed(r), RevealFails(r) \/ Canned(r)
    PROVE  Placed(r)'
<1> DEFINE ok == stage[r] = "canned"
<1>1. /\ UNCHANGED <<qphase, sstep>> /\ UNCHANGED usageVars /\ UNCHANGED <<input, endpoint>>
      /\ stage[r] \in {"reveal", "canned"} /\ Ran(r, ok)
      /\ stage'[r] = "finish" /\ outcome'[r] = (IF ok THEN "ok" ELSE "error")
      /\ key' = key /\ usage' = usage
  BY DEF RevealFails, Canned, FailEarly, Resume, Decide, Move, got, quotaVars, slotVars, Types
<1>2. /\ input'[r] = input[r] /\ endpoint' = endpoint /\ Capped(r)' = Capped(r)
      /\ RagBody(r)' = RagBody(r) /\ ByokModel(r)' = ByokModel(r)
  BY <1>1, SameCall
<1>3. /\ input[r].keyed => istep'[r] = IF ok THEN "ok" ELSE "bad"
      /\ ~input[r].keyed => istep'[r] = istep[r]
  BY <1>1, RanMoves
<1> USE <1>1, <1>2 DEF Placed
<1>4. FlowAt(r)' /\ KeyAt(r)'
  BY DEF FlowAt, KeyAt, Early
<1>5. QuotaAt(r)' /\ SlotAt(r)'
  BY DEF QuotaAt, SlotAt, FlowAt, Capped
<1>6. IdemAt(r)'
  BY <1>3 DEF IdemAt, FlowAt, Early
<1>7. UsageAt(r)'
  BY NothingEmitted DEF Early
<1> QED BY <1>4, <1>5, <1>6, <1>7

(* idempotency_begin. *)
LEMMA ClaimPlaced ==
    ASSUME Types, Positions, NEW r \in Request, Placed(r), Claim(r)
    PROVE  Placed(r)'
<1>1. /\ UNCHANGED <<qphase, sstep, key, usage>> /\ UNCHANGED usageVars
      /\ UNCHANGED <<input, endpoint>> /\ stage[r] = "claim"
      /\ \/ istep'[r] = "get" /\ stage'[r] = "claim" /\ outcome'[r] = "none"
         \/ istep'[r] = "run" /\ stage'[r] = AfterClaim(r) /\ outcome'[r] = "none"
         \/ istep'[r] = "replay" /\ stage'[r] = "answered" /\ outcome'[r] = "replay"
         \/ istep'[r] \in {"mismatch", "in_progress"} /\ stage'[r] = "answered"
            /\ outcome'[r] = "error"
  BY DEF Claim, Resume, Wait, Goto, Decide, Move, got, quotaVars, slotVars, Types, Placed,
     FlowAt, Early
<1>2. /\ input'[r] = input[r] /\ endpoint' = endpoint /\ Capped(r)' = Capped(r)
      /\ RagBody(r)' = RagBody(r) /\ ByokModel(r)' = ByokModel(r)
  BY <1>1, SameCall
<1>3. input[r].keyed
  BY <1>1 DEF Placed, FlowAt
<1> USE <1>1, <1>2 DEF Placed
<1>4. FlowAt(r)' /\ KeyAt(r)'
  BY DEF FlowAt, KeyAt, AfterClaim, AfterReveal, Early, Capped
<1>5. QuotaAt(r)' /\ SlotAt(r)'
  BY DEF QuotaAt, SlotAt, AfterClaim, AfterReveal, Capped
<1>6. IdemAt(r)'
  BY <1>3 DEF IdemAt, AfterClaim, AfterReveal, Early
<1>7. UsageAt(r)'
  BY NothingEmitted DEF Early, AfterClaim, AfterReveal
<1> QED BY <1>4, <1>5, <1>6, <1>7

(* _acquire_concurrency_slots. *)
LEMMA AcquirePlaced ==
    ASSUME Types, Positions, NEW r \in Request, Placed(r), Acquire(r)
    PROVE  Placed(r)'
<1>1. /\ UNCHANGED <<qphase, key, usage>> /\ UNCHANGED usageVars
      /\ UNCHANGED <<input, endpoint>> /\ stage[r] = "acquire"
      /\ \/ /\ sstep'[r] = "ready" /\ Ran(r, FALSE)
            /\ stage'[r] = "finish" /\ outcome'[r] = "error"
         \/ /\ sstep'[r] = "hold" /\ istep' = istep
            /\ stage'[r] = "reserve" /\ outcome'[r] = "none"
         \/ /\ sstep'[r] \notin {"ready", "hold"} /\ istep' = istep
            /\ stage'[r] = "acquire" /\ outcome'[r] = "none"
  BY DEF Acquire, FailEarly, Resume, Wait, Goto, Decide, Move, got, quotaVars, idemVars,
     Types, Placed, FlowAt, Early
<1>2. /\ input'[r] = input[r] /\ endpoint' = endpoint /\ Capped(r)' = Capped(r)
      /\ RagBody(r)' = RagBody(r) /\ ByokModel(r)' = ByokModel(r)
  BY <1>1, SameCall
<1>3. sstep'[r] \in {"incr", "expire", "undo", "hold", "back", "ready"}
  BY SlotMoves DEF Acquire, SlotStep, Try
<1>4. Ran(r, FALSE) => /\ input[r].keyed => istep'[r] = "bad"
                       /\ ~input[r].keyed => istep'[r] = istep[r]
  BY RanMoves
<1> USE <1>1, <1>2 DEF Placed
<1>5. FlowAt(r)' /\ KeyAt(r)'
  BY DEF FlowAt, KeyAt, Early, Capped
<1>6. QuotaAt(r)' /\ SlotAt(r)'
  BY <1>3 DEF QuotaAt, SlotAt, FlowAt, Capped
<1>7. IdemAt(r)'
  BY <1>4 DEF IdemAt, FlowAt, Early
<1>8. UsageAt(r)'
  BY NothingEmitted DEF Early
<1> QED BY <1>5, <1>6, <1>7, <1>8

(* reserve_quota. *)
LEMMA ReservePlaced ==
    ASSUME Types, Positions, NEW r \in Request, Placed(r), Reserve(r)
    PROVE  Placed(r)'
<1>1. /\ UNCHANGED <<sstep, key, usage>> /\ UNCHANGED usageVars
      /\ UNCHANGED <<input, endpoint>> /\ stage[r] = "reserve"
      /\ \/ /\ qphase'[r] = "denied" /\ Ran(r, FALSE)
            /\ stage'[r] = "finish" /\ outcome'[r] = "error"
         \/ /\ qphase'[r] = "granted" /\ istep' = istep
            /\ stage'[r] = "forward" /\ outcome'[r] = "none"
         \/ /\ qphase'[r] \in {"decr", "undo"} /\ istep' = istep
            /\ stage'[r] = "reserve" /\ outcome'[r] = "none"
  BY DEF Reserve, Resume, Wait, Goto, Decide, Move, got, slotVars, idemVars,
     Types, Placed, FlowAt, Early, Q!Reserving
<1>2. /\ input'[r] = input[r] /\ endpoint' = endpoint /\ Capped(r)' = Capped(r)
      /\ RagBody(r)' = RagBody(r) /\ ByokModel(r)' = ByokModel(r)
  BY <1>1, SameCall
<1>3. Ran(r, FALSE) => /\ input[r].keyed => istep'[r] = "bad"
                       /\ ~input[r].keyed => istep'[r] = istep[r]
  BY RanMoves
<1> USE <1>1, <1>2 DEF Placed
<1>4. FlowAt(r)' /\ KeyAt(r)'
  BY DEF FlowAt, KeyAt, Early
<1>5. QuotaAt(r)' /\ SlotAt(r)'
  BY DEF QuotaAt, SlotAt, FlowAt, Capped
<1>6. IdemAt(r)'
  BY <1>3 DEF IdemAt, FlowAt, Early
<1>7. UsageAt(r)'
  BY NothingEmitted DEF Early
<1> QED BY <1>4, <1>5, <1>6, <1>7

(* A 2xx from upstream: the unit is spent, and token use is only of a call  *)
(* that names a model.                                                      *)
LEMMA ForwardPlaced ==
    ASSUME Types, Positions, NEW r \in Request, Placed(r), Forward(r)
    PROVE  Placed(r)'
<1>1. /\ UNCHANGED <<sstep, key>> /\ UNCHANGED usageVars /\ UNCHANGED <<input, endpoint>>
      /\ stage[r] = "forward" /\ stage'[r] = "finish" /\ outcome'[r] = "ok"
      /\ Ran(r, TRUE) /\ Q!Consume(r)
  BY DEF Forward, Resume, Move, slotVars, Types
<1>2. /\ input'[r] = input[r] /\ endpoint' = endpoint /\ Capped(r)' = Capped(r)
      /\ RagBody(r)' = RagBody(r) /\ ByokModel(r)' = ByokModel(r)
  BY <1>1, SameCall
<1>3. /\ qphase'[r] = "spent"
      /\ input[r].keyed => istep'[r] = "ok"
      /\ ~input[r].keyed => istep'[r] = istep[r]
  BY <1>1, RanMoves, QuotaMoves
<1>4. usage'[r] # {} => endpoint = "answers"
  <2>1. PICK t \in SUBSET {"input", "output"} :
            usage' = [usage EXCEPT ![r] = PublicUsage(RagBody(r).mode, t)]
    BY DEF Forward
  <2>2. usage'[r] # {} => RagBody(r).mode = "answer"
    BY <2>1 DEF PublicUsage, Types
  <2>3. RagBody(r).mode = "answer" => endpoint = "answers"
    BY <1>1, Contract DEF Placed, FlowAt, Types
  <2> QED BY <2>2, <2>3
<1> USE <1>1, <1>2, <1>3 DEF Placed
<1>5. FlowAt(r)' /\ KeyAt(r)'
  BY <1>4 DEF FlowAt, KeyAt, Early
<1>6. QuotaAt(r)' /\ SlotAt(r)'
  BY DEF QuotaAt, SlotAt, FlowAt, Capped
<1>7. IdemAt(r)'
  BY DEF IdemAt, FlowAt, Early
<1>8. UsageAt(r)'
  BY NothingEmitted DEF Early
<1> QED BY <1>5, <1>6, <1>7, <1>8

(* release_quota. *)
LEMMA RefundPlaced ==
    ASSUME Types, Positions, NEW r \in Request, Placed(r), Refund(r)
    PROVE  Placed(r)'
<1>1. /\ UNCHANGED <<sstep, key, usage>> /\ UNCHANGED usageVars
      /\ UNCHANGED <<input, endpoint>> /\ stage[r] = "refund"
      /\ \/ /\ qphase'[r] = "released" /\ Ran(r, FALSE)
            /\ stage'[r] = "finish" /\ outcome'[r] = "error"
         \/ /\ qphase'[r] # "released" /\ istep' = istep
            /\ stage'[r] = "refund" /\ outcome'[r] = "none"
  BY DEF Refund, Resume, Wait, Decide, Move, got, slotVars, idemVars, Types, Placed, FlowAt, Early
<1>2. /\ input'[r] = input[r] /\ endpoint' = endpoint /\ Capped(r)' = Capped(r)
      /\ RagBody(r)' = RagBody(r) /\ ByokModel(r)' = ByokModel(r)
  BY <1>1, SameCall
<1>3. qphase'[r] \in {"incr", "released"}
  BY QuotaMoves DEF Refund, Try
<1>4. Ran(r, FALSE) => /\ input[r].keyed => istep'[r] = "bad"
                       /\ ~input[r].keyed => istep'[r] = istep[r]
  BY RanMoves
<1> USE <1>1, <1>2 DEF Placed
<1>5. FlowAt(r)' /\ KeyAt(r)'
  BY DEF FlowAt, KeyAt, Early
<1>6. QuotaAt(r)' /\ SlotAt(r)'
  BY <1>3 DEF QuotaAt, SlotAt, FlowAt, Capped
<1>7. IdemAt(r)'
  BY <1>4 DEF IdemAt, FlowAt, Early
<1>8. UsageAt(r)'
  BY NothingEmitted DEF Early
<1> QED BY <1>5, <1>6, <1>7, <1>8

(* idempotency_finish, and what follows it. *)
LEMMA FinishPlaced ==
    ASSUME Types, Positions, NEW r \in Request, Placed(r), Finish(r)
    PROVE  Placed(r)'
<1>1. /\ UNCHANGED <<qphase, sstep, key, usage, outcome>> /\ UNCHANGED usageVars
      /\ UNCHANGED <<input, endpoint>> /\ stage[r] = "finish" /\ stage'[r] = AfterFinish(r)
  BY DEF Finish, Resume, Goto, Move, got, quotaVars, slotVars, Types
<1>2. /\ input'[r] = input[r] /\ endpoint' = endpoint /\ Capped(r)' = Capped(r)
      /\ RagBody(r)' = RagBody(r) /\ ByokModel(r)' = ByokModel(r)
  BY <1>1, SameCall
<1>3. /\ input[r].keyed => istep'[r] = IF istep[r] = "ok" THEN "done" ELSE "failed"
      /\ ~input[r].keyed => istep'[r] = istep[r]
  BY IdemMoves DEF Finish, Try, idemVars
<1> USE <1>1, <1>2, <1>3 DEF Placed
<1>4. FlowAt(r)' /\ KeyAt(r)'
  BY DEF FlowAt, KeyAt, AfterFinish, Early
<1>5. QuotaAt(r)' /\ SlotAt(r)'
  BY DEF QuotaAt, SlotAt, FlowAt, AfterFinish, Capped
<1>6. IdemAt(r)'
  BY DEF IdemAt, FlowAt, QuotaAt, AfterFinish, Early
<1>7. UsageAt(r)'
  BY NothingEmitted DEF AfterFinish
<1> QED BY <1>4, <1>5, <1>6, <1>7

(* What emit_usage runs for next is due; when nothing is, all of it has     *)
(* returned.                                                                *)
LEMMA DueUnits ==
    ASSUME Types, NEW r \in Request, UsageAt(r)
    PROVE  /\ Due(r) \subseteq {"call"} \cup usage[r] /\ Due(r) \subseteq Unit
           /\ Due(r) = {} => \A u \in {"call"} \cup usage[r] : at[<<r, u>>] \in {"done", "lost"}
<1>1. \A u \in Unit : Emitting(r, u) => u \in {"call"} \cup usage[r]
  BY DEF UsageAt, Emitting
<1>2. usage[r] \subseteq Unit
  BY DEF Types
<1> QED BY <1>1, <1>2 DEF Due, Emitted, Unit

(* emit_usage, and its last return. *)
LEMMA EmitPlaced ==
    ASSUME Types, Positions, NEW r \in Request, Placed(r), EmitUsage(r) \/ EmitReturns(r)
    PROVE  Placed(r)'
<1>1. /\ UNCHANGED <<qphase, sstep, istep, key, usage, outcome, input, endpoint>>
      /\ stage[r] = "emit"
      /\ stage'[r] = IF EmitReturns(r) THEN AfterEmit(r) ELSE "emit"
  <2>1. CASE EmitReturns(r)
    BY <2>1 DEF EmitReturns, Resume, Goto, Move, got, quotaVars, slotVars, idemVars, Types
  <2>2. CASE EmitUsage(r) /\ ~EmitReturns(r)
    BY <2>2 DEF EmitUsage, Wait, got, quotaVars, slotVars, idemVars
  <2> QED BY <2>1, <2>2
<1>2. /\ input'[r] = input[r] /\ endpoint' = endpoint /\ Capped(r)' = Capped(r)
      /\ RagBody(r)' = RagBody(r) /\ ByokModel(r)' = ByokModel(r)
  BY <1>1, SameCall
<1>3. UsageAt(r)
  BY DEF Placed
<1> USE <1>1, <1>2 DEF Placed
<1>4. FlowAt(r)' /\ KeyAt(r)'
  BY DEF FlowAt, KeyAt, AfterEmit, Early
<1>5. QuotaAt(r)' /\ SlotAt(r)'
  BY DEF QuotaAt, SlotAt, FlowAt, AfterEmit, Capped
<1>6. IdemAt(r)'
  BY DEF IdemAt, FlowAt, AfterEmit, Early
<1>7. UsageAt(r)'
  <2>1. CASE EmitReturns(r)
    <3>1. at' = at /\ blocked' = {} /\ Due(r) = {} /\ stage'[r] \in {"release", "answered"}
      BY <2>1, Stages DEF EmitReturns, Resume, LoopRuns, usageVars
    <3> QED BY <1>3, <3>1, DueUnits DEF UsageAt
  <2>2. CASE EmitUsage(r) /\ ~EmitReturns(r)
    <3>1. PICK u \in Due(r) : U!EmitUsage(<<r, u>>) \/ U!EmitFails(<<r, u>>)
      BY <2>2 DEF EmitUsage, Try
    <3>2. u \in {"call"} \cup usage[r] /\ <<r, u>> \in Emission
      BY <1>3, DueUnits DEF Emission
    <3>3. \A v \in Unit : v # u => /\ at'[<<r, v>>] = at[<<r, v>>]
                                   /\ <<r, v>> \in blocked' => <<r, v>> \in blocked
      BY <3>1, <3>2, UsageMoves DEF Emission
    <3> QED BY <1>3, <2>2, <3>2, <3>3 DEF UsageAt, FlowAt
  <2> QED BY <2>1, <2>2
<1> QED BY <1>4, <1>5, <1>6, <1>7

(* The finally block. *)
LEMMA ReleasePlaced ==
    ASSUME Types, Positions, NEW r \in Request, Placed(r), ReleaseSlots(r)
    PROVE  Placed(r)'
<1>1. /\ UNCHANGED <<qphase, istep, key, usage, outcome, at, blocked, input, endpoint>>
      /\ stage[r] = "release"
      /\ stage'[r] = IF sstep'[r] = "ready" THEN "answered" ELSE "release"
  BY DEF ReleaseSlots, Resume, Wait, Goto, Move, got, quotaVars, idemVars, usageVars, Types
<1>2. /\ input'[r] = input[r] /\ endpoint' = endpoint /\ Capped(r)' = Capped(r)
      /\ RagBody(r)' = RagBody(r) /\ ByokModel(r)' = ByokModel(r)
  BY <1>1, SameCall
<1>3. sstep'[r] = IF sstep[r] = "hold" THEN "decr" ELSE "ready"
  BY SlotMoves DEF ReleaseSlots, Try
<1> USE <1>1, <1>2, <1>3 DEF Placed
<1>4. FlowAt(r)' /\ KeyAt(r)'
  BY DEF FlowAt, KeyAt, Early
<1>5. QuotaAt(r)' /\ SlotAt(r)'
  BY DEF QuotaAt, SlotAt, FlowAt, Capped
<1>6. IdemAt(r)'
  BY DEF IdemAt, FlowAt, Early
<1>7. UsageAt(r)'
  BY DEF UsageAt
<1> QED BY <1>4, <1>5, <1>6, <1>7

(* A step of one request keeps all of them placed. *)
LEMMA StepPlaced ==
    ASSUME Types, Positions, NEW r \in Request, \A q \in Request : Placed(q), Step(r)
    PROVE  \A q \in Request : Placed(q)'
<1>1. Placed(r)'
  BY PlainPlaced, EarlyEndPlaced, ClaimPlaced, AcquirePlaced, ReservePlaced, ForwardPlaced,
     RefundPlaced, FinishPlaced, EmitPlaced, ReleasePlaced DEF Step
<1>2. ASSUME NEW q \in Request \ {r}
      PROVE  Placed(q)'
  <2>1. /\ stage'[q] = stage[q] /\ outcome'[q] = outcome[q]
        /\ key'[q] = key[q] /\ usage'[q] = usage[q] /\ UNCHANGED <<input, endpoint>>
    BY StepTyped
  <2>2. qphase'[q] = qphase[q]
    BY HandlerSteps, QuotaMoves DEF quotaVars
  <2>3. sstep'[q] = sstep[q]
    BY HandlerSteps, SlotMoves DEF slotVars
  <2>4. istep'[q] = istep[q]
    BY HandlerSteps, IdemMoves DEF idemVars
  <2>5. \A v \in Unit : /\ at'[<<q, v>>] = at[<<q, v>>]
                        /\ <<q, v>> \in blocked' => <<q, v>> \in blocked
    <3>1. CASE UNCHANGED usageVars
      BY <3>1 DEF usageVars
    <3>2. ASSUME NEW u \in Unit, U!EmitUsage(<<r, u>>) \/ U!EmitFails(<<r, u>>)
          PROVE  \A v \in Unit : /\ at'[<<q, v>>] = at[<<q, v>>]
                                 /\ <<q, v>> \in blocked' => <<q, v>> \in blocked
      BY <3>2, UsageMoves DEF Emission
    <3> QED BY <3>1, <3>2, HandlerSteps
  <2> QED BY <2>1, <2>2, <2>3, <2>4, <2>5, UntouchedPlaced
<1> QED BY <1>1, <1>2

(* A crash ends the requests in flight, and no other. *)
LEMMA CrashMoves ==
    ASSUME Types, Positions, Crash, NEW q \in Request
    PROVE  /\ stage'[q] = IF q \in InFlight THEN "dead" ELSE stage[q]
           /\ UNCHANGED <<key, usage, outcome, input, endpoint, faults>>
           /\ qphase'[q] = IF q \in InFlight /\ qphase[q] \notin Q!Final THEN "dead" ELSE qphase[q]
           /\ sstep'[q] = IF q \in InFlight /\ sstep[q] \in S!InFlight THEN "dead" ELSE sstep[q]
           /\ istep'[q] = IF q \in InFlight /\ istep[q] \in I!Live THEN "dead" ELSE istep[q]
           /\ blocked' \subseteq blocked
           /\ \A u \in Unit : /\ at'[<<q, u>>] = IF U!Started(<<q, u>>) THEN "dead" ELSE at[<<q, u>>]
                              /\ <<q, u>> \notin blocked'
<1>1. /\ stage'[q] = IF q \in InFlight THEN "dead" ELSE stage[q]
      /\ UNCHANGED <<key, usage, outcome, input, endpoint, faults>>
  BY DEF Crash, got, InFlight
<1>2. qphase'[q] = IF q \in InFlight /\ qphase[q] \notin Q!Final THEN "dead" ELSE qphase[q]
  BY DEF Crash, Q!Crash, quotaVars
<1>3. sstep'[q] = IF q \in InFlight /\ sstep[q] \in S!InFlight THEN "dead" ELSE sstep[q]
  BY DEF Crash, S!Crash, slotVars
<1>4. istep'[q] = IF q \in InFlight /\ istep[q] \in I!Live THEN "dead" ELSE istep[q]
  BY DEF Crash, I!Crash, idemVars
<1>5. /\ blocked' \subseteq blocked
      /\ \A e \in Emission : /\ at'[e] = IF U!Started(e) THEN "dead" ELSE at[e]
                             /\ e \notin blocked'
  BY DEF Crash, U!Restart, U!Started, usageVars
<1>6. \A u \in Unit : <<q, u>> \in Emission
  BY DEF Emission
<1> QED BY <1>1, <1>2, <1>3, <1>4, <1>5, <1>6

(* A crash keeps every request placed. *)
LEMMA CrashPlaced ==
    ASSUME Types, Positions, NEW q \in Request, Placed(q), Crash
    PROVE  Placed(q)'
<1>1. UNCHANGED <<key, usage, outcome, input, endpoint>>
  BY CrashMoves
<1>2. /\ input'[q] = input[q] /\ endpoint' = endpoint /\ Capped(q)' = Capped(q)
      /\ RagBody(q)' = RagBody(q) /\ ByokModel(q)' = ByokModel(q)
  BY <1>1, SameCall
<1>3. CASE q \notin InFlight
  <2>1. \A u \in Unit : ~U!Started(<<q, u>>)
    <3> SUFFICES ASSUME NEW u \in Unit, U!Started(<<q, u>>) PROVE FALSE
      OBVIOUS
    <3>1. stage[q] \in {"arrive", "answered", "dead"}
      BY <1>3 DEF InFlight
    <3>2. <<q, u>> \notin blocked
      BY <3>1 DEF Placed, UsageAt
    <3>3. at[<<q, u>>] \in {"flush", "flushed", "xadd", "xadded"}
      BY <3>2 DEF U!Started, U!Active
    <3> QED BY <3>1, <3>3 DEF Placed, UsageAt
  <2>2. \A u \in Unit : at'[<<q, u>>] = at[<<q, u>>] /\ <<q, u>> \notin blocked'
    BY <2>1, CrashMoves
  <2>3. stage'[q] = stage[q] /\ qphase'[q] = qphase[q] /\ sstep'[q] = sstep[q] /\ istep'[q] = istep[q]
    BY <1>3, CrashMoves
  <2> QED BY <1>1, <2>2, <2>3, UntouchedPlaced
<1>4. CASE q \in InFlight
  <2>1. stage[q] \notin {"arrive", "answered", "dead"} /\ stage'[q] = "dead"
    BY <1>4, CrashMoves DEF InFlight
  <2> USE <1>1, <1>2, <2>1 DEF Placed
  <2>2. FlowAt(q)' /\ KeyAt(q)'
    BY DEF FlowAt, KeyAt, Early
  <2>3. QuotaAt(q)'
    BY CrashMoves DEF QuotaAt
  <2>4. SlotAt(q)'
    <3>1. sstep[q] \in SP!Step
      BY DEF Positions
    <3> QED BY <1>4, <3>1, CrashMoves DEF SlotAt, SP!Step, SP!InFlight, S!InFlight
  <2>5. IdemAt(q)'
    <3>1. istep'[q] = istep[q] \/ istep'[q] = "dead"
      BY CrashMoves
    <3>2. qphase[q] = "spent" => qphase'[q] = "spent"
      BY CrashMoves DEF Q!Final
    <3>3. ~input[q].keyed => istep'[q] = "dead"
      BY <1>4, CrashMoves DEF IdemAt, I!Live
    <3> QED BY <3>1, <3>2, <3>3 DEF IdemAt, FlowAt, Early
  <2>6. UsageAt(q)'
    <3> SUFFICES ASSUME NEW u \in Unit
                 PROVE  /\ <<q, u>> \notin blocked'
                        /\ at'[<<q, u>>] # "ready" =>
                              /\ u \in {"call"} \cup usage[q]
                              /\ ~input[q].test /\ outcome[q] = "ok"
                        /\ at'[<<q, u>>] \in {"ready", "done", "lost", "dead"}
      BY DEF UsageAt
    <3>1. /\ at'[<<q, u>>] = IF U!Started(<<q, u>>) THEN "dead" ELSE at[<<q, u>>]
          /\ <<q, u>> \notin blocked'
      BY CrashMoves
    <3>2. U!Started(<<q, u>>) <=> \/ at[<<q, u>>] \in {"flush", "flushed", "xadd", "xadded"}
                                  \/ <<q, u>> \in blocked
      BY DEF U!Started, U!Active
    <3>3. at[<<q, u>>] \in {"ready", "flush", "flushed", "xadd", "xadded", "done", "lost", "dead"}
      BY DEF Positions, UP!At, UP!Active, Emission
    <3> QED BY <3>1, <3>2, <3>3 DEF UsageAt, FlowAt
  <2> QED BY <2>2, <2>3, <2>4, <2>5, <2>6
<1> QED BY <1>3, <1>4

----------------------------------------------------------------------------
(* Faults and refunds *)

(* A step of the handler counts a fault, or none of its stores met one. *)
LEMMA HandlerFaults ==
    ASSUME NEW r \in Request, Step(r)
    PROVE  \/ faults' = faults + 1
           \/ /\ UNCHANGED faults
              /\ \/ UNCHANGED quotaVars
                 \/ Q!Reserve(r) \/ Q!Consume(r) \/ Q!Release(r)
              /\ \/ UNCHANGED slotVars
                 \/ S!Call(r) \/ S!Acquire(r) \/ S!ReleaseDecr(r)
              /\ \/ UNCHANGED idemVars
                 \/ I!Begin(r) \/ I!Execute(r) \/ I!Finish(r)
<1> USE DEF Resume, Ran, FailEarly, Try
<1>1. CASE Reject(r) \/ TranslationRaises(r) \/ Accept(r)
  BY <1>1 DEF Reject, TranslationRaises, Accept
<1>2. CASE Claim(r)
  BY <1>2 DEF Claim
<1>3. CASE Reveal(r) \/ RevealFails(r) \/ RevealRaises(r)
  BY <1>3 DEF Reveal, RevealFails, RevealRaises
<1>4. CASE Acquire(r)
  BY <1>4 DEF Acquire, SlotStep
<1>5. CASE Canned(r)
  BY <1>5 DEF Canned
<1>6. CASE Reserve(r)
  BY <1>6 DEF Reserve
<1>7. CASE Forward(r) \/ ForwardFails(r) \/ ForwardRaises(r)
  BY <1>7 DEF Forward, ForwardFails, ForwardRaises
<1>8. CASE Refund(r)
  BY <1>8 DEF Refund
<1>9. CASE Finish(r)
  BY <1>9 DEF Finish
<1>10. CASE EmitUsage(r) \/ EmitReturns(r)
  BY <1>10 DEF EmitUsage, EmitReturns
<1>11. CASE ReleaseSlots(r)
  BY <1>11 DEF ReleaseSlots
<1> QED BY <1>1, <1>2, <1>3, <1>4, <1>5, <1>6, <1>7, <1>8, <1>9, <1>10, <1>11 DEF Step

(* An absent quota key stays absent until a DECR, which only follows a GET  *)
(* that found it.                                                           *)
LEMMA UnmeteredKept ==
    ASSUME QP!Types, NEW r \in Request, counter = NoQuota => took = {},
           \/ UNCHANGED quotaVars
           \/ Q!Reserve(r) \/ Q!ReserveFails(r) \/ Q!Consume(r)
           \/ Q!Release(r) \/ Q!ReleaseFails(r)
    PROVE  counter' = NoQuota => took' = {}
<1>1. Q!Value(counter) \in Int /\ NoQuota \notin Int
  BY StoreConstants DEF QP!Types, Q!Value
<1>2. \/ UNCHANGED <<counter, took>>
      \/ counter' = Q!Value(counter) - 1
      \/ counter' = Q!Value(counter) + 1
  BY DEF quotaVars, Q!Reserve, Q!ReserveFails, Q!Release, Q!ReleaseFails, Q!Consume,
     Q!ReserveGet, Q!ReserveGetFails, Q!ReserveDecr, Q!ReserveDecrFails, Q!UndoIncr,
     Q!UndoIncrFails, Q!ReleaseGet, Q!ReleaseGetFails, Q!ReleaseIncr, Q!ReleaseIncrFails,
     Q!Decr, Q!Incr, Q!ledger
<1>3. Q!Value(counter) - 1 \in Int /\ Q!Value(counter) + 1 \in Int
  BY <1>1
<1> QED BY <1>1, <1>2, <1>3

(* Without a fault, a denial or a refund gives back what was taken. *)
LEMMA RefundKept ==
    ASSUME Positions, NEW r \in Request, counter = NoQuota => took = {},
           \A q \in Request : qphase[q] \in {"denied", "released"} => q \notin took \ gave,
           UNCHANGED quotaVars \/ Q!Reserve(r) \/ Q!Consume(r) \/ Q!Release(r)
    PROVE  \A q \in Request : qphase'[q] \in {"denied", "released"} => q \notin took' \ gave'
<1> USE DEF Positions
<1>1. CASE UNCHANGED quotaVars
  BY <1>1 DEF quotaVars
<1>2. CASE Q!ReserveGet(r) \/ Q!Consume(r)
  BY <1>2 DEF Q!ReserveGet, Q!Consume, Q!Goto, Q!ledger
<1>3. CASE Q!ReserveDecr(r)
  BY <1>3 DEF Q!ReserveDecr, Q!Goto, Q!Decr
<1>4. CASE Q!UndoIncr(r) \/ Q!ReleaseIncr(r)
  BY <1>4 DEF Q!UndoIncr, Q!ReleaseIncr, Q!Goto, Q!Incr
<1>5. CASE Q!ReleaseGet(r)
  BY <1>5 DEF Q!ReleaseGet, Q!Goto, Q!ledger
<1> QED BY <1>1, <1>2, <1>3, <1>4, <1>5 DEF Q!Reserve, Q!Release

(* A step of a request keeps both. *)
LEMMA StepQuiet ==
    ASSUME Types, StoreInv, Quiet, Refunded, NEW r \in Request, Step(r)
    PROVE  Quiet' /\ Refunded'
<1>1. Positions /\ QP!Types /\ faults \in Nat /\ (counter = NoQuota => took = {})
  BY PositionsTyped DEF StoreInv, Quiet
<1>2. lost' = lost
  BY HandlerSteps DEF slotVars, S!Call, S!Acquire, S!AcquireIncr, S!AcquireExpire, S!AcquireUndo,
     S!AcquireFails, S!AcquireIncrFails, S!AcquireExpireFails, S!AcquireUndoFails,
     S!ReleaseDecr, S!ReleaseDecrFails, S!Fault
<1>3. lapsed' = lapsed
  BY HandlerSteps DEF idemVars, I!Begin, I!BeginSet, I!BeginGet, I!BeginFails, I!BeginSetFails,
     I!BeginGetFails, I!Execute, I!Finish, I!FinishFails
<1>4. counter' = NoQuota => took' = {}
  BY <1>1, HandlerSteps, UnmeteredKept
<1>5. CASE faults' = faults + 1
  <2>1. \A n \in Nat : n + 1 \in Nat /\ n + 1 # 0
    OBVIOUS
  <2>2. faults' \in Nat /\ faults' # 0
    BY <1>1, <1>5, <2>1
  <2> QED BY <1>2, <1>3, <1>4, <2>2 DEF Quiet, Refunded
<1>6. CASE /\ UNCHANGED faults
           /\ \/ UNCHANGED quotaVars
              \/ Q!Reserve(r) \/ Q!Consume(r) \/ Q!Release(r)
           /\ \/ UNCHANGED slotVars
              \/ S!Call(r) \/ S!Acquire(r) \/ S!ReleaseDecr(r)
           /\ \/ UNCHANGED idemVars
              \/ I!Begin(r) \/ I!Execute(r) \/ I!Finish(r)
  <2>1. sfaults' = sfaults
    BY <1>6 DEF slotVars, S!Call, S!Acquire, S!AcquireIncr, S!AcquireExpire, S!AcquireUndo,
       S!ReleaseDecr
  <2>2. ifaults' = ifaults
    BY <1>6 DEF idemVars, I!Begin, I!BeginSet, I!BeginGet, I!Execute, I!Finish
  <2>3. Quiet'
    BY <1>1, <1>2, <1>3, <1>4, <1>6, <2>1, <2>2 DEF Quiet
  <2>4. Refunded'
    BY <1>1, <1>6, RefundKept DEF Refunded
  <2> QED BY <2>3, <2>4
<1> QED BY <1>5, <1>6, HandlerFaults

(* So does a crash. *)
LEMMA CrashQuiet ==
    ASSUME Types, StoreInv, Quiet, Refunded, Crash
    PROVE  Quiet' /\ Refunded'
<1>1. Positions
  BY PositionsTyped
<1>2. UNCHANGED <<faults, lost, sfaults, lapsed, ifaults, counter, took, gave>>
  BY DEF Crash, S!Crash, I!Crash, Q!Crash, Q!ledger, slotVars, idemVars, quotaVars
<1>3. \A q \in Request : qphase'[q] \in {"denied", "released"} => qphase'[q] = qphase[q]
  BY <1>1, CrashMoves
<1> QED BY <1>2, <1>3 DEF Quiet, Refunded

(* Under every interleaving of the requests, fault and crash, each request  *)
(* has of each store what its place in the handler says.                    *)
THEOREM Invariance == Spec => [](LInv /\ StoreInv)
<1>1. Init => LInv
  <2> SUFFICES ASSUME Init PROVE LInv
    OBVIOUS
  <2> USE DEF Init
  <2>1. Types
    BY DEF Types, Stage, Outcome
  <2>2. Quiet /\ Refunded
    BY DEF Quiet, Refunded, Q!Init, S!Init, I!Init
  <2>3. ASSUME NEW r \in Request PROVE Placed(r)
    <3>1. /\ stage[r] = "arrive" /\ outcome[r] = "none" /\ usage[r] = {} /\ key[r] = "none"
          /\ qphase[r] = "idle" /\ sstep[r] = "ready" /\ istep[r] = "set" /\ blocked = {}
          /\ \A u \in Unit : at[<<r, u>>] = "ready"
      BY DEF Q!Init, S!Init, I!Init, U!Init, Emission
    <3> QED BY <3>1 DEF Placed, FlowAt, KeyAt, QuotaAt, SlotAt, IdemAt, UsageAt, Early
  <2> QED BY <2>1, <2>2, <2>3 DEF LInv
<1>2. LInv /\ StoreInv /\ Types' /\ [Next]_vars => LInv'
  <2> SUFFICES ASSUME LInv, StoreInv, Types', [Next]_vars PROVE LInv'
    OBVIOUS
  <2>0. Types /\ Positions /\ Quiet /\ Refunded /\ \A q \in Request : Placed(q)
    BY PositionsTyped DEF LInv
  <2>1. CASE \E r \in Request : Step(r)
    BY <2>0, <2>1, StepPlaced, StepQuiet DEF LInv
  <2>2. CASE Crash
    BY <2>0, <2>2, CrashPlaced, CrashQuiet DEF LInv
  <2>3. CASE UNCHANGED vars
    <3>1. /\ UNCHANGED <<stage, input, key, usage, outcome, endpoint, faults, qphase, sstep, istep>>
          /\ UNCHANGED <<at, blocked, counter, took, gave, lost, sfaults, lapsed, ifaults>>
      BY <2>3 DEF vars, quotaVars, slotVars, idemVars, usageVars
    <3>2. \A q \in Request : Placed(q)'
      BY <2>0, <3>1, UntouchedPlaced
    <3>3. Quiet' /\ Refunded'
      BY <2>0, <3>1 DEF Quiet, Refunded
    <3> QED BY <3>2, <3>3 DEF LInv
  <2> QED BY <2>1, <2>2, <2>3 DEF Next
<1> QED BY <1>1, <1>2, TypesKept, StoresHold, PTL DEF Spec

----------------------------------------------------------------------------
(* What the API promises *)

(* The handler's own state stays well formed, and a call has a result just  *)
(* when it is past the stages that find one.                                *)
THEOREM TypeCorrect == Spec => []TypeOK
<1>1. LInv /\ StoreInv => TypeOK
  <2> SUFFICES ASSUME LInv, NEW r \in Request, stage[r] # "dead"
               PROVE  outcome[r] = "none" <=> stage[r] \in Early
    BY DEF TypeOK, LInv
  <2>1. stage[r] \in Stage
    BY DEF LInv, Types
  <2>2. CASE stage[r] \in Early
    BY <2>2 DEF LInv, Placed, FlowAt
  <2>3. CASE stage[r] \in {"finish", "emit", "release", "answered"}
    BY <2>3 DEF LInv, Placed, FlowAt, Early
  <2> QED BY <2>1, <2>2, <2>3 DEF Stage, Early
<1> QED BY <1>1, Invariance, PTL

(* A call that was answered, however, has no slot, and without a Redis      *)
(* error is in no counter.                                                  *)
THEOREM NoSlotAfterAnswer == Spec => []AnsweredHoldsNoSlot
<1>1. LInv /\ StoreInv => AnsweredHoldsNoSlot
  <2> SUFFICES ASSUME LInv, StoreInv, NEW r \in Request, stage[r] = "answered"
               PROVE  /\ sstep[r] = "ready"
                      /\ faults = 0 => \A k \in S!Key : r \notin counted[k]
    BY DEF AnsweredHoldsNoSlot
  <2>1. sstep[r] = "ready"
    BY DEF LInv, Placed, SlotAt
  <2>2. ASSUME faults = 0, NEW k \in S!Key PROVE r \notin counted[k]
    <3>1. sfaults + lost = 0
      BY <2>2 DEF LInv, Quiet
    <3>2. k \in SP!Key
      BY DEF S!Key, SP!Key
    <3>3. counted[k] = SP!Involved(k)
      BY <3>1, <3>2 DEF StoreInv, SP!IInv, SP!Sound, SP!Exact
    <3>4. r \notin SP!Involved(k)
      BY <2>1 DEF SP!Involved, SP!Holder, SP!Expiring, SP!Undoing
    <3> QED BY <3>3, <3>4
  <2> QED BY <2>1, <2>2
<1> QED BY <1>1, Invariance, PTL

(* A call with a test key, and a call answered by replay, never touches the *)
(* quota, a slot or the usage stream.                                       *)
THEOREM FreeCallsFree == Spec => []FreeCallsTouchNothing
<1>1. LInv /\ StoreInv => FreeCallsTouchNothing
  <2> SUFFICES ASSUME LInv, NEW r \in Request, input[r].test \/ outcome[r] = "replay"
               PROVE  /\ qphase[r] \in {"idle", "dead"}
                      /\ sstep[r] \in {"ready", "dead"}
                      /\ \A u \in Unit : at[<<r, u>>] = "ready"
    BY DEF FreeCallsTouchNothing
  <2> USE DEF LInv, Placed
  <2>1. outcome[r] = "replay" => stage[r] = "answered"
    BY DEF FlowAt
  <2>2. qphase[r] \in {"idle", "dead"}
    BY <2>1 DEF QuotaAt
  <2>3. sstep[r] \in {"ready", "dead"}
    BY <2>1 DEF SlotAt
  <2>4. \A u \in Unit : at[<<r, u>>] = "ready"
    BY DEF UsageAt
  <2> QED BY <2>2, <2>3, <2>4
<1> QED BY <1>1, Invariance, PTL

(* A call reaches RAG only with the model it asked for, with the key looked *)
(* up for it if it is the organization's own, and never if it asked to      *)
(* stream; token use is billed only to an /answers call that RAG served,    *)
(* and only what RAG's answer to it counted.                                *)
THEOREM NothingSubstituted == Spec => []NoSilentSubstitution
<1>1. LInv /\ StoreInv => NoSilentSubstitution
  <2> SUFFICES ASSUME LInv, NEW r \in Request
               PROVE  /\ stage[r] \in {"forward", "refund"} =>
                            IF endpoint = "search"
                            THEN RagBody(r).mode = "search" /\ RagBody(r).model = Nil /\ key[r] = "none"
                            ELSE /\ RagBody(r).model = input[r].body.model
                                 /\ RagBody(r).model # Nil <=> key[r] # "none"
                                 /\ ~input[r].body.stream
                      /\ \A u \in {"input", "output"} : at[<<r, u>>] # "ready"
                            => /\ endpoint = "answers" /\ outcome[r] = "ok"
                               /\ ~input[r].test /\ u \in usage[r]
    BY DEF NoSilentSubstitution
  <2> USE DEF LInv, Placed
  <2>1. ASSUME stage[r] \in {"forward", "refund"}
        PROVE  IF endpoint = "search"
               THEN RagBody(r).mode = "search" /\ RagBody(r).model = Nil /\ key[r] = "none"
               ELSE /\ RagBody(r).model = input[r].body.model
                    /\ RagBody(r).model # Nil <=> key[r] # "none"
                    /\ ~input[r].body.stream
    <3>1. RagBody(r).kind = "query" /\ ~input[r].test
      BY <2>1 DEF FlowAt
    <3>2. RagBody(r).model # Nil <=> key[r] # "none"
      BY <2>1, <3>1 DEF KeyAt, ByokModel
    <3>3. endpoint = "search" => RagBody(r).mode = "search" /\ RagBody(r).model = Nil
      BY <3>1 DEF RagBody, BuildRagSearchQuery, Query, Unsupported, Raises
    <3>4. endpoint # "search" =>
            RagBody(r).model = input[r].body.model /\ ~input[r].body.stream
      BY <3>1 DEF Types, RagBody, BuildRagQuery, Query, Unsupported, Raises
    <3> QED BY <3>2, <3>3, <3>4
  <2>2. ASSUME NEW u \in {"input", "output"}, at[<<r, u>>] # "ready"
        PROVE  /\ endpoint = "answers" /\ outcome[r] = "ok"
               /\ ~input[r].test /\ u \in usage[r]
    <3>1. UsageAt(r) /\ KeyAt(r)
      OBVIOUS
    <3> HIDE DEF LInv, Placed
    <3>2. u \in Unit /\ u # "call"
      BY <2>2 DEF Unit
    <3>3. u \in {"call"} \cup usage[r] /\ ~input[r].test /\ outcome[r] = "ok"
      BY <2>2, <3>1, <3>2, Zenon DEF UsageAt
    <3>4. u \in usage[r]
      BY <3>2, <3>3
    <3> QED BY <3>1, <3>3, <3>4 DEF KeyAt
  <2> QED BY <2>1, <2>2
<1> QED BY <1>1, Invariance, PTL

(* A call that was not served, be it answered with an error or by an        *)
(* exception, has no event in the stream or the outbox. It keeps no quota   *)
(* unit unless a Redis error swallowed its refund, but for the exception    *)
(* out of the translation of RAG's answer.                                  *)
THEOREM ErrorsFree == Spec => []ErrorNotCharged
<1>1. LInv /\ StoreInv => ErrorNotCharged
  <2> SUFFICES ASSUME LInv, StoreInv, NEW r \in Request, stage[r] = "answered",
                      outcome[r] \in {"error", "raised"}
               PROVE  /\ \A u \in Unit : ~Recorded(<<r, u>>)
                      /\ \/ KeepsUnit(r)
                         \/ /\ qphase[r] \in {"idle", "denied", "released"}
                            /\ faults = 0 => r \notin took \ gave
    BY DEF ErrorNotCharged, Answered
  <2>1. ASSUME NEW u \in Unit PROVE ~Recorded(<<r, u>>)
    <3>1. at[<<r, u>>] = "ready" /\ <<r, u>> \in Emission
      BY DEF LInv, Placed, UsageAt, Emission
    <3>2. sent[<<r, u>>] = 0
      BY <3>1 DEF StoreInv, UP!Unsent
    <3>3. <<r, u>> \notin U!Range(pending)
      BY <3>1 DEF StoreInv, UP!IInv, UP!RowsDone, UP!Range, U!Range
    <3> QED BY <3>2, <3>3 DEF Recorded, InOutbox
  <2>2. qphase[r] \in {"idle", "denied", "released"} \/ KeepsUnit(r)
    BY DEF LInv, Placed, QuotaAt, KeepsUnit
  <2>3. qphase[r] = "idle" => r \notin took
    BY DEF StoreInv, QP!OncePerRequest
  <2>4. faults = 0 /\ ~KeepsUnit(r) => r \notin took \ gave
    BY <2>2, <2>3 DEF LInv, Refunded
  <2> QED BY <2>1, <2>2, <2>4
<1> QED BY <1>1, Invariance, PTL

(* A call that has left the emit stage with its result is charged. *)
LEMMA DoneCharged ==
    ASSUME LInv, StoreInv, NEW r \in Request, ~input[r].test, outcome[r] = "ok",
           stage[r] \in {"release", "answered"}
    PROVE  Charged(r)
<1>1. qphase[r] = "spent"
  BY DEF LInv, Placed, QuotaAt
<1>2. ASSUME NEW u \in {"call"} \cup usage[r]
      PROVE  Recorded(<<r, u>>) \/ at[<<r, u>>] = "lost"
  <2>1. u \in Unit
    BY DEF LInv, Types, Unit
  <2>2. <<r, u>> \in Emission
    BY <2>1 DEF Emission
  <2>3. at[<<r, u>>] \in {"done", "lost"}
    BY DEF LInv, Placed, UsageAt
  <2>4. at[<<r, u>>] = "done" => sent[<<r, u>>] > 0 \/ <<r, u>> \in UP!Range(pending)
    BY <2>2 DEF StoreInv, UP!IInv, UP!NoEventLost
  <2> QED BY <2>3, <2>4 DEF Recorded, InOutbox, UP!Range, U!Range
<1> QED BY <1>1, <1>2 DEF Charged

(* A call answered with its own result is charged for it; one answered by   *)
(* replay got the result of a call that is charged, on its way to be, or    *)
(* dead before it was.                                                      *)
THEOREM SuccessesCharged == Spec => []SuccessCharged
<1>1. LInv /\ StoreInv => SuccessCharged
  <2> SUFFICES ASSUME LInv, StoreInv PROVE SuccessCharged
    OBVIOUS
  <2>1. ASSUME NEW r \in Answered("ok"), ~input[r].test PROVE Charged(r)
    BY <2>1, DoneCharged DEF Answered
  <2>2. ASSUME NEW r \in Answered("replay"), ~input[r].test
        PROVE  \E q \in served[r] : \/ Charged(q)
                                    \/ qphase[q] = "spent" /\ stage[q] \in {"emit", "dead"}
    <3>1. r \in Request /\ stage[r] = "answered" /\ outcome[r] = "replay"
      BY DEF Answered
    <3>2. input \in [Request -> Shape]
      BY CallsAssumption DEF LInv, Types
    <3>3. istep[r] = "replay"
      BY <3>1, <3>2 DEF LInv, Placed, IdemAt, Shape
    <3>4. PICK q \in served[r] : istep[q] = "done"
      BY <3>1, <3>3 DEF StoreInv, IP!Answers
    <3>5. q \in Request
      BY <3>1 DEF StoreInv, IP!IInv, IP!TypeOK
    <3>6. ~input[q].test
      BY <2>2, <3>1, <3>5, CallsAssumption DEF LInv, Types
    <3>7. /\ stage[q] \in {"emit", "release", "answered", "dead"} /\ outcome[q] = "ok"
          /\ qphase[q] = "spent"
      BY <3>4, <3>5, <3>6 DEF LInv, Placed, IdemAt
    <3>8. stage[q] \in {"release", "answered"} => Charged(q)
      BY <3>5, <3>6, <3>7, DoneCharged
    <3> QED BY <3>7, <3>8
  <2> QED BY <2>1, <2>2 DEF SuccessCharged
<1> QED BY <1>1, Invariance, PTL

(* The work of a keyed call that keeps its quota unit was done. *)
LEMMA SpentRan ==
    ASSUME LInv, StoreInv, NEW r \in Request, input[r].keyed, ~input[r].test,
           qphase[r] = "spent", stage[r] # "dead"
    PROVE  r \in ran /\ istep[r] # "dead"
<1>1. stage[r] \in {"finish", "emit", "release", "answered"}
  BY DEF LInv, Placed, QuotaAt, Types, Stage
<1>2. outcome[r] = "ok"
  BY <1>1 DEF LInv, Placed, QuotaAt, FlowAt, Types, Outcome
<1>3. istep[r] \in {"ok", "done"}
  BY <1>1, <1>2 DEF LInv, Placed, IdemAt
<1>4. istep[r] = "ok" => r \in ran
  BY DEF StoreInv, IP!IInv, IP!RanSteps
<1>5. istep[r] = "done" => r \in ran
  BY DEF StoreInv, IP!Answers, IP!IInv, IP!ReplayFaithful
<1> QED BY <1>3, <1>4, <1>5

(* Without store errors and crashes, one Idempotency-Key buys one upstream  *)
(* run, and no answered call leaves its claim behind.                       *)
THEOREM KeyBuysOneRun == Spec => []KeyRunsOnce
<1>1. LInv /\ StoreInv => KeyRunsOnce
  <2> DEFINE Bought == {r \in Request : /\ input[r].keyed /\ ~input[r].test
                                        /\ qphase[r] = "spent" /\ stage[r] # "dead"}
             Died   == {r \in ran : istep[r] = "dead"}
  <2> SUFFICES ASSUME LInv, StoreInv, faults = 0
               PROVE  /\ Cardinality(Bought) <= 1
                      /\ \A r \in Request : stage[r] = "answered" /\ outcome[r] # "raised" =>
                             record # I!Claim(r)
    BY DEF KeyRunsOnce
  <2>1. ifaults = 0 /\ lapsed = {}
    BY DEF LInv, Quiet
  <2>2. IsFiniteSet(ran) /\ IsFiniteSet(Died)
    <3>1. ran \subseteq Request
      BY DEF StoreInv, IP!IInv, IP!TypeOK
    <3> QED BY <3>1, StoreConstants, FS_Subset
  <2>3. Bought \subseteq ran \ Died
    BY SpentRan
  <2>4. Cardinality(ran) <= 1 + Cardinality(lapsed) + Cardinality(Died) + ifaults
    <3>1. \A T : Cardinality(T) = IP!Cardinality(T)
      BY DEF Cardinality, IP!Cardinality
    <3>2. IP!Cardinality(ran) <= 1 + IP!Cardinality(lapsed) + IP!Cardinality(Died) + ifaults
      BY DEF StoreInv, IP!NeverRunTwice
    <3> HIDE DEF Died
    <3> QED BY <3>1, <3>2
  <2> HIDE DEF Bought
  <2>5. Cardinality(Bought) <= 1
    <3>1. Died \subseteq ran
      OBVIOUS
    <3> HIDE DEF Died
    <3>2. Cardinality(lapsed) = 0
      BY <2>1, FS_EmptySet
    <3>3. /\ IsFiniteSet(ran \ Died)
          /\ Cardinality(ran \ Died) = Cardinality(ran) - Cardinality(ran \cap Died)
      BY <2>2, FS_Difference
    <3>4. ran \cap Died = Died
      BY <3>1
    <3>5. Cardinality(Bought) <= Cardinality(ran \ Died)
      BY <2>3, <3>3, FS_Subset
    <3>6. IsFiniteSet(Bought)
      BY <2>3, <3>3, FS_Subset
    <3>7. /\ Cardinality(ran) \in Nat /\ Cardinality(Died) \in Nat
          /\ Cardinality(ran \ Died) \in Nat /\ Cardinality(Bought) \in Nat
      BY <2>2, <3>3, <3>6, FS_CardinalityType
    <3>8. Cardinality(ran) <= 1 + 0 + Cardinality(Died) + 0
      BY <2>1, <2>4, <3>2
    <3>9. Cardinality(ran \ Died) = Cardinality(ran) - Cardinality(Died)
      BY <3>3, <3>4
    <3>10. \A n, d, m, b \in Nat : n <= 1 + 0 + d + 0 /\ m = n - d /\ b <= m => b <= 1
      OBVIOUS
    <3> QED BY <3>5, <3>7, <3>8, <3>9, <3>10
  <2>6. ASSUME NEW r \in Request, stage[r] = "answered", outcome[r] # "raised"
        PROVE  record # I!Claim(r)
    <3>1. istep[r] \in {"set", "done", "mismatch", "in_progress", "failed", "replay"}
      <4>1. outcome[r] \in {"ok", "error", "replay"}
        BY <2>6 DEF LInv, Placed, FlowAt, Types, Outcome
      <4> QED BY <2>6, <4>1 DEF LInv, Placed, IdemAt
    <3>2. istep[r] \notin IP!Running \cup {"dead"}
      BY <3>1 DEF IP!Running
    <3>3. record # IP!Claim(r)
      BY <2>1, <3>2 DEF StoreInv, IP!ClaimHeld
    <3> QED BY <3>3 DEF I!Claim, IP!Claim
  <2> QED BY <2>5, <2>6
<1> QED BY <1>1, Invariance, PTL

----------------------------------------------------------------------------
(* What the stores promise step by step, of the calls that share them. *)

(* The usage events of billable calls are delivered at least once: once    *)
(* the handler has emitted an event of a successful call, no other call,   *)
(* failure or crash takes it away before it is in the usage stream.        *)
THEOREM CallsDelivered == Spec => UP!Log!Spec
<1>1. UP!Spec => UP!Log!Spec
  BY UP!AtLeastOnce, StoreConstants DEF UP!IsFiniteSet, IsFiniteSet
<1> QED BY <1>1, UsesStores, UsageOutboxSame, PTL

(* Until a Redis command of the idempotency protocol fails, no call ever   *)
(* overwrites or deletes the claim or the result of another call with the  *)
(* same key, however the two overlap and whichever of them dies.           *)
THEOREM RecordsOwned == Spec => [][IP!RecordEnds]_(IP!vars)
<1>1. IP!Spec => [][IP!RecordEnds]_(IP!vars)
  BY IP!OwnersOnly, StoreConstants DEF IP!IsFiniteSet, IsFiniteSet
<1> QED BY <1>1, UsesStores, IdempotencySame, PTL
=============================================================================
