------------------------------- MODULE Slots -------------------------------
(* The cap on concurrent /v1/literature/answers calls, per caller and per  *)
(* organization: V1Store.acquire_concurrency_slot and                      *)
(* release_concurrency_slot (src/app/services/v1_store.py) in the order    *)
(* _acquire_concurrency_slots and _release_concurrency_slots call them     *)
(* (src/app/routes/v1.py).                                                 *)
(*                                                                         *)
(* Every Redis command is a step; a failing command may have been applied. *)
(* Time passes in ticks: a counter expires SlotTTL ticks after its last    *)
(* EXPIRE, and a request is in flight for at most MaxHold ticks (the       *)
(* upstream call has a 15 s timeout against the counter's 300 s TTL).      *)
EXTENDS Integers, FiniteSets

CONSTANTS
    Request,     \* request coroutines; one that ends may be called again
    Subject,     \* API keys and user sessions
    SubjectOf,   \* the subject each request authenticates as
    Org,         \* the one organization the subjects belong to
    Limit,       \* V1_MAX_CONCURRENT_ANSWERS
    NoKey,       \* a counter that does not exist
    SlotTTL, MaxHold,
    MaxFaults    \* bound on the Redis errors and lost increments of a behaviour

ASSUME SubjectAssumption == SubjectOf \in [Request -> Subject] /\ Org \notin Subject
ASSUME LimitAssumption == Limit \in Nat /\ MaxFaults \in Nat /\ NoKey \notin Int
ASSUME HoldAssumption == SlotTTL \in Nat /\ MaxHold \in Nat /\ MaxHold < SlotTTL
ASSUME FiniteAssumption == IsFiniteSet(Request)

VARIABLES
    cnt,      \* gateway:v1:conc:{subject} and gateway:v1:conc:org:{org_id}
    ttl,      \* ticks until the counter expires; 0: it has no expiry
    step,     \* the point each request is at
    level,    \* whose counter it is working on: "subject" or "org"
    over,     \* whether its INCR returned more than the limit
    age,      \* how long it has been in flight
    counted,  \* history: requests whose own increment is in the counter
    faults,   \* history: Redis errors so far
    lost      \* history: increments that expired before their own EXPIRE

vars == <<cnt, ttl, step, level, over, age, counted, faults, lost>>

Key == Subject \cup {Org}
Level == {"subject", "org"}

(* "incr", "expire", "undo": in acquire_concurrency_slot.                  *)
(* "back": the organization refused, the subject's slot is given back.     *)
(* "hold": admitted, the body of the call runs.                            *)
(* "decr": the second release of the finally block.                        *)
(* "ready": not in flight (never called, refused or finished).             *)
InFlight == {"incr", "expire", "undo", "back", "hold", "decr"}
Step == {"ready", "dead"} \cup InFlight

KeyAt(r, l) == IF l = "org" THEN Org ELSE SubjectOf[r]
KeyOf(r) == KeyAt(r, level[r])
Value(c) == IF c = NoKey THEN 0 ELSE c

Init ==
    /\ cnt = [k \in Key |-> NoKey]
    /\ ttl = [k \in Key |-> 0]
    /\ step = [r \in Request |-> "ready"]
    /\ level = [r \in Request |-> "subject"]
    /\ over = [r \in Request |-> FALSE]
    /\ age = [r \in Request |-> 0]
    /\ counted = [k \in Key |-> {}]
    /\ faults = 0
    /\ lost = 0

----------------------------------------------------------------------------
(* Control flow between the commands. *)

At(r, s, l) ==
    /\ step' = [step EXCEPT ![r] = s]
    /\ level' = [level EXCEPT ![r] = l]
    /\ age' = [age EXCEPT ![r] = IF s = "ready" THEN 0 ELSE @]

(* acquire_concurrency_slot returned True: next the organization's slot,   *)
(* or both are held.                                                       *)
Passed(r) ==
    IF level[r] = "subject" THEN At(r, "incr", "org") ELSE At(r, "hold", "subject")

(* Mutant: a refusal by the organization that forgets the subject's slot. *)
RefusedKeepsSubject(r) == At(r, "ready", "subject")

(* It returned False: nothing is held, or the subject's slot goes back.    *)
Refused(r) ==
    IF level[r] = "subject" THEN At(r, "ready", "subject") ELSE At(r, "back", "subject")

(* release_concurrency_slot returned. *)
Returned(r) ==
    IF step[r] = "hold" THEN At(r, "decr", "org") ELSE At(r, "ready", "subject")

(* The two commands on the counter of key k. *)
Incr(r) ==
    LET k == KeyOf(r) IN
    /\ cnt' = [cnt EXCEPT ![k] = Value(@) + 1]
    /\ counted' = [counted EXCEPT ![k] = @ \cup {r}]

Decr(r) ==
    LET k == KeyOf(r) IN
    /\ cnt' = [cnt EXCEPT ![k] = Value(@) - 1]
    /\ counted' = [counted EXCEPT ![k] = @ \ {r}]

Fault == faults + lost < MaxFaults /\ faults' = faults + 1 /\ UNCHANGED lost

----------------------------------------------------------------------------
(* Mutants *)

(* the comparison with the limit off by one *)
AcquireIncrOffByOne(r) ==
    /\ step[r] = "incr"
    /\ Incr(r)
    /\ over' = [over EXCEPT ![r] = Value(cnt[KeyOf(r)]) > Limit]
    /\ At(r, "expire", level[r])
    /\ UNCHANGED <<ttl, faults, lost>>

----------------------------------------------------------------------------
(* Actions *)

(* The handler reaches _acquire_concurrency_slots. *)
Call(r) ==
    /\ step[r] = "ready"
    /\ At(r, "incr", "subject")
    /\ UNCHANGED <<cnt, ttl, over, counted, faults, lost>>

AcquireIncr(r) ==
    /\ step[r] = "incr"
    /\ Incr(r)
    /\ over' = [over EXCEPT ![r] = Value(cnt[KeyOf(r)]) + 1 > Limit]
    /\ At(r, "expire", level[r])
    /\ UNCHANGED <<ttl, faults, lost>>

(* Fails open: the slot counts as acquired. *)
AcquireIncrFails(r) ==
    /\ step[r] = "incr"
    /\ Fault
    /\ Incr(r) \/ UNCHANGED <<cnt, counted>>
    /\ Passed(r)
    /\ UNCHANGED <<ttl, over>>

(* Mutant: a TTL no longer than a request may run. *)
SetTTLShort(k) == ttl' = [ttl EXCEPT ![k] = IF cnt[k] = NoKey THEN @ ELSE MaxHold]

(* Mutant: the TTL given in milliseconds. *)
SetTTLInMilliseconds(k) ==
    ttl' = [ttl EXCEPT ![k] = IF cnt[k] = NoKey THEN @ ELSE 1000 * SlotTTL]

(* EXPIRE touches only a key that still exists. *)
SetTTL(k) == ttl' = [ttl EXCEPT ![k] = IF cnt[k] = NoKey THEN @ ELSE SlotTTL]

AcquireExpire(r) ==
    /\ step[r] = "expire"
    /\ SetTTL(KeyOf(r))
    /\ IF over[r] THEN At(r, "undo", level[r]) ELSE Passed(r)
    /\ over' = [over EXCEPT ![r] = FALSE]
    /\ UNCHANGED <<cnt, counted, faults, lost>>

(* Fails open even when the count was over the limit. *)
AcquireExpireFails(r) ==
    /\ step[r] = "expire"
    /\ Fault
    /\ SetTTL(KeyOf(r)) \/ UNCHANGED ttl
    /\ Passed(r)
    /\ over' = [over EXCEPT ![r] = FALSE]
    /\ UNCHANGED <<cnt, counted>>

AcquireUndo(r) ==
    /\ step[r] = "undo"
    /\ Decr(r)
    /\ Refused(r)
    /\ UNCHANGED <<ttl, over, faults, lost>>

AcquireUndoFails(r) ==
    /\ step[r] = "undo"
    /\ Fault
    /\ Decr(r) \/ UNCHANGED <<cnt, counted>>
    /\ Refused(r)
    /\ UNCHANGED <<ttl, over>>

(* release_concurrency_slot: after a refusal by the organization, and the  *)
(* two calls of the handler's finally block.                               *)
ReleaseDecr(r) ==
    /\ step[r] \in {"back", "hold", "decr"}
    /\ Decr(r)
    /\ Returned(r)
    /\ UNCHANGED <<ttl, over, faults, lost>>

ReleaseDecrFails(r) ==
    /\ step[r] \in {"back", "hold", "decr"}
    /\ Fault
    /\ Decr(r) \/ UNCHANGED <<cnt, counted>>
    /\ Returned(r)
    /\ UNCHANGED <<ttl, over>>

(* The gateway process dies: whatever the requests in S hold stays counted *)
(* and nobody will release it.                                             *)
Crash(S) ==
    /\ \E r \in S : step[r] \in InFlight
    /\ step' = [r \in Request |->
                   IF r \in S /\ step[r] \in InFlight THEN "dead" ELSE step[r]]
    /\ counted' = [k \in Key |-> {r \in counted[k] : step'[r] # "dead"}]
    /\ UNCHANGED <<cnt, ttl, level, over, age, faults, lost>>

(* Requests about to lose their increment: it revived a counter that is in *)
(* its last tick, and their EXPIRE has not been sent yet.                  *)
Slipping == {r \in Request : step[r] = "expire" /\ ttl[KeyOf(r)] = 1}

(* External: time passes in Redis and for the requests in flight.          *)
Tick ==
    /\ \A r \in Request : step[r] \in InFlight => age[r] < MaxHold
    /\ age' = [r \in Request |-> IF step[r] \in InFlight THEN age[r] + 1 ELSE 0]
    /\ ttl' = [k \in Key |-> IF ttl[k] > 0 THEN ttl[k] - 1 ELSE 0]
    /\ cnt' = [k \in Key |-> IF ttl[k] = 1 THEN NoKey ELSE cnt[k]]
    /\ counted' = [k \in Key |-> IF ttl[k] = 1 THEN {} ELSE counted[k]]
    /\ lost' = lost + Cardinality(Slipping)
    /\ lost' + faults <= MaxFaults
    /\ UNCHANGED <<step, level, over, faults>>

Acquire(r)      == AcquireIncr(r) \/ AcquireExpire(r) \/ AcquireUndo(r)
AcquireFails(r) == AcquireIncrFails(r) \/ AcquireExpireFails(r) \/ AcquireUndoFails(r)

Next ==
    \/ \E r \in Request : Call(r) \/ Acquire(r) \/ AcquireFails(r)
    \/ \E r \in Request : ReleaseDecr(r) \/ ReleaseDecrFails(r)
    \/ \E S \in SUBSET Request : Crash(S)
    \/ Tick

Spec == Init /\ [][Next]_vars

(* A request in flight keeps going (the event loop runs every ready task,  *)
(* the upstream call has a timeout, and Redis is assumed to answer or to   *)
(* fail), and time passes.                                                 *)
Fairness ==
    /\ \A r \in Request : WF_vars(Acquire(r) \/ ReleaseDecr(r))
    /\ WF_vars(Tick)

FairSpec == Spec /\ Fairness

----------------------------------------------------------------------------
(* Properties *)

(* Counters are integers or absent, an expiry is at most SlotTTL away, and *)
(* requests are at a known point and in flight for MaxHold at most.        *)
TypeOK ==
    /\ cnt \in [Key -> Int \cup {NoKey}]
    /\ ttl \in [Key -> 0..SlotTTL]
    /\ step \in [Request -> Step]
    /\ level \in [Request -> Level]
    /\ over \in [Request -> BOOLEAN]
    /\ age \in [Request -> 0..MaxHold]
    /\ counted \in [Key -> SUBSET Request]
    /\ faults \in 0..MaxFaults /\ lost \in 0..MaxFaults

(* Requests that acquire_concurrency_slot has told they hold key k's slot. *)
Holder(k) ==
    {r \in Request :
        \/ step[r] = "hold" /\ k \in {SubjectOf[r], Org}
        \/ step[r] \in {"incr", "expire", "undo"} /\ level[r] = "org" /\ k = SubjectOf[r]
        \/ step[r] = "back" /\ k = SubjectOf[r]
        \/ step[r] = "decr" /\ k = Org}

(* The cap: at most Limit calls per caller and per organization are        *)
(* admitted at once, plus at most one for every Redis error met so far (an *)
(* acquire that fails open, whose release then decrements a counter it     *)
(* never incremented) and one for every increment that expired between its *)
(* INCR and its EXPIRE: neither ever admits two extra calls.               *)
LimitRespected ==
    \A k \in Key : Cardinality(Holder(k)) <= Limit + faults + lost

(* "A slot held by a request that's already finished answering must never  *)
(* count against the next one": with nothing in flight, no crash and no    *)
(* Redis error, every counter is back to zero, whichever path each request *)
(* left by.                                                                *)
NothingLeaks ==
    (/\ \A r \in Request : step[r] = "ready"
     /\ faults + lost = 0)
    => \A k \in Key : Value(cnt[k]) = 0

(* A counter never expires under a caller that holds a slot on it, unless  *)
(* a Redis error or a slip kept that caller's EXPIRE from applying: every  *)
(* holder's own EXPIRE outlives it, MaxHold being below SlotTTL.           *)
NoExpiryUnderHolder ==
    faults + lost = 0 => \A k \in Key : Holder(k) \subseteq counted[k]

(* acquire_concurrency_slot's docstring: "The TTL is a safety net only,    *)
(* for the case a crash skips the matching release". So a slot leaked by a *)
(* crash, on a counter whose expiry is set, is eventually given back.      *)
Leaked(k) == Value(cnt[k]) > Cardinality(counted[k])
LeakReclaimed == \A k \in Key : (Leaked(k) /\ ttl[k] > 0) ~> ~Leaked(k)
=============================================================================
