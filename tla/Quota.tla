------------------------------- MODULE Quota -------------------------------
(* The prepaid quota counter of one (organization, resource) pair:         *)
(* V1Store.reserve_quota and V1Store.release_quota                         *)
(* (src/app/services/v1_store.py), and the service that maintains the      *)
(* counter, omnibioai-billing (external).                                  *)
(*                                                                         *)
(* Every Redis command is a step of its own, because each one is an await  *)
(* at which other requests run. A command may also fail: the methods catch *)
(* the exception, and at that point the command may or may not have been   *)
(* applied by the server (a reply can be lost after the write).            *)
EXTENDS Integers, FiniteSets

CONSTANTS
    Request,    \* the billable calls that reach reserve_quota, each once
    Allowance,  \* the values billing may publish
    NoQuota     \* the key does not exist: the organization is unmetered

ASSUME RequestAssumption == IsFiniteSet(Request)
ASSUME AllowanceAssumption == Allowance \subseteq Nat
ASSUME NoQuotaAssumption == NoQuota \notin Int

VARIABLES
    counter,    \* the value of gateway:v1:quota:{org}:{resource}
    phase,      \* where each request is in reserve_quota / release_quota
    (* The remaining variables are history, never read by the code. *)
    published,  \* what billing last published
    took,       \* requests whose DECR was applied since then
    gave,       \* requests whose INCR was applied since then
    blind,      \* requests granted although the reply to their DECR was lost
    caught      \* requests between a GET and their write at that publication

vars == <<counter, phase, published, took, gave, blind, caught>>
ledger == <<published, took, gave, blind, caught>>

(* "idle": reserve_quota not called yet.      "decr": GET found a key.     *)
(* "undo": DECR went negative.                "granted": it returned True. *)
(* "incr": release_quota's GET found a key.                                *)
(* Final: "denied" (402), "spent" (billed), "released", "dead" (crash).    *)
Reserving == {"decr", "undo"}
Holding   == {"granted", "incr"}
Writing   == Reserving \cup {"incr"}
Final     == {"denied", "spent", "released", "dead"}
Phase     == {"idle"} \cup Reserving \cup Holding \cup Final

(* Redis lets INCR and DECR start a missing key from zero.                 *)
Value(c) == IF c = NoQuota THEN 0 ELSE c

Goto(r, p) == phase' = [phase EXCEPT ![r] = p]

Init ==
    /\ published \in Allowance \cup {NoQuota}
    /\ counter = published
    /\ phase = [r \in Request |-> "idle"]
    /\ took = {}
    /\ gave = {}
    /\ blind = {}
    /\ caught = {}

----------------------------------------------------------------------------
(* The two atomic writes. took and gave remember who made them.            *)

Decr(r) ==
    /\ counter' = Value(counter) - 1
    /\ took' = took \cup {r}
    /\ UNCHANGED <<published, gave, caught>>

Incr(r) ==
    /\ counter' = Value(counter) + 1
    /\ gave' = gave \cup {r}
    /\ UNCHANGED <<published, took, blind, caught>>

----------------------------------------------------------------------------
(* Mutants: plausible slips in the code below, used to show that the       *)
(* properties can fail.                                                    *)

(* reserve_quota without its "value < 0" test. *)
DecrUnchecked(r) ==
    /\ phase[r] = "decr"
    /\ Decr(r)
    /\ Goto(r, "granted")
    /\ UNCHANGED blind

(* release_quota decrementing once more instead of incrementing *)
ReleaseDecr(r) ==
    /\ phase[r] = "incr"
    /\ Decr(r)
    /\ Goto(r, "released")
    /\ UNCHANGED blind

(* reserve_quota sending its DECR again when the reply did not come *)
ReserveDecrRetries(r) ==
    /\ phase[r] = "decr"
    /\ \/ Decr(r) /\ UNCHANGED blind
       \/ UNCHANGED <<counter, ledger>>
    /\ UNCHANGED phase

(* release_quota without its "is not None" test *)
ReleaseGetBlindly(r) ==
    /\ phase[r] = "granted"
    /\ Goto(r, "incr")
    /\ UNCHANGED <<counter, ledger>>

(* the denied path releasing as well: a second INCR *)
UndoThenRelease(r) ==
    /\ phase[r] = "undo"
    /\ Incr(r)
    /\ Goto(r, "granted")

----------------------------------------------------------------------------
(* reserve_quota *)

ReserveGet(r) ==
    /\ phase[r] = "idle"
    /\ Goto(r, IF counter = NoQuota THEN "granted" ELSE "decr")
    /\ UNCHANGED <<counter, ledger>>

(* Fails open: the reservation succeeds. *)
ReserveGetFails(r) ==
    /\ phase[r] = "idle"
    /\ Goto(r, "granted")
    /\ UNCHANGED <<counter, ledger>>

ReserveDecr(r) ==
    /\ phase[r] = "decr"
    /\ Decr(r)
    /\ Goto(r, IF counter' < 0 THEN "undo" ELSE "granted")
    /\ UNCHANGED blind

(* Fails open, whether or not the server applied the DECR. *)
ReserveDecrFails(r) ==
    /\ phase[r] = "decr"
    /\ \/ Decr(r) /\ blind' = blind \cup {r}
       \/ UNCHANGED <<counter, ledger>>
    /\ Goto(r, "granted")

(* The compensation of a reservation that found nothing left. *)
UndoIncr(r) ==
    /\ phase[r] = "undo"
    /\ Incr(r)
    /\ Goto(r, "denied")

UndoIncrFails(r) ==
    /\ phase[r] = "undo"
    /\ Incr(r) \/ UNCHANGED <<counter, ledger>>
    /\ Goto(r, "denied")

----------------------------------------------------------------------------
(* What the caller does with a granted unit: keep it (the call was         *)
(* billable), or release_quota.                                            *)

Consume(r) ==
    /\ phase[r] = "granted"
    /\ Goto(r, "spent")
    /\ UNCHANGED <<counter, ledger>>

ReleaseGet(r) ==
    /\ phase[r] = "granted"
    /\ Goto(r, IF counter = NoQuota THEN "released" ELSE "incr")
    /\ UNCHANGED <<counter, ledger>>

ReleaseGetFails(r) ==
    /\ phase[r] = "granted"
    /\ Goto(r, "released")
    /\ UNCHANGED <<counter, ledger>>

ReleaseIncr(r) ==
    /\ phase[r] = "incr"
    /\ Incr(r)
    /\ Goto(r, "released")

ReleaseIncrFails(r) ==
    /\ phase[r] = "incr"
    /\ Incr(r) \/ UNCHANGED <<counter, ledger>>
    /\ Goto(r, "released")

----------------------------------------------------------------------------
(* The gateway process dies with the requests in S still running.          *)
Crash(S) ==
    /\ \E r \in S : phase[r] \notin Final
    /\ phase' = [r \in Request |->
                    IF r \in S /\ phase[r] \notin Final THEN "dead" ELSE phase[r]]
    /\ UNCHANGED <<counter, ledger>>

(* External: billing overwrites the counter, or removes it.                *)
Publish(n) ==
    /\ counter' = n
    /\ published' = n
    /\ took' = {}
    /\ gave' = {}
    /\ blind' = {}
    /\ caught' = {r \in Request : phase[r] \in Writing}
    /\ UNCHANGED phase

Reserve(r)      == ReserveGet(r) \/ ReserveDecr(r) \/ UndoIncr(r)
ReserveFails(r) == ReserveGetFails(r) \/ ReserveDecrFails(r) \/ UndoIncrFails(r)
Release(r)      == ReleaseGet(r) \/ ReleaseIncr(r)
ReleaseFails(r) == ReleaseGetFails(r) \/ ReleaseIncrFails(r)

Next ==
    \/ \E r \in Request : Reserve(r) \/ ReserveFails(r)
    \/ \E r \in Request : Consume(r) \/ Release(r) \/ ReleaseFails(r)
    \/ \E S \in SUBSET Request : Crash(S)
    \/ \E n \in Allowance \cup {NoQuota} : Publish(n)

Spec == Init /\ [][Next]_vars

----------------------------------------------------------------------------
(* Properties *)

(* A request decrements and increments at most once: until it decrements   *)
(* it is in no history set, and while it may still increment it has not.   *)
OncePerRequest ==
    /\ \A r \in Request : phase[r] \in {"idle", "decr"}
                              => r \notin took /\ r \notin gave
    /\ \A r \in Request : phase[r] \in {"undo", "granted", "incr"} => r \notin gave
    /\ blind \subseteq took

Types ==
    /\ counter \in Int \cup {NoQuota}
    /\ published \in Allowance \cup {NoQuota}
    /\ phase \in [Request -> Phase]
    /\ took \subseteq Request
    /\ gave \subseteq Request
    /\ blind \subseteq Request
    /\ caught \subseteq Request

(* The counter is an integer or absent, every request is at a point of     *)
(* reserve_quota or release_quota, and the history is a ledger: no request *)
(* is at a point before a write that it has made, so neither DECR nor INCR *)
(* is ever sent twice for one call.                                        *)
TypeOK == Types /\ OncePerRequest

(* Requests whose decrement below zero is not compensated: still to be     *)
(* compensated, or never (the INCR failed, the process died, or the reply  *)
(* to the DECR was lost and the code never saw the negative value).        *)
Short == {r \in took : phase[r] \in {"undo", "denied", "dead"} \/ r \in blind} \ gave

(* Calls running, or billed, on a unit they took from the counter.         *)
Served == {r \in took \ gave : phase[r] \in Holding \cup {"spent"}}

(* reserve_quota's promise that "only as many concurrent reservations as   *)
(* there are units left" succeed: whatever the interleaving, the units in  *)
(* use never exceed the published allowance by more than the refunds of    *)
(* units that were never taken from it (a fail-open or pre-publication     *)
(* grant refunded afterwards) and the grants whose DECR reply was lost.    *)
NoOverrun ==
    Cardinality(Served)
        <= Value(published) + Cardinality(gave \ took) + Cardinality(blind)

(* "Never below zero": the counter is below zero only by as much as there  *)
(* are requests that decremented it and have not compensated.              *)
NegativeOnlyWhileShort == Value(counter) >= -Cardinality(Short)

(* When nothing is in flight and no compensation, refund or process was    *)
(* lost, the counter shows exactly what billing published less what was    *)
(* billed: no sequence of denials and refunds creates or destroys units.   *)
Settled ==
    (/\ \A r \in Request : phase[r] \in {"idle", "denied", "spent", "released"}
     /\ \A r \in Request : phase[r] \in {"denied", "released"}
                               => (r \in took <=> r \in gave)
     /\ \A r \in Request : phase[r] = "spent" => r \in took \ gave)
    => Value(counter)
           = Value(published) - Cardinality({r \in Request : phase[r] = "spent"})

(* "Never creating a key that did not already exist -- an org without a    *)
(* quota key stays unmetered" (reserve_quota; release_quota: "Never        *)
(* creates the key"): once billing has removed the key it stays away, but  *)
(* for the one case the GET-then-write code cannot see: a request that had *)
(* read the key before the removal and applied its write after it.         *)
StaysUnmetered ==
    published = NoQuota /\ counter # NoQuota => caught \cap (took \cup gave) # {}
=============================================================================
