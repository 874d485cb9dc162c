---------------------------- MODULE Idempotency ----------------------------
(* One Idempotency-Key of one subject: V1Store.idempotency_begin and       *)
(* idempotency_finish (src/app/services/v1_store.py) around the billable   *)
(* call of src/app/routes/v1.py. A request here is one HTTP attempt that   *)
(* carries the key; a client may send any number of them, in any overlap.  *)
(*                                                                         *)
(* Time passes in ticks. A claim lives ClaimTTL ticks (120 s), a stored    *)
(* result DoneTTL ticks (a day), and an attempt runs for at most MaxRun    *)
(* ticks (its one slow step, the upstream call, times out after 15 s).     *)
EXTENDS Integers, FiniteSets

CONSTANTS
    Request,     \* attempts
    Body,        \* request bodies, told apart by request_fingerprint
    Carried,     \* the ways bodies may be spread over the attempts
    NoRecord,    \* the key holds nothing
    ClaimTTL, DoneTTL, MaxRun,
    MaxFaults    \* bound on the Redis errors of a behaviour

ASSUME BodyAssumption == Carried \subseteq [Request -> Body]
ASSUME TimeAssumption ==
    /\ ClaimTTL \in Nat /\ DoneTTL \in Nat /\ MaxRun \in Nat
    /\ MaxRun < ClaimTTL /\ ClaimTTL <= DoneTTL
ASSUME FaultAssumption == MaxFaults \in Nat
ASSUME FiniteAssumption == IsFiniteSet(Request)

VARIABLES
    body,     \* the body each attempt carries
    record,   \* what the Redis key holds
    ttl,      \* ticks until it expires
    step,     \* where each attempt is
    age,      \* how long it has been running
    served,   \* the attempt whose result it returned (itself, or a replay)
    ran,      \* history: attempts whose work was done successfully
    lapsed,   \* history: attempts whose stored result reached its DoneTTL
    faults    \* history: Redis errors so far

vars == <<body, record, ttl, step, age, served, ran, lapsed, faults>>

(* "set", "get": in idempotency_begin. "run": state "new", the call runs.  *)
(* "ok", "bad": the call ended with / without a 2xx, finish is next.       *)
Running == {"run", "ok", "bad"}
Live    == {"set", "get"} \cup Running
Final   == {"replay", "mismatch", "in_progress", "done", "failed", "dead"}

Record == [state : {"in_progress", "done"}, body : Body, by : Request]

ASSUME NoRecordAssumption == NoRecord \notin Record

Claim(r)  == [state |-> "in_progress", body |-> body[r], by |-> r]
Result(r) == [state |-> "done", body |-> body[r], by |-> r]

Init ==
    /\ body \in Carried
    /\ record = NoRecord
    /\ ttl = 0
    /\ step = [r \in Request |-> "set"]
    /\ age = [r \in Request |-> 0]
    /\ served = [r \in Request |-> {}]
    /\ ran = {}
    /\ lapsed = {}
    /\ faults = 0

Goto(r, s) == step' = [step EXCEPT ![r] = s] /\ UNCHANGED body
Store(rec, t) == record' = rec /\ ttl' = t
Fault == faults < MaxFaults /\ faults' = faults + 1

----------------------------------------------------------------------------
(* Mutants *)

(* the claim stored without NX: a second attempt takes it over *)
BeginSetAlways(r) ==
    /\ step[r] = "set"
    /\ Store(Claim(r), ClaimTTL)
    /\ Goto(r, "run")
    /\ UNCHANGED <<age, served, ran, lapsed, faults>>

(* the claim stored without EX: it never expires *)
BeginSetNoExpiry(r) ==
    /\ step[r] = "set"
    /\ IF record = NoRecord
       THEN Store(Claim(r), 0) /\ Goto(r, "run")
       ELSE UNCHANGED <<record, ttl>> /\ Goto(r, "get")
    /\ UNCHANGED <<age, served, ran, lapsed, faults>>

(* the stored state tested before the fingerprint *)
AnswerNoFingerprint(r) ==
    IF record = NoRecord THEN "in_progress"
    ELSE IF record.state = "done" THEN "replay"
    ELSE IF record.body # body[r] THEN "mismatch" ELSE "in_progress"

(* a result stored with no expiry argument *)
FinishNegativeTTL(r) ==
    IF step[r] = "ok" THEN Store(Result(r), -1) ELSE Store(NoRecord, 0)

(* the claim dropped on success too, so that nothing is left to replay *)
FinishDeletes(r) == Store(NoRecord, 0)

----------------------------------------------------------------------------
(* idempotency_begin *)

(* SET NX EX *)
BeginSet(r) ==
    /\ step[r] = "set"
    /\ IF record = NoRecord
       THEN Store(Claim(r), ClaimTTL) /\ Goto(r, "run")
       ELSE UNCHANGED <<record, ttl>> /\ Goto(r, "get")
    /\ UNCHANGED <<age, served, ran, lapsed, faults>>

(* Fails open as "new", whether or not the claim was stored. *)
BeginSetFails(r) ==
    /\ step[r] = "set"
    /\ Fault
    /\ \/ record = NoRecord /\ Store(Claim(r), ClaimTTL)
       \/ UNCHANGED <<record, ttl>>
    /\ Goto(r, "run")
    /\ UNCHANGED <<age, served, ran, lapsed>>

(* What the stored record answers an attempt that did not get the claim. *)
Answer(r) ==
    IF record = NoRecord THEN "in_progress"
    ELSE IF record.body # body[r] THEN "mismatch"
    ELSE IF record.state = "done" THEN "replay" ELSE "in_progress"

BeginGet(r) ==
    /\ step[r] = "get"
    /\ Goto(r, Answer(r))
    /\ served' = [served EXCEPT ![r] =
                     IF step'[r] = "replay" THEN {record.by} ELSE {}]
    /\ UNCHANGED <<record, ttl, age, ran, lapsed, faults>>

BeginGetFails(r) ==
    /\ step[r] = "get"
    /\ Fault
    /\ Goto(r, "run")
    /\ UNCHANGED <<record, ttl, age, served, ran, lapsed>>

----------------------------------------------------------------------------
(* The call itself, and idempotency_finish. *)

Execute(r) ==
    /\ step[r] = "run"
    /\ \/ Goto(r, "ok") /\ ran' = ran \cup {r}
       \/ Goto(r, "bad") /\ UNCHANGED ran
    /\ UNCHANGED <<record, ttl, age, served, lapsed, faults>>

(* A 2xx stores the result; anything else deletes the key, whoever's it is. *)
FinishWrite(r) ==
    IF step[r] = "ok" THEN Store(Result(r), DoneTTL) ELSE Store(NoRecord, 0)

Respond(r) ==
    /\ Goto(r, IF step[r] = "ok" THEN "done" ELSE "failed")
    /\ served' = [served EXCEPT ![r] = IF step[r] = "ok" THEN {r} ELSE {}]

Finish(r) ==
    /\ step[r] \in {"ok", "bad"}
    /\ FinishWrite(r)
    /\ Respond(r)
    /\ UNCHANGED <<age, ran, lapsed, faults>>

FinishFails(r) ==
    /\ step[r] \in {"ok", "bad"}
    /\ Fault
    /\ FinishWrite(r) \/ UNCHANGED <<record, ttl>>
    /\ Respond(r)
    /\ UNCHANGED <<age, ran, lapsed>>

(* The process dies, or the handler raises (S is one attempt), before      *)
(* idempotency_finish.                                                     *)
Crash(S) ==
    /\ \E r \in S : step[r] \in Live
    /\ step' = [r \in Request |->
                   IF r \in S /\ step[r] \in Live THEN "dead" ELSE step[r]]
    /\ UNCHANGED <<body, record, ttl, age, served, ran, lapsed, faults>>

(* External: time passes. *)
Tick ==
    /\ \A r \in Request : step[r] \in Running => age[r] < MaxRun
    /\ age' = [r \in Request |-> IF step[r] \in Running THEN age[r] + 1 ELSE 0]
    /\ IF ttl = 1
       THEN /\ Store(NoRecord, 0)
            /\ lapsed' = IF record.state = "done" THEN lapsed \cup {record.by} ELSE lapsed
       ELSE /\ ttl' = IF ttl > 0 THEN ttl - 1 ELSE ttl
            /\ UNCHANGED <<record, lapsed>>
    /\ UNCHANGED <<body, step, served, ran, faults>>

Begin(r)      == BeginSet(r) \/ BeginGet(r)
BeginFails(r) == BeginSetFails(r) \/ BeginGetFails(r)

Next ==
    \/ \E r \in Request : Begin(r) \/ BeginFails(r)
    \/ \E r \in Request : Execute(r) \/ Finish(r) \/ FinishFails(r)
    \/ \E S \in SUBSET Request : Crash(S)
    \/ Tick

Spec == Init /\ [][Next]_vars

(* Time passes, and a running attempt ends (its upstream call times out)   *)
(* unless it dies.                                                         *)
FairSpec == Spec /\ WF_vars(Tick)
                 /\ \A r \in Request : WF_vars(Execute(r) \/ Finish(r))

----------------------------------------------------------------------------
(* Properties *)

(* The key holds nothing or a claim or result with an expiry, and every    *)
(* attempt is at a point of the protocol.                                  *)
TypeOK ==
    /\ body \in [Request -> Body]
    /\ record \in Record \cup {NoRecord}
    /\ ttl \in 0..DoneTTL
    /\ step \in [Request -> Live \cup Final]
    /\ age \in [Request -> 0..MaxRun]
    /\ served \in [Request -> SUBSET Request]
    /\ ran \subseteq Request
    /\ lapsed \subseteq Request
    /\ faults \in 0..MaxFaults

(* "A retried request is never run or billed twice": the work behind one   *)
(* key is done at most once, plus once for each stored result that reached *)
(* its expiry, each attempt that died after the work and before storing    *)
(* it, and each Redis error. Holds although finish overwrites or deletes   *)
(* the key without checking whose claim it is.                             *)
NeverRunTwice ==
    Cardinality(ran)
        <= 1 + Cardinality(lapsed)
             + Cardinality({r \in ran : step[r] = "dead"}) + faults

(* An attempt answered by replay gets the result of an attempt that really *)
(* succeeded, with the same body.                                          *)
ReplayFaithful ==
    \A r \in Request : \A q \in served[r] :
        q \in ran /\ body[q] = body[r] /\ step[r] \in {"replay", "done"}

(* Without Redis errors the attempt that runs is the one whose claim is in *)
(* the key: no other attempt runs beside it, its claim never expires under *)
(* it, and its finish writes over its own claim only.                      *)
RunnerOwnsClaim ==
    faults = 0 => \A r \in Request : step[r] \in Running => record = Claim(r)

(* "Short enough that a crashed request does not lock the key for long":   *)
(* a claim does not stay for ever, whatever retries arrive meanwhile.      *)
ClaimEnds ==
    \A r \in Request : record = Claim(r) ~> record # Claim(r)
=============================================================================
