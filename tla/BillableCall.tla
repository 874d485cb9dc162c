---------------------------- MODULE BillableCall ----------------------------
(* The life of the billable /v1 calls of one caller:                       *)
(* _handle_billable_literature_call (src/app/routes/v1.py), composed from  *)
(* the stores it uses and the contract it translates by. The handler's own *)
(* state is the stage each request has reached and what it got on the way; *)
(* every step on Redis or on the outbox is a step of the component's       *)
(* module, so what holds of Quota, Slots, Idempotency and UsageOutbox      *)
(* holds of these calls.                                                   *)
(*                                                                         *)
(* All calls of a behaviour carry one Idempotency-Key, or none, and bill   *)
(* one resource: /answers and /search have separate quota counters, and    *)
(* only /answers has a concurrency cap. No TTL runs out within a behaviour *)
(* (the components' own modules are about time).                           *)
EXTENDS Integers, Sequences, FiniteSets, LiteratureContract

CONSTANTS
    Request,
    Caller, Org,     \* the one subject, and its organization
    Limit, Allowance, NoQuota, NoKey, NoRecord,
    Calls,       \* what the requests may ask for together
    MaxFaults    \* bound on the Redis and SQLite errors of a behaviour

(* A test key is always a test key. *)
Shape == [keyed : BOOLEAN, test : BOOLEAN, body : RequestBody \cup {NotAnObject}]
ASSUME CallsAssumption ==
    /\ Calls \subseteq [Request -> Shape]
    /\ \A f \in Calls : \A r, q \in Request : f[r].test = f[q].test
ASSUME StoreAssumption ==
    /\ IsFiniteSet(Request) /\ Org # Caller
    /\ Limit \in Nat /\ MaxFaults \in Nat /\ Allowance \subseteq Nat
    /\ NoKey \notin Int /\ NoQuota \notin Int

VARIABLES
    stage,       \* where each request is in the handler
    input,       \* what kind of call it is
    key,         \* the provider key it was given: "none", "key" or "null"
    usage,       \* the token counts of its public response
    outcome,     \* how it is going to be answered
    endpoint,    \* "answers" or "search"
    faults,      \* history: errors of any store so far
    \* Quota
    counter, qphase, published, took, gave, blind, caught,
    \* Slots
    cnt, sttl, sstep, slevel, over, sage, counted, sfaults, lost,
    \* Idempotency
    record, ittl, istep, iage, served, ran, lapsed, ifaults,
    \* UsageOutbox
    pending, sent, lock, blocked, at, rows, unacked, backlog, clean

quotaVars == <<counter, qphase, published, took, gave, blind, caught>>
slotVars  == <<cnt, sttl, sstep, slevel, over, sage, counted, sfaults, lost>>
idemVars  == <<record, ittl, istep, iage, served, ran, lapsed, ifaults>>
usageVars == <<pending, sent, lock, blocked, at, rows, unacked, backlog, clean>>
vars == <<stage, input, key, usage, outcome, endpoint, faults, quotaVars, slotVars, idemVars, usageVars>>

(* A call emits one event for its resource and one for each direction of   *)
(* token use that its public response counts.                              *)
Unit == {"call", "input", "output"}
Emission == Request \X Unit

Q == INSTANCE Quota WITH phase <- qphase
S == INSTANCE Slots WITH ttl <- sttl, step <- sstep, level <- slevel, age <- sage,
                         faults <- sfaults, SlotTTL <- 2, MaxHold <- 1,
                         Subject <- {Caller}, SubjectOf <- [r \in Request |-> Caller]
Body == {f[r].body : f \in Calls, r \in Request}
I == INSTANCE Idempotency WITH ttl <- ittl, step <- istep, age <- iage,
                               faults <- ifaults, Carried <- [Request -> Body],
                               body <- [r \in Request |-> input[r].body],
                               ClaimTTL <- 2, DoneTTL <- 3, MaxRun <- 1
U == INSTANCE UsageOutbox

ASSUME NoRecordAssumption == NoRecord \notin I!Record

(* The event loop thread runs at most one coroutine at a time and none     *)
(* while it is blocked on the outbox lock.                                 *)
LoopRuns == blocked = {}

(* The coroutine of r runs on from stage s; what the call is stays as it is.*)
Resume(r, s) == stage[r] = s /\ LoopRuns /\ UNCHANGED <<input, endpoint>>

Init ==
    /\ stage = [r \in Request |-> "arrive"]
    /\ input \in Calls
    /\ key = [r \in Request |-> "none"]
    /\ usage = [r \in Request |-> {}]
    /\ outcome = [r \in Request |-> "none"]
    /\ endpoint \in {"answers", "search"}
    /\ faults = 0
    /\ Q!Init /\ S!Init /\ I!Init /\ U!Init

----------------------------------------------------------------------------
(* Control flow. *)

got == <<key, usage>>
Move(r, s) == stage' = [stage EXCEPT ![r] = s]
Goto(r, s) == Move(r, s) /\ UNCHANGED <<outcome, got>>
Decide(r, s, o) == Move(r, s) /\ outcome' = [outcome EXCEPT ![r] = o] /\ UNCHANGED got
Wait == UNCHANGED <<stage, outcome, got>>

(* build_rag_body(body), and the BYOK model it names. *)
RagBody(r) == IF endpoint = "answers" THEN BuildRagQuery(input[r].body)
                                      ELSE BuildRagSearchQuery(input[r].body)
ByokModel(r) == IF input[r].test THEN Nil ELSE RagBody(r).model

(* A step of a store: ok, or one of its failures. *)
Try(ok, fails) ==
    \/ ok /\ UNCHANGED faults
    \/ fails /\ faults < MaxFaults /\ faults' = faults + 1

Capped(r) == endpoint = "answers" /\ ~input[r].test

(* Mutant: a test key treated like any other once past the claim. *)
AfterRevealTestToo(r) == IF Capped(r) THEN "acquire" ELSE "reserve"

AfterReveal(r) ==
    IF Capped(r) THEN "acquire"
    ELSE IF input[r].test THEN "canned" ELSE "reserve"

AfterClaim(r) ==
    IF ByokModel(r) # Nil THEN "reveal" ELSE AfterReveal(r)

(* The result is known: a keyed call is about to run idempotency_finish.   *)
Ran(r, ok) ==
    IF input[r].keyed
    THEN I!Execute(r) /\ istep'[r] = IF ok THEN "ok" ELSE "bad"
    ELSE UNCHANGED idemVars

(* A failure found before the try block leaves nothing to release.         *)
FailEarly(r) ==
    /\ Ran(r, FALSE)
    /\ Decide(r, "finish", "error")

----------------------------------------------------------------------------
(* One command of _acquire_concurrency_slots. *)
SlotStep(r) ==
    \/ S!Call(r) /\ UNCHANGED faults
    \/ Try(S!Acquire(r), S!AcquireFails(r))
    \/ sstep[r] = "back" /\ Try(S!ReleaseDecr(r), S!ReleaseDecrFails(r))

----------------------------------------------------------------------------
(* Mutants *)

(* the upstream error path without release_quota *)
ForwardFailsNoRefund(r) ==
    /\ Resume(r, "forward")
    /\ Ran(r, FALSE)
    /\ Decide(r, "finish", "error")
    /\ UNCHANGED <<faults, quotaVars, slotVars, usageVars>>

(* the success path returning as soon as the result is stored *)
AfterFinishNoEmit(r) ==
    IF Capped(r) /\ sstep[r] = "hold" THEN "release" ELSE "answered"

(* an early return inside the try block with no finally *)
AfterFinishNoFinally(r) ==
    IF outcome[r] = "ok" /\ ~input[r].test THEN "emit" ELSE "answered"

(* waiting for a slot instead of answering 429 *)
AcquireRetries(r) ==
    /\ Resume(r, "acquire")
    /\ SlotStep(r)
    /\ IF sstep'[r] = "hold" THEN Goto(r, "reserve") ELSE Wait
    /\ UNCHANGED <<quotaVars, idemVars, usageVars>>

(* the translation's exception caught and logged, with nothing returned *)
ForwardRaisesSwallowed(r) ==
    /\ Resume(r, "forward")
    /\ Goto(r, IF Capped(r) THEN "release" ELSE "answered")
    /\ UNCHANGED <<faults, quotaVars, slotVars, idemVars, usageVars>>

(* the reveal failure returned without releasing the claim *)
RevealFailsKeepsClaim(r) ==
    /\ Resume(r, "reveal")
    /\ Decide(r, "answered", "error")
    /\ UNCHANGED <<faults, quotaVars, slotVars, idemVars, usageVars>>

----------------------------------------------------------------------------
(* Actions, in the order of the handler *)

(* What follows once the result is stored, and once it is billed. *)
AfterFinish(r) ==
    IF outcome[r] = "ok" /\ ~input[r].test THEN "emit"
    ELSE IF Capped(r) /\ sstep[r] = "hold" THEN "release" ELSE "answered"

AfterEmit(r) == IF Capped(r) THEN "release" ELSE "answered"

(* No organization, no JSON, the rate limit (RateLimit) or a malformed     *)
(* Idempotency-Key, and always an unsupported body: answered with nothing  *)
(* touched.                                                                *)
Reject(r) ==
    /\ Resume(r, "arrive")
    /\ Decide(r, "answered", "error")
    /\ UNCHANGED <<faults, quotaVars, slotVars, idemVars, usageVars>>

(* The translation raises something other than UnsupportedRequestError. *)
TranslationRaises(r) ==
    /\ Resume(r, "arrive")
    /\ RagBody(r) = Raises
    /\ Decide(r, "answered", "raised")
    /\ UNCHANGED <<faults, quotaVars, slotVars, idemVars, usageVars>>

Accept(r) ==
    /\ Resume(r, "arrive")
    /\ RagBody(r).kind = "query"
    /\ Goto(r, IF input[r].keyed THEN "claim" ELSE AfterClaim(r))
    /\ UNCHANGED <<faults, quotaVars, slotVars, idemVars, usageVars>>

Claim(r) ==
    /\ Resume(r, "claim")
    /\ Try(I!Begin(r), I!BeginFails(r))
    /\ \/ istep'[r] = "get" /\ Wait
       \/ istep'[r] = "run" /\ Goto(r, AfterClaim(r))
       \/ istep'[r] = "replay" /\ Decide(r, "answered", "replay")
       \/ istep'[r] \in {"mismatch", "in_progress"} /\ Decide(r, "answered", "error")
    /\ UNCHANGED <<quotaVars, slotVars, usageVars>>

(* _reveal_provider_key, from the auth service (external): a 200 without   *)
(* an api_key counts as success.                                           *)
Reveal(r) ==
    /\ Resume(r, "reveal")
    /\ \E k \in {"key", "null"} : key' = [key EXCEPT ![r] = k]
    /\ Move(r, AfterReveal(r))
    /\ UNCHANGED <<outcome, usage>>
    /\ UNCHANGED <<faults, quotaVars, slotVars, idemVars, usageVars>>

RevealFails(r) ==
    /\ Resume(r, "reveal")
    /\ FailEarly(r)
    /\ UNCHANGED <<faults, quotaVars, slotVars, usageVars>>

(* A 200 whose body is no object: _reveal_provider_key raises, and with it *)
(* the handler, which has not entered its try block yet.                   *)
RevealRaises(r) ==
    /\ Resume(r, "reveal")
    /\ Decide(r, "answered", "raised")
    /\ UNCHANGED <<faults, quotaVars, slotVars, idemVars, usageVars>>

Acquire(r) ==
    /\ Resume(r, "acquire")
    /\ SlotStep(r)
    /\ \/ sstep'[r] = "ready" /\ FailEarly(r)
       \/ sstep'[r] = "hold" /\ Goto(r, "reserve") /\ UNCHANGED idemVars
       \/ sstep'[r] \notin {"ready", "hold"} /\ Wait /\ UNCHANGED idemVars
    /\ UNCHANGED <<quotaVars, usageVars>>

(* A test key gets its canned answer. *)
Canned(r) ==
    /\ Resume(r, "canned")
    /\ Ran(r, TRUE)
    /\ Decide(r, "finish", "ok")
    /\ UNCHANGED <<faults, quotaVars, slotVars, usageVars>>

Reserve(r) ==
    /\ Resume(r, "reserve")
    /\ Try(Q!Reserve(r), Q!ReserveFails(r))
    /\ \/ qphase'[r] = "granted" /\ Goto(r, "forward") /\ UNCHANGED idemVars
       \/ qphase'[r] = "denied" /\ Ran(r, FALSE) /\ Decide(r, "finish", "error")
       \/ qphase'[r] \in Q!Reserving /\ Wait /\ UNCHANGED idemVars
    /\ UNCHANGED <<slotVars, usageVars>>

(* The upstream call and the translation of its answer. External: RAG may  *)
(* report token counts, either, both or none. The comment beside the code  *)
(* says that it does so for a BYOK call only; the code does not look.      *)
Forward(r) ==
    /\ Resume(r, "forward")
    /\ Q!Consume(r)
    /\ Ran(r, TRUE)
    /\ \E t \in SUBSET {"input", "output"} :
           usage' = [usage EXCEPT ![r] = PublicUsage(RagBody(r).mode, t)]
    /\ Move(r, "finish")
    /\ outcome' = [outcome EXCEPT ![r] = "ok"]
    /\ UNCHANGED key
    /\ UNCHANGED <<faults, slotVars, usageVars>>

(* Not a 2xx, or no answer at all: ProxyClient.forward reports a 500. *)
ForwardFails(r) ==
    /\ Resume(r, "forward")
    /\ Goto(r, "refund")
    /\ UNCHANGED <<faults, quotaVars, slotVars, idemVars, usageVars>>

(* A 2xx whose body is not the expected object: the translation raises,    *)
(* and only the finally block still runs.                                  *)
ForwardRaises(r) ==
    /\ Resume(r, "forward")
    /\ Decide(r, AfterEmit(r), "raised")
    /\ UNCHANGED <<faults, quotaVars, slotVars, idemVars, usageVars>>

Refund(r) ==
    /\ Resume(r, "refund")
    /\ Try(Q!Release(r), Q!ReleaseFails(r))
    /\ IF qphase'[r] = "released"
       THEN Ran(r, FALSE) /\ Decide(r, "finish", "error")
       ELSE Wait /\ UNCHANGED idemVars
    /\ UNCHANGED <<slotVars, usageVars>>

Finish(r) ==
    /\ Resume(r, "finish")
    /\ IF input[r].keyed
       THEN Try(I!Finish(r), I!FinishFails(r))
       ELSE UNCHANGED <<idemVars, faults>>
    /\ Goto(r, AfterFinish(r))
    /\ UNCHANGED <<quotaVars, slotVars, usageVars>>

(* emit_usage runs for the call, then for the input and the output tokens, *)
(* as far as the public response counts them.                              *)
Emitting(r, u) == at[<<r, u>>] \in U!Active \ {"ready"}
Emitted(r, u)  == at[<<r, u>>] \in {"done", "lost"}
Due(r) ==
    LET left == {u \in {"call"} \cup usage[r] : ~Emitted(r, u)}
    IN  IF \E u \in Unit : Emitting(r, u) THEN {u \in Unit : Emitting(r, u)}
        ELSE IF "call" \in left THEN {"call"}
        ELSE IF "input" \in left THEN {"input"} ELSE left

EmitUsage(r) ==
    /\ stage[r] = "emit" /\ UNCHANGED <<input, endpoint>>
    /\ \E u \in Due(r) : Try(U!EmitUsage(<<r, u>>), U!EmitFails(<<r, u>>))
    /\ Wait
    /\ UNCHANGED <<quotaVars, slotVars, idemVars>>

EmitReturns(r) ==
    /\ Resume(r, "emit")
    /\ Due(r) = {}
    /\ Goto(r, AfterEmit(r))
    /\ UNCHANGED <<faults, quotaVars, slotVars, idemVars, usageVars>>

(* The finally block. *)
ReleaseSlots(r) ==
    /\ Resume(r, "release")
    /\ Try(S!ReleaseDecr(r), S!ReleaseDecrFails(r))
    /\ IF sstep'[r] = "ready" THEN Goto(r, "answered") ELSE Wait
    /\ UNCHANGED <<quotaVars, idemVars, usageVars>>

InFlight == {r \in Request : stage[r] \notin {"arrive", "answered", "dead"}}

(* The gateway process dies and restarts; every request in flight is gone. *)
Crash ==
    /\ InFlight # {} /\ UNCHANGED <<input, endpoint>>
    /\ stage' = [r \in Request |-> IF r \in InFlight THEN "dead" ELSE stage[r]]
    /\ Q!Crash(InFlight) \/ (UNCHANGED quotaVars /\ \A r \in InFlight : qphase[r] \in Q!Final)
    /\ S!Crash(InFlight) \/ (UNCHANGED slotVars /\ \A r \in InFlight : sstep[r] \notin S!InFlight)
    /\ I!Crash(InFlight) \/ (UNCHANGED idemVars /\ \A r \in InFlight : istep[r] \notin I!Live)
    /\ U!Restart \/ (UNCHANGED usageVars /\ \A e \in Emission : ~U!Started(e))
    /\ UNCHANGED <<got, outcome, faults>>

Step(r) ==
    \/ Reject(r) \/ TranslationRaises(r) \/ Accept(r) \/ Claim(r) \/ Reveal(r)
    \/ RevealFails(r) \/ RevealRaises(r) \/ Acquire(r) \/ Canned(r) \/ Reserve(r)
    \/ Forward(r) \/ ForwardFails(r) \/ ForwardRaises(r) \/ Refund(r)
    \/ Finish(r) \/ EmitUsage(r) \/ EmitReturns(r) \/ ReleaseSlots(r)

Next == (\E r \in Request : Step(r)) \/ Crash

Spec == Init /\ [][Next]_vars

(* Every await of a request in flight ends, as long as the event loop      *)
(* runs: upstream calls have a timeout, and a Redis command is assumed to  *)
(* be answered or to fail (the clients are built without a socket timeout).*)
FairSpec == Spec /\ \A r \in Request : WF_vars(stage[r] # "arrive" /\ Step(r))

----------------------------------------------------------------------------
(* Properties *)

Stage == {"arrive", "claim", "reveal", "acquire", "canned", "reserve", "forward",
          "refund", "finish", "emit", "release", "answered", "dead"}
Outcome == {"none", "ok", "error", "replay", "raised"}

(* Before the result is known. *)
Early == {"arrive", "claim", "reveal", "acquire", "canned", "reserve", "forward", "refund"}

Types ==
    /\ stage \in [Request -> Stage]
    /\ input \in Calls
    /\ key \in [Request -> {"none", "key", "null"}]
    /\ usage \in [Request -> SUBSET Unit]
    /\ outcome \in [Request -> Outcome]
    /\ endpoint \in {"answers", "search"}

(* The handler's own state is well formed: a live call has a result just   *)
(* when it is past the stages that find one, so no path out of the handler *)
(* answers without one.                                                    *)
TypeOK ==
    /\ Types
    /\ \A r \in Request : stage[r] # "dead" => (outcome[r] = "none" <=> stage[r] \in Early)

Answered(o) == {r \in Request : stage[r] = "answered" /\ outcome[r] = o}
InOutbox(e) == e \in U!Range(pending)
Recorded(e) == sent[e] > 0 \/ InOutbox(e)

(* "You were not charged", of every call that was not served: whether it   *)
(* was answered with an error or an exception got out of the handler (a    *)
(* 500), there is no usage event of it in the stream or the outbox, and it *)
(* keeps no quota unit unless a Redis error swallowed its refund. One      *)
(* failure does keep its unit, and only that one: an exception out of the  *)
(* translation of RAG's 2xx answer, between the reservation and the end of *)
(* the handler, where no release_quota runs. Every other exception leaves  *)
(* the handler before the reservation.                                     *)
KeepsUnit(r) == outcome[r] = "raised" /\ qphase[r] = "granted"
ErrorNotCharged ==
    \A r \in Answered("error") \cup Answered("raised") :
        /\ \A u \in Unit : ~Recorded(<<r, u>>)
        /\ \/ KeepsUnit(r)
           \/ /\ qphase[r] \in {"idle", "denied", "released"}
              /\ faults = 0 => r \notin took \ gave

(* "Exactly one billable usage event per successful billable call": a call *)
(* answered with its own result, by a live key, has every event due        *)
(* recorded (lost only when the outbox itself failed) and keeps its quota  *)
(* unit; one answered by replay was served the result of a call that keeps *)
(* its unit and is recorded, still on its way to be, or dead before it was.*)
Charged(r) ==
    /\ qphase[r] = "spent"
    /\ \A u \in {"call"} \cup usage[r] :
           Recorded(<<r, u>>) \/ at[<<r, u>>] = "lost"
SuccessCharged ==
    /\ \A r \in Answered("ok") : ~input[r].test => Charged(r)
    /\ \A r \in Answered("replay") : ~input[r].test =>
           \E q \in served[r] : \/ Charged(q)
                                \/ qphase[q] = "spent" /\ stage[q] \in {"emit", "dead"}

(* "A caller who asks for Claude and silently gets the default model, or   *)
(* asks to stream and silently gets one JSON blob, would be a worse        *)
(* failure than a clear 400": an /answers call reaches RAG only with the   *)
(* model it asked for, with the organization's key looked up for that very *)
(* call if there is one, and never if it asked to stream; search carries   *)
(* neither model nor key. Nor is token use made up: an event for it is     *)
(* only emitted by an /answers call that RAG served, for a direction that  *)
(* RAG's own answer to that very call counted. (That RAG counts tokens on  *)
(* BYOK calls only, as the handler's comment has it, is RAG's to keep: the *)
(* gateway bills any count it is given.)                                   *)
NoSilentSubstitution ==
    \A r \in Request :
        /\ stage[r] \in {"forward", "refund"} =>
             IF endpoint = "search"
             THEN RagBody(r).mode = "search" /\ RagBody(r).model = Nil /\ key[r] = "none"
             ELSE /\ RagBody(r).model = input[r].body.model
                  /\ RagBody(r).model # Nil <=> key[r] # "none"
                  /\ ~input[r].body.stream
        /\ \A u \in {"input", "output"} : at[<<r, u>>] # "ready"
             => endpoint = "answers" /\ outcome[r] = "ok" /\ ~input[r].test /\ u \in usage[r]

(* "A test key must never consume real org quota, real RAG capacity, or be *)
(* billed", and a replay runs nothing: neither ever touches the quota, a   *)
(* slot or the usage stream.                                               *)
FreeCallsTouchNothing ==
    \A r \in Request : (input[r].test \/ outcome[r] = "replay") =>
        /\ qphase[r] \in {"idle", "dead"}
        /\ sstep[r] \in {"ready", "dead"}
        /\ \A u \in Unit : at[<<r, u>>] = "ready"

(* "A slot held by a request that's already finished answering must never  *)
(* count against the next one": however the handler was left, an exception *)
(* included, an answered call is out of both counters (unless a Redis      *)
(* error swallowed a release).                                             *)
AnsweredHoldsNoSlot ==
    \A r \in Request : stage[r] = "answered" =>
        /\ sstep[r] = "ready"
        /\ faults = 0 => \A k \in S!Key : r \notin counted[k]

(* "A retried request is never run or billed twice": without store errors  *)
(* and crashes, one Idempotency-Key buys at most one upstream run, one     *)
(* quota unit and one event, and no answered call leaves its claim behind  *)
(* (but for an answer that raised), so the next retry is not refused.      *)
KeyRunsOnce ==
    faults = 0 =>
        /\ Cardinality({r \in Request :
               /\ input[r].keyed /\ ~input[r].test
               /\ qphase[r] = "spent" /\ stage[r] # "dead"}) <= 1
        /\ \A r \in Request :
               stage[r] = "answered" /\ outcome[r] # "raised" => record # I!Claim(r)

(* Every call that was accepted is answered, unless the process died or is *)
(* blocked on the outbox lock.                                             *)
EveryCallEnds ==
    \A r \in Request :
        r \in InFlight ~> stage[r] \in {"answered", "dead"} \/ blocked # {}
=============================================================================
