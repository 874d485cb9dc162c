# TLA+ models and proofs for omnibioai-api-gateway

The gateway is an asyncio Python service (FastAPI/Starlette) in front of the
OmniBioAI back ends. It authenticates a request, asks a policy engine and, for
compute services, an HPC engine, writes an audit trail and forwards the request.
For its public `/v1` API it also meters: rate, concurrency, prepaid quota,
idempotent retries and usage events for billing.

This directory holds models of the parts of it that keep state or take decisions
over several steps, TLC configurations that check them, and TLAPS proofs, for
every value of the constants, of all safety properties but those of the in-process
store. `PROJECT.json` maps every definition to the source lines it models and lists
runs, mutants, findings, hazards and theorems.

    tlc -workers 2 -config MCQuota.cfg MCQuota      # a run
    tlapm QuotaProofs.tla                           # the proofs

## 1. Inventory

### Components

| Component | Source | State | Operations | Model |
|---|---|---|---|---|
| Quota counter | `services/v1_store.py` | one Redis integer per (organization, resource), maintained by billing | `reserve_quota`, `release_quota` | `Quota` |
| Concurrency slots | `services/v1_store.py`, `routes/v1.py` | one expiring Redis counter per caller and per organization | `acquire_concurrency_slot`, `release_concurrency_slot` and the pairs of calls around them | `Slots` |
| Idempotency records | `services/v1_store.py` | one expiring Redis record per (caller, key): a claim or a stored result | `idempotency_begin`, `idempotency_finish` | `Idempotency` |
| Usage outbox | `services/outbox.py`, `services/v1_store.py` | the usage stream (Redis), a SQLite table of pending events, a thread lock | `emit_usage`, `drain`, `write` | `UsageOutbox` |
| Billable call | `routes/v1.py` | none of its own: the position in the handler | `_handle_billable_literature_call` | `BillableCall` |
| Identity cache | `services/iam_client.py`, `main.py` | signed cache entries in Redis, a pub/sub subscription | `validate`, `validate_api_key`, `evict`, the invalidation loop | `IAMCache` |
| Middleware chain, routing | `middleware/*`, `core/router.py`, `routes/gateway.py`, engine clients | `request.state` of one request | `dispatch` of each middleware, `evaluate` of each engine client, route resolution | `RequestChain` |
| Hosted MCP | `services/mcp_auth.py`, `services/mcp_server.py` | none (sessions are the library's) | bearer gate; tools that call `/v1` over loopback | the gate in `RequestChain` |
| Rate limit | `services/v1_store.py`, `routes/v1.py` | a token bucket per caller and per organization, a plan limit maintained by billing | `_rate_limited`, `rate_limit_for_org`, `hit_rate_limit` | `RateLimit` |
| In-process store | `services/v1_store.py` | `MemoryStore`: a dict with expiries, pruned at a limit | the Redis commands above | `MemoryStore`, implementing `ExpiringMap` |
| Audit publication | `services/audit_client.py` | tasks in flight | `fire_audit`, `_emit` | in `RequestChain` |
| Literature contract | `services/literature_contract.py` | none | translation of requests and answers | `LiteratureContract`, used by `BillableCall` |
| Research inquiry relay | `routes/research_inquiries.py` | none | one relayed POST | that it is relayed, in `RequestChain` |
| Trace ids | `middleware/s2s.py` | `request.state.trace_id` | taken from the header or generated | not modelled |
| Configuration, helpers | `core/config.py`, `core/permissions.py`, `core/security.py` | environment | pure helpers | not modelled |

### How they interact

A request passes Trace, Auth, Policy, HPC and Audit middleware and reaches a
handler; each fires audit events that tasks of their own publish. Auth calls
`IAMClient`, which reads and fills the cache that the invalidation loop, a
background task, evicts from. A `/v1` literature handler translates the body,
passes the rate limit, and calls the stores in a fixed order: claim the
Idempotency-Key, reveal the provider key, acquire two slots, reserve a quota
unit, forward to RAG, refund on failure, finish the key, emit usage events,
release the slots. The stores share nothing but Redis (or the in-process
stand-in for it); the outbox is shared by all requests of the process. Billing
writes the quota counters and reads the usage stream; the auth service publishes
revocations.

### What is hard

* Every `await` is a point where other requests run, and nearly every store
  method makes several Redis commands with awaits between them.
* A Redis command that raises may have been applied. The `/v1` stores then *fail
  open* (carry on as if it had succeeded); identity, policy and HPC *fail
  closed*.
* A process may die between any two commands and leave a slot, a claim, a
  decremented unit or an unsent event behind. Expiry is the only recovery.
* The outbox mixes a thread lock with coroutines.
* Three gates and a router each derive the target service from the path.
* Cached answers outlive the facts they state.

Section 4 lists what each component has to guarantee; `PROJECT.json` lists the
hazards line by line with the property that would notice each.

## 2. The models

A step of a model is what happens between two awaits that matter, usually one
Redis command. A command that fails is a disjunct of its own, in which the
write has or has not been applied. Data is abstracted to what decides control:
a body is what its fingerprint tells apart, a credential is one model value's
worth of cache key, a path is the sequence of its segments. Definitions named
*mutant* are plausible slips in the code; each property has one that breaks it.

**Quota**. One counter. `phase[r]` is the point a call has reached in
`reserve_quota` / `release_quota`; `Reserve…` and `Release…` actions are the GET,
DECR and INCR, each with its failing twin; `Publish` is billing overwriting or
removing the counter, at any time. `took`, `gave`, `blind` and `caught` are
history: who has decremented, incremented, and been granted without seeing the
reply since the last publication, and who stood between a GET and its write
when that publication came.

**Slots**. Two levels of counters with TTLs. `Call` enters
`_acquire_concurrency_slots`; `level` says whose counter the request works on;
`Tick` is the Redis clock. `HoldAssumption` says that a request is in flight for
less time than a counter lives (15 s upstream timeout against a 300 s TTL).

**Idempotency**. One key. Attempts claim (`SET NX EX`), read what is there, run,
and finish with an unconditional SET or DELETE. `TimeAssumption`: an attempt is
shorter than its claim (15 s against 120 s), a claim than a result (a day).

**UsageOutbox**. `pending` is the SQLite table, `sent` what was appended to the stream, `lock` the
`threading.Lock`, `blocked` the coroutine that blocks the event loop thread on
it. Each XADD is two steps, applied by the server and recorded by the process,
and the latter needs a running event loop. `Restart` keeps only the file and the
stream. **UsageLog** is the abstract specification of what `emit_usage` promises: a
log that has each promised event, or keeps it until it does. `UsageOutboxProofs`
instantiates it with the stream as the copies, the table as what is kept, the
emissions at `"done"` as the promised and those at `"lost"` or `"dead"` as the given
up.

**LiteratureContract** holds the translations as operators on an abstract body:
a field's values are those `build_rag_query` and `build_rag_search_query` tell
apart, and the result is a query, `UnsupportedRequestError` or the exception that
`int()` raises on an infinite float.

**BillableCall** composes the four stores (`Q`, `S`, `I` and `U` are `INSTANCE`s)
and the contract: the handler's own state is `stage`, the provider key it was
given and the token counts it will bill, and each of its actions is the
conjunction of a store's action and the handler's next stage, in the order of the
`try`/`finally`. Requests differ in Idempotency-Key, test mode and body. Time does
not pass here: TTLs are the component modules' subject.

**RateLimit**. `at[r]` is the Redis command a check waits for: the plan's limit,
then GET and SET of the caller's bucket, then of the organization's. The time is
taken before the GET (`stale` counts the ticks since) and written by the SET.
Tokens are counted in units of 1/`Window`, so the refill of a tick is an integer.
`ideal` is history: a bucket that starts full, refills at the largest limit and is
charged for each token granted; `crossed` and `taken` remember the SETs that came
between a request's start and its own SET. `WindowAssumption`: a bucket outlives
a refill and a hit (120 s against 60 s and a command's time).

**MemoryStore** has the dict in insertion order, with lapsed entries lingering at
TTL 0, and one atomic action per method (none awaits). **ExpiringMap** is the
abstract specification: Redis' GET, SET NX EX, INCR, DECR, EXPIRE and DEL on a map
that may lose up to `Drop` keys in a write at `MaxKeys` live ones.
`StandsInForRedis` is the refinement, with lapsed entries mapped to absence.

**IAMCache**. One credential, JWT or API key, several requests at a time.
`entry.owner` says whether the MAC is the gateway's; `Revoke` reaches the
listener only when it is subscribed; `ListenerFails` loses what is queued;
`wait` bounds the time between the auth service's answer and the SETEX (the
client's timeout, 3 s); `since` counts how long ago the credential stopped being
good.

**RequestChain**. The skip lists, `SERVICE_MAP`, `SERVICE_PERMISSION_MAP`,
`service_for_path` and the route table as operators on a call `[path, method]`,
and one action per outcome of each middleware. Requests share no state, so one
request suffices. `upstream` has the headers a request is forwarded with and
whose values they are. `fired` are the audit events scheduled, `pending` the tasks
that have not run; `Emit` and `EmitFails` are `_emit`, and `Stop` ends the process
with its tasks. Paths are as received, with or without `root_path`: `FastAPI(...,
root_path="/_svc/gateway")` (`main.py:101`) puts that prefix into every scope, and
Starlette's router strips it, once, from a path that has it before it matches a
route (`services/mcp_auth.py:23-39` describes the mechanism), while the three gates
read `request.url.path`, which keeps it. `Under` says which paths have it, `Routed` is
the path that is matched, `Match` the route table; the gates are operators on the
received path.

Modules only TLC uses (`MC…`) give sets and functions to the constants and define
nothing else.

## 3. Runs, bounds and fairness

| Run | Checks | Instance | Why it is enough |
|---|---|---|---|
| `quota` | `NoOverrun`, `NegativeOnlyWhileShort`, `Settled`, `StaysUnmetered` | 4 calls, allowances none/0/2, any number of publications, lost replies and deaths | two can succeed, two be denied, with refunds and republication between; the theorems cover every size |
| `slots` | `LimitRespected`, `NothingLeaks`, `NoExpiryUnderHolder` | 2 callers, 3 requests that repeat, limit 1, TTL 2, hold 1, one fault | contention on each level and on both, expiry within a hold, one drift |
| `slots_leak` | `LeakReclaimed` (violated) | 2 requests, no fault | a crash and a retrying caller |
| `idempotency` | `NeverRunTwice`, `ReplayFaithful`, `RunnerOwnsClaim`, `ClaimEnds` | 4 attempts, 2 bodies, claim 2, result 3, run 1, one fault | crash, expiry and retry in any order, twice over |
| `usage` | `NoEventLost`, `NoIdleDuplicate`, `BacklogFlushed` | 4 emissions | two spilled rows, a drain and another emission beside it |
| `usage_wedge` | `NeverWedged` (violated) | 3 emissions | one spills, one drains, one blocks |
| `billable` | `ErrorNotCharged`, `SuccessCharged`, `NoSilentSubstitution`, `FreeCallsTouchNothing`, `AnsweredHoldsNoSlot`, `KeyRunsOnce`, `EveryCallEnds` | 2 calls (with and without a key, test or live, default and BYOK bodies, and four odd ones: no object, streaming, BYOK without `use_own_key`, an infinite size), 1 unit or unmetered, 1 slot, 1 fault | every path of the handler, beside every path of another call that competes for the key, the unit and the slot |
| `iam` | `StalenessBounded`, `RevocationSticks`, `CachedTokenAlive`, `RevocationTakesEffect` | 2 requests at a time, without end, TTL 2, margin 2, tokens of 1, 3 and 5 ticks, 2 faults | a lost message or eviction and a foreign write, an answer in flight beside a hit |
| `chain` | `ForwardAuthorized`, `TrailComplete`, `EveryRequestAccounted` | 29 paths × 4 methods, any credential, an identity header of its own or none | one path of every kind a skip list, the maps or the routes tell apart, with and without `root_path`, and with it twice |
| `ratelimit` | `WithinBudget` | 2 overlapping calls without end, one caller and its organization, limit 2, window 2, TTL 4, hold 1, outages | both requests inside a hit, a tick between its points, a bucket that expires, lost replies |
| `ratelimit_patient` | `PatientServed` | a member and an outsider, one call at a time, plan 0 or none, limit 1, window 2, outages | every phase the two buckets can be left in |
| `memory` | `StandsInForRedis` | 4 keys, limit 3, drop 1, numbers to 1, TTLs 1 and 2 | full of live keys, full of lapsed ones, both mixed |

Each module's type invariant is checked in its passing run; beyond types, that of
`Quota` has one DECR and one INCR per call at most, that of `Slots` the range of the
TTLs, and that of `BillableCall` that a call has a result just when it is past the
stages that find one. `MaxFaults` bounds the
errors of a behaviour in `slots`, `idempotency`, `billable` and `iam`; where a
property allows one unit of slack per error the bound appears in it by name.
Symmetry is used over requests in `quota`, over the two requests of one caller
in `slots`, over requests in `ratelimit`, over emissions in `usage` and over keys in `memory`, never with liveness.
`CHECK_DEADLOCK FALSE` stands where every request may have ended (or, in
`usage`, where the loop is blocked).

Fairness is weak and only on a request's own steps, on Redis' clock and nowhere
on failures, crashes, billing or the auth service. It stands for three facts: the
event loop runs every ready task; the HTTP calls have timeouts (3 s for auth,
the engines' own, 15 s upstream); and Redis answers or fails. The last is an
assumption about the environment, as the clients are built without a socket
timeout. `BillableCall` gives no fairness to a call's first step, so a client
may never come, and `EveryCallEnds` excepts a blocked event loop. `RateLimit` adds
the caller's own part of `PatientServed`: one that was refused calls again once
its Retry-After is over. The property's premise (from some point on the caller is
alone, obeys Retry-After, and Redis works) is part of its formula, not of the
specification.

## 4. What the checks show

* **Quota.** Units in use exceed the published allowance by at most the lost
  DECR replies and the refunds of units never taken from this publication.
  The counter is below zero only by uncompensated reservations, and at rest is
  exactly the allowance less what was billed. A key that billing removed comes
  back only by the write of a call that had read it before ("never creating a
  key" holds but for that gap between GET and write).
* **Slots.** The cap holds up to one extra admission per Redis error or per
  increment that expired before its EXPIRE. With neither, every path returns
  both slots, and a counter never expires under its holder.
* **Idempotency.** The work behind a key runs once, plus once per lapsed result,
  per death between the work and its storing, per Redis error. The finish that
  does not look whose claim it overwrites is harmless as long as an attempt is
  shorter than its claim. No claim stays for ever.
* **Usage.** An event whose `emit_usage` returned was appended to the stream or is
  in the outbox, unless SQLite refused it. How long the stream keeps it is not in the
  model (section 7). Duplicates come only from XADDs whose success
  was not recorded. A failure-free emission clears the backlog it found.
* **Billable call.** A call that was not served, whether it was answered with an
  error or an exception got out of the handler, has no usage event and, without a
  Redis error, keeps no quota unit, with one exception that `ErrorNotCharged` names:
  the exception out of translating RAG's 2xx answer (`routes/v1.py:326`), between the
  reservation and any release, which keeps its unit (see below). Successes are
  charged; test keys and replays
  touch nothing; every exit of the handler, an exception included, is out of the
  slots; one key buys one run; every accepted call is answered or the process is
  dead or blocked. A replay serves a result that was charged, is being charged, or
  whose process died between storing and billing it: in that last case the call is
  free for ever. RAG is never asked for another model than the caller named, nor
  for a BYOK model without the key lookup of that very call. Tokens are billed only
  to an `/answers` call that RAG served, and only in a direction that RAG's answer to
  it counted, whatever its model: RAG may count tokens on any call. A lookup that
  succeeds without a key forwards a null one.
* **Identity.** Whatever is lost, nobody is let in on a credential that the auth
  service stopped accepting more than a cache lifetime and a timeout ago. An
  eviction with no answer in flight is final. A cached API key's token never
  expires before its entry.
* **Chain.** A request whose path is not under `root_path` reaches a service only
  authenticated, with HPC consent for compute and with consent to that service's
  permission; only a public inquiry passes the gates without a user, and only to the
  inquiry API. A request under `root_path` is routed without the prefix that the gates
  read: it is authenticated, but the policy engine is asked about a service `_svc`
  that requires no permission, and the HPC engine is not asked at all.
  `ForwardAuthorized` states this as what is left there, and on the other paths two more exceptions are
  written into `ForwardAuthorized`: `/v1/usage` (see below), and `/auth/verify`
  with a method other than GET, which the policy gate skips by path and the
  catch-all route forwards to the auth service. What goes upstream under an
  identity header's name is the gateway's, and an API key is replaced by its token.
  The audit trail has every refusal and every answered request but those whose
  handler raised; each event fired is published or reported unless the process
  stops first.
* **Rate limit.** Each bucket, the caller's and the organization's over all its
  callers, grants in any interval at most one allowance and its refill at the
  largest limit in force. What overlap adds is exactly what a late SET puts back:
  the tokens others took while it was held, which may be more than the "one extra
  request" of `services/v1_store.py:131-132`, and the refill of that time. A caller
  that waits as told is served, although a refused call still spends a token of
  the bucket that did not refuse it (`routes/v1.py:102-104`) and Retry-After
  reports the organization's bucket on a tie even when the caller's own refused
  (`routes/v1.py:112`), which may send it back too soon but not for ever.
* **In-process store.** It answers as Redis would, and loses live keys only in a
  write at its limit: a lapsed counter restarts without its old expiry, and lapsed
  keys never cost a live one its place.

### Where code and documentation disagree

1. `usage_wedge`: the outbox holds a thread lock across an `await`. A second
   request that needs the outbox meanwhile blocks the event loop for good.
2. `slots_leak`: each attempt, refused ones too, renews the counter's TTL, so a
   leaked slot is not reclaimed while callers keep trying.

Met while modelling, not runs of their own:

* Without an Idempotency-Key the id of a usage event is the trace id
  (`routes/v1.py:332`), which the client may repeat; billing then counts two calls
  as one, against "exactly one billable usage event per successful billable call"
  (`routes/v1.py:19`).
* A positive answer in flight during a revocation is cached after the eviction
  (`services/iam_client.py:248`) and lives for a cache lifetime, against "revoke =
  immediate effect" (`main.py:63-64`). `RevocationSticks` says when it cannot
  happen, `StalenessBounded` how long it lasts.
* `/v1/usage` reaches billing without the policy engine being asked for
  `usage.read`, against `routes/v1.py:451-453`; an exception of
  `ForwardAuthorized`.
* Under `root_path` the gates and the router disagree (`main.py:101` against
  `core/router.py:113-128`, `middleware/hpc.py:32-41`): a received
  `/_svc/gateway/tes/...` goes to `tes` with neither its permission nor HPC consent
  asked for. Also an inquiry there needs a user, and the MCP mount finds no
  route. Whether such a path arrives depends on the front proxy; `ForwardAuthorized`
  says what is and is not enforced on it.
* An exception out of `build_public_response` (`routes/v1.py:326`) ends in a 500 after
  the quota unit was taken: no `release_quota` runs and no usage event is emitted, so
  the unit is gone until billing publishes again, against `release_quota`'s "a call that
  was then not actually billable" (`services/v1_store.py:281-282`). The one exception of
  `ErrorNotCharged`.
* Token events are "never fabricated for the default (non-BYOK) path, where these are
  always None" by the comment (`routes/v1.py:348-349`); the code (`routes/v1.py:354-366`) emits it whenever the answer has counts and never looks
  at the model. That it is so is RAG's to keep, and `Forward` does not assume it.
* The fingerprint of an Idempotency-Key covers the body and not the route
  (`routes/v1.py:236`), so a key used on `/search` replays its result on `/answers`.
* `max_citations` of 0.5 becomes `top_k` 0, and Infinity raises
  (`services/literature_contract.py:84`): a 500 instead of a 400, with nothing
  touched.

## 5. What is proved

Each `…Proofs` module extends the module it is about and proves, for every value
of the constants that satisfies the module's named assumptions and with all
failures, crashes and interleavings included, `Spec => []P` for the properties `P`
below. Each rests on an inductive invariant `IInv` (or a strengthening of it) that
TLC checked first on the run's instance, and each proof has one lemma per action
or group of actions.

| Module | Proved | From |
|---|---|---|
| `QuotaProofs` | `TypeOK`, `NegativeOnlyWhileShort`, `NoOverrun`, `Settled`, `StaysUnmetered` | finitely many requests, allowances are naturals, absence is not an integer |
| `SlotsProofs` | `TypeOK`, `LimitRespected`, `NothingLeaks`, `NoExpiryUnderHolder` | finitely many requests, `MaxHold < SlotTTL`, a caller is not the organization |
| `IdempotencyProofs` | `TypeOK`, `ReplayFaithful`, `RunnerOwnsClaim`, `NeverRunTwice`, and `ClaimHeld`, `Answers`, `[][RecordEnds]_vars` | finitely many attempts, `MaxRun < ClaimTTL <= DoneTTL` |
| `UsageOutboxProofs` | `TypeOK`, `NoEventLost`, `NoIdleDuplicate`, `BacklogFlushed`, and `Unsent`; that `Spec` implies `Log!Spec`, the log of `UsageLog` | finitely many emissions |
| `IAMCacheProofs` | `TypeOK`, `StalenessBounded`, `RevocationSticks`, `CachedTokenAlive`, and `GoneInTime` | the answer's wait is shorter than the margin kept before a token's end |
| `RequestChainProofs` | `TypeOK`, `ForwardAuthorized`, `TrailComplete` | a path is a sequence of strings; no service, nor `v1` or `api`, begins with `mcp` |
| `BillableCallProofs` | that `Spec` implies `Q!Spec`, `S!Spec`, `I!Spec` and `U!Spec`; `TypeOK`, `ErrorNotCharged`, `SuccessCharged`, `NoSilentSubstitution`, `FreeCallsTouchNothing`, `AnsweredHoldsNoSlot`, `KeyRunsOnce`; `UP!Log!Spec` and `[][IP!RecordEnds]_(IP!vars)` of the calls | finitely many requests, all of a test key or none, and the stores' own assumptions |
| `RateLimitProofs` | `TypeOK`, `WithinBudget` | finitely many handlers, limits from 0 to `Top`, `Window + MaxHold <= BucketTTL`, an absent key is no number and no bucket |

**Quota.** `NoOverrun` is not inductive: it says nothing of the counter, and so
nothing of whether the next DECR may succeed. `IInv` has three parts besides the types:
`Conservation`, that the counter is the publication less the applied DECRs plus
the applied INCRs; `OncePerRequest`, that a request makes each write at most once,
without which the history sets would not count writes (it is part of `TypeOK`); and
`NegativeOnlyWhileShort`. The last is preserved because a DECR that lands below
zero puts its request among the short (it will compensate, or its reply was
lost), and a request leaves that set only by the INCR that raises the counter.
Then `Conservation` turns the lower bound on the counter into an upper bound on
`took`, and a case split over where each of its members is gives `NoOverrun`.
`Settled` follows from `Conservation` with nobody in flight. `StaysUnmetered` has
a strengthening of its own, `Unmetered`: as long as no caught request has written,
the key is absent and everyone who may still write was caught, because a GET of an
absent key sends nobody on to a write.

**Slots.** The cap cannot be proved from the counter alone: a counter that
expired under its holders would admit as many again. `IInv` has four parts for
every counter. `Backed`: all but `faults + lost` of the requests involved have yet
to send their EXPIRE or will be gone before it lapses (`age + ttl >= SlotTTL`, so
`MaxHold < SlotTTL` keeps the counter alive under them). `Counted`: the requests
involved are at most the counter and the slips. `Capped`: those admitted are at
most the limit and the slips. `Exact`: with no slip the counter is the number of
requests involved. An INCR that sees a value of at most `Limit` extends `Capped`
by `Counted`.

**Idempotency.** `IInv` says what a record means (`Stored`: a result belongs to an
attempt that succeeded, a claim to one past its SET), that the claim of a running
attempt has the rest of its `ClaimTTL` (`ClaimAlive`), and who has run. For
`NeverRunTwice`, attempts are split into those the record covers, at most one, and
those it does not: `OnePerFault`, that of the exposed attempts all but the covered
one were let through by a fault, is preserved by every step and bounds `ran`.
`RecordEnds` is an action property, about what `idempotency_finish` may do to a key
it does not look at: as long as no command has failed, a finish runs on its own claim
(`RunnerOwnsClaim`), and what expires is a result or the claim of an attempt that died
(`ClaimHeld`, `ClaimAlive`). So a stored result is there for its whole `DoneTTL`.

**UsageOutbox.** The lock is what makes it work: the coroutine inside `drain()` is
the lock's holder and what it has still to flush is the whole table (`Drains`),
because `write()` and every other `drain()` need the lock. So the row deleted is
the row that was sent (`Applied`), rows are distinct and of finished emissions, and
until an event is recorded all its copies are counted as unrecorded
(`Unrecorded`), which gives the bound on duplicates. A backlog holds finished
emissions only, so nothing that joins the table later can be in it.
`AtLeastOnce` maps each step to one of `UsageLog` or to none: an applied XADD sends an
event that is being emitted or is kept, since the row a drain sends is the oldest of
the table; a recorded flush lets go of an event that is in the stream (`Applied`); a
restart gives up only emissions that had not returned (`BlockedActive`).

**IAMCache.** `Fresh`: every positive answer is younger than its own wait, so what
is cached leaves the cache within `CacheTTL + MaxWait` of the credential's end.
`RevocationSticks` needs in addition that only a revoked credential has a message
in the inbox (`Heard`). `GoneInTime` is the safety half of `RevocationTakesEffect`.

**RequestChain.** `GatesAgree` is a lemma about the routing operators alone: for
every path not under `root_path` and method that the router sends to a service,
authentication does not
skip it, the HPC gate does not skip it if the service computes, and the policy gate
asks for that service's permission, but for the two paths `ForwardAuthorized`
names. `UnderRoot` is its counterpart: whatever the rest of a path under `root_path`,
authentication and policy do not skip it and policy asks for no permission.
`AllConsistent` puts the two together. TLC checks this on one path of every kind; the
lemmas are about all of them.
The invariant then says of each request only which gates it has passed
(`Passed`), that its token comes from the credential checked (`OwnToken`), and that
nothing has become of it before it is answered (`Undecided`).

**BillableCall.** Two parts. First, `UsesStores`: a step of the handler, or a
crash, is for each store a step its module allows or leaves it alone
(`HandlerSteps`, `CrashSteps`), so every behaviour of the handler is one of each
store and the stores' invariants hold of it (`StoreInv`). The proof modules of the
stores are instantiated under the same substitutions (`QP`, `SP`, `IP`, `UP`), and
the four `…Same` lemmas say that a store and the store its proofs are about are the
same specification; `StoreAssumption` and `NoRecordAssumption` are what the stores'
assumptions come to here. Second, none of the promises is inductive, since each is
about a request that is already answered and the stores do not know what the
handler has made of it. `LInv` is the missing link: `Placed(r)` says for every stage
what the request has decided (`FlowAt`), which provider key it has (`KeyAt`), and
where it is in the quota (`QuotaAt`), the slots (`SlotAt`), the idempotency protocol
(`IdemAt`) and each of its emissions (`UsageAt`). A step moves one request, and the
others stay placed because a store's step moves only the request that makes it
(`QuotaMoves`, `SlotMoves`, `IdemMoves`, `UsageMoves`). `Quiet` carries over that the
handler has counted every store error and `Refunded` that, without one, a denied or
refunded call has given its unit back. The promises then follow from `LInv` and
`StoreInv`: an answered call is out of the counters by `Exact` of `Slots`, a replay
was served the result of an attempt at "done" by `Answers` of `Idempotency`, which
`IdemAt` turns into a call that spent its unit, and the calls one key has bought are
among the attempts `NeverRunTwice` bounds. `CallsDelivered` and `RecordsOwned` carry
the two step-by-step results of `UsageOutbox` and `Idempotency` over to the calls.

**RateLimit.** `WithinBudget` says nothing of the stored buckets, so nothing of what
the next hit may grant. `IInv` ties them together. `Backed`: the reference bucket
holds at least what the stored one can grant now, refilled at the largest limit
(`Avail`). `Lifetime`: a bucket lives until its timestamp is at least `BucketTTL` old,
also one whose writer took its time, so that what expires had refilled completely and
an absent key, which grants a full allowance, stays backed; this is where
`Window + MaxHold <= BucketTTL` is needed. `Undisturbed`, of a hit that no other SET
has crossed: since it took the time the reference bucket has only been refilled, by
at most `stale * Top`, and what it reads, or has read, was in the reference bucket
then. A crossed hit (`HitAt`) has read at most what the reference bucket holds now and
what was taken meanwhile. A SET is charged from what its request has read, which
keeps the bucket backed and lowers the reference bucket by at most its price
(`Charging`), which is what the others' `taken` grows by (`Crossing`). The limit a
request uses matters only through `Refilled`: a refill at any limit up to `Top` is at
most one at `Top`.

Only model-checked:

* `MemoryStore`, its `TypeOK` and its refinement of `ExpiringMap`. Its dict is a
  sequence filtered by `SelectSeq`; what that leaves, and how many keys, is an
  induction over the sequence with the test as an operator parameter, which the
  installed provers cannot instantiate.
* All liveness (`ClaimEnds`, `EveryCallEnds`, `RevocationTakesEffect`,
  `EveryRequestAccounted`, `PatientServed`): fairness and ENABLED are beyond the
  prover. `GoneInTime`, `ClaimHeld` and `RecordEnds` are safety halves of the first
  and third.

## 6. Plan

Order of work: the counters and records that money depends on, then the handler
that composes them, then identity, the chain, the rate limit, the in-process store
and the contract. That much is modelled, and its safety properties are proved but
for `MemoryStore`. What would come next:

1. `StandsInForRedis` by proof, with the dict's order as an injective numbering of
   keys instead of a sequence, so that no induction over data is needed.
2. A prepaid account as an abstract specification that `Quota` implements when
   nothing fails.

## 7. Not modelled

Logging, wording of errors, JSON layout and OpenAPI: no
property is about them. HMAC and JWT verification, the MCP protocol and the HTTP
server: libraries. Building and signing audit events: pure functions of libraries. Billing, auth, policy, HPC and RAG: external, represented by
the answers they may give. `core/config.py`, `core/permissions.py`,
`core/security.py`, `middleware/s2s.py`: environment and pure helpers. The inquiry
relay's mapping of answers and the bodies of the free `/v1` endpoints reshape an
upstream answer and keep no state. RAG finishing work after its
call timed out is not visible to the gateway. What becomes of an entry in the usage
stream after its XADD: each XADD asks Redis to trim the stream to about its last
1,000,000 entries (`services/v1_store.py:338`), and an entry that billing has not read
by then is lost. `NoEventLost` and `UsageLog` are about appending.
