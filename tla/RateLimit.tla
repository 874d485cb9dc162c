----------------------------- MODULE RateLimit -----------------------------
(* The token buckets of one organization and its callers: _rate_limited    *)
(* (src/app/routes/v1.py) with V1Store.rate_limit_for_org and              *)
(* hit_rate_limit (src/app/services/v1_store.py).                          *)
(*                                                                         *)
(* hit_rate_limit takes the time, then GETs the bucket, then SETs it: three *)
(* points between which other requests and time may pass. Tokens are       *)
(* counted in units of 1/Window, so that a limit of n per Window ticks     *)
(* refills n units a tick and every value is an integer. Time is relative: *)
(* a bucket knows how long ago its timestamp was, a request how long ago   *)
(* it took the time.                                                       *)
EXTENDS Integers, FiniteSets

CONSTANTS
    Request,   \* handlers, each serving one call after another
    Caller,    \* API keys or user sessions
    Member,    \* the callers whose identity names the organization
    Org,       \* the organization, a bucket beside the callers' own
    Plans,     \* overrides billing may publish
    Default,   \* Config.V1_RATE_LIMIT_PER_MINUTE
    Top,       \* the largest of these limits
    NoValue,   \* an absent key, or one that does not hold an integer
    Window,    \* ticks over which a bucket refills (60 s)
    BucketTTL, \* ticks a written bucket lives (120 s)
    MaxHold    \* most ticks between taking the time and the SET

ASSUME CallerAssumption ==
    Member \subseteq Caller /\ Org \notin Caller
ASSUME LimitAssumption ==
    /\ Top \in Nat /\ Default \in 1..Top /\ Plans \subseteq 0..Top
    /\ NoValue \notin Int \cup [tokens : Int, age : Int, ttl : Int]
ASSUME WindowAssumption ==
    /\ Window \in Nat \ {0} /\ MaxHold \in Nat /\ BucketTTL \in Nat
    /\ Window + MaxHold <= BucketTTL
ASSUME RequestAssumption == IsFiniteSet(Request)

VARIABLES
    plan,      \* gateway:v1:quota:{org}:ratelimit
    failing,   \* Redis commands may fail
    bucket,    \* gateway:v1:rltb:{subject}: tokens, age of the time, TTL left
    at,        \* the Redis command each request waits for
    who,       \* its caller
    on,        \* the bucket it is hitting
    limit,     \* the limit it uses
    stale,     \* ticks since it took the time
    draft,     \* tokens it will SET, and whether it may pass
    first,     \* what the hit on the caller's own bucket returned
    wait,      \* what is left of the Retry-After the caller was given last
    refused,   \* the buckets that refused the caller's last call
    (* History, never read by the code. *)
    ideal,     \* a reference bucket, charged for every token granted
    asof,      \* its value when the request took the time
    crossed,   \* requests during whose hit another SET hit the bucket
    taken      \* tokens such SETs granted (up to Top + 1)

bucketVars == <<bucket, ideal, crossed, taken>>
callVars   == <<at, who, on, limit, stale, draft, first, asof>>
callerVars == <<wait, refused>>
vars == <<plan, failing, bucketVars, callVars, callerVars>>

Subject == Caller \cup {Org}
Cap == Top * Window
Least(a, b) == IF a <= b THEN a ELSE b

NoDraft == [tokens |-> 0, ok |-> FALSE]
NoReply == [ok |-> FALSE, left |-> 0, reset |-> 0]

Init ==
    /\ plan \in Plans \cup {NoValue}
    /\ failing = FALSE
    /\ bucket = [k \in Subject |-> NoValue]
    /\ at = [r \in Request |-> "idle"]
    /\ who = [r \in Request |-> NoValue]
    /\ on = [r \in Request |-> NoValue]
    /\ limit = [r \in Request |-> 0]
    /\ stale = [r \in Request |-> 0]
    /\ draft = [r \in Request |-> NoDraft]
    /\ first = [r \in Request |-> NoReply]
    /\ wait = [c \in Caller |-> 0]
    /\ refused = [c \in Caller |-> {}]
    /\ ideal = [k \in Subject |-> Cap]
    /\ asof = [r \in Request |-> 0]
    /\ crossed = {}
    /\ taken = [r \in Request |-> 0]

Goto(r, a) == at' = [at EXCEPT ![r] = a]

----------------------------------------------------------------------------
(* Mutants *)

(* the refill not limited to the bucket's capacity at the request's limit *)
RefillUncapped(b, n, s) ==
    IF b = NoValue THEN n * Window
    ELSE Least(n * BucketTTL, b.tokens + (IF b.age > s THEN b.age - s ELSE 0) * n)

(* the timestamp of the read bucket written back with the new tokens *)
WrittenOldTime(r) ==
    [tokens |-> draft[r].tokens,
     age |-> IF bucket[on[r]] = NoValue THEN stale[r] ELSE bucket[on[r]].age,
     ttl |-> BucketTTL]

(* the headers of the budget that is restored sooner *)
BindingSooner(key, org) == IF org.reset <= key.reset THEN org ELSE key

----------------------------------------------------------------------------
(* The arithmetic of hit_rate_limit *)

(* The tokens of bucket b at limit n, at a time taken s ticks ago: never    *)
(* less than were written, although b may carry a later timestamp.         *)
Refill(b, n, s) ==
    IF b = NoValue THEN n * Window
    ELSE Least(n * Window, b.tokens + (IF b.age > s THEN b.age - s ELSE 0) * n)

(* (allowed, remaining, seconds_until_next_token) *)
Reply(d, n) ==
    [ok    |-> d.ok,
     left  |-> d.tokens \div Window,
     reset |-> IF d.tokens >= Window THEN 0
               ELSE (Window - d.tokens + n - 1) \div n]

(* what an exception returns: (True, limit, 0) *)
FailOpen(r) == [ok |-> TRUE, left |-> limit[r], reset |-> 0]

(* what a limit of zero or less returns *)
Shut == [ok |-> FALSE, left |-> 0, reset |-> Window]

(* The bucket as request r writes it, with the time it took. *)
Written(r) == [tokens |-> draft[r].tokens, age |-> stale[r], ttl |-> BucketTTL]

----------------------------------------------------------------------------
(* _rate_limited *)

(* The headers report the smaller remaining count. *)
Binding(key, org) == IF org.left <= key.left THEN org ELSE key

(* The answer: 429 unless both allow. The handler is free again. *)
Answer(r, c, key, org) ==
    LET no == {k \in {c, Org} : ~(IF k = Org THEN org ELSE key).ok}
    IN  /\ refused' = [refused EXCEPT ![c] =
                          IF c \in Member THEN no ELSE no \ {Org}]
        /\ wait' = [wait EXCEPT ![c] =
                       IF no # {} THEN Binding(key, org).reset ELSE 0]
        /\ Goto(r, "idle")
        /\ who' = [who EXCEPT ![r] = NoValue]
        /\ on' = [on EXCEPT ![r] = NoValue]
        /\ limit' = [limit EXCEPT ![r] = 0]
        /\ stale' = [stale EXCEPT ![r] = 0]
        /\ asof' = [asof EXCEPT ![r] = 0]

(* hit_rate_limit up to its first await: the time is taken here. *)
Start(r, k) ==
    /\ Goto(r, "get")
    /\ on' = [on EXCEPT ![r] = k]
    /\ stale' = [stale EXCEPT ![r] = 0]
    /\ asof' = [asof EXCEPT ![r] = ideal'[k]]

(* The limit is known: hit the caller's bucket, or refuse at a limit of 0. *)
Limited(r, c, n) ==
    /\ UNCHANGED bucketVars
    /\ IF n <= 0
       THEN Answer(r, c, Shut, Shut)
       ELSE /\ Start(r, c)
            /\ limit' = [limit EXCEPT ![r] = n]
            /\ who' = [who EXCEPT ![r] = c]
            /\ UNCHANGED callerVars
    /\ UNCHANGED <<plan, failing, draft, first>>

(* A caller outside the organization gets no plan limit and no org bucket. *)
Arrive(r, c) ==
    /\ at[r] = "idle"
    /\ IF c \in Member
       THEN /\ Goto(r, "plan")
            /\ who' = [who EXCEPT ![r] = c]
            /\ UNCHANGED <<plan, failing, bucketVars, on, limit, stale, draft, first, asof, callerVars>>
       ELSE Limited(r, c, Default)

(* rate_limit_for_org: an integer overrides the default, 0 included. *)
PlanGet(r) ==
    /\ at[r] = "plan"
    /\ Limited(r, who[r], IF plan = NoValue THEN Default ELSE plan)

PlanGetFails(r) ==
    /\ at[r] = "plan" /\ failing
    /\ Limited(r, who[r], Default)

(* A hit is over: go on to the organization's bucket, or answer. *)
HitReturns(r, reply) ==
    LET c == who[r]
    IN  /\ IF on[r] # Org /\ c \in Member
           THEN /\ first' = [first EXCEPT ![r] = reply]
                /\ Start(r, Org)
                /\ UNCHANGED <<who, limit, callerVars>>
           ELSE /\ IF on[r] = Org THEN Answer(r, c, first[r], reply)
                                  ELSE Answer(r, c, reply, reply)
                /\ first' = [first EXCEPT ![r] = NoReply]
        /\ draft' = [draft EXCEPT ![r] = NoDraft]
        /\ UNCHANGED <<plan, failing>>

(* The request leaves its bucket: it is no longer crossed by others. *)
Leave(r) ==
    /\ crossed' = crossed \ {r}
    /\ taken' = [taken EXCEPT ![r] = 0]

Get(r) ==
    /\ at[r] = "get"
    /\ LET t  == Refill(bucket[on[r]], limit[r], stale[r])
           ok == t >= Window
       IN  draft' = [draft EXCEPT ![r] = [tokens |-> IF ok THEN t - Window ELSE t, ok |-> ok]]
    /\ Goto(r, "set")
    /\ UNCHANGED <<plan, failing, bucketVars, who, on, limit, stale, first, asof, callerVars>>

GetFails(r) ==
    /\ at[r] = "get" /\ failing
    /\ Leave(r)
    /\ UNCHANGED <<bucket, ideal>>
    /\ HitReturns(r, FailOpen(r))

(* The reference bucket is charged as of the time r took, if no other SET  *)
(* came between. If one did, r's SET may undo what it did: it gives back   *)
(* the tokens the others took meanwhile and the refill of that time.       *)
Charged(r) ==
    LET k     == on[r]
        price == IF draft[r].ok THEN Window ELSE 0
        held  == stale[r] * Top
    IN  Least(Cap, IF r \in crossed
                   THEN ideal[k] - price + held + taken[r] * Window
                   ELSE asof[r] - price + held)

(* SET: others that hit the same bucket are crossed by it. *)
WriteBucket(r) ==
    LET k      == on[r]
        others == {q \in Request \ {r} : at[q] \in {"get", "set"} /\ on[q] = k}
    IN  /\ bucket' = [bucket EXCEPT ![k] = Written(r)]
        /\ ideal' = [ideal EXCEPT ![k] = Charged(r)]
        /\ crossed' = (crossed \ {r}) \cup others
        /\ taken' = [q \in Request |->
                        IF q = r THEN 0
                        ELSE IF q \in others /\ draft[r].ok
                        THEN Least(taken[q] + 1, Top + 1) ELSE taken[q]]

Set(r) ==
    /\ at[r] = "set"
    /\ WriteBucket(r)
    /\ HitReturns(r, Reply(draft[r], limit[r]))

SetFails(r) ==
    /\ at[r] = "set" /\ failing
    /\ WriteBucket(r) \/ (Leave(r) /\ UNCHANGED <<bucket, ideal>>)
    /\ HitReturns(r, FailOpen(r))

----------------------------------------------------------------------------
(* External: billing publishes or removes the plan's limit. *)
Publish(n) ==
    /\ plan' = n
    /\ UNCHANGED <<failing, bucketVars, callVars, callerVars>>

(* External: Redis becomes unreliable, or recovers. *)
Outage ==
    /\ failing' = ~failing
    /\ UNCHANGED <<plan, bucketVars, callVars, callerVars>>

(* External: a tick of every clock. *)
Aged(b) ==
    IF b = NoValue \/ b.ttl = 1 THEN NoValue
    ELSE [tokens |-> b.tokens, age |-> b.age + 1, ttl |-> b.ttl - 1]

Hitting(r) == at[r] \in {"get", "set"}

Tick ==
    /\ \A r \in Request : Hitting(r) => stale[r] < MaxHold
    /\ bucket' = [k \in Subject |-> Aged(bucket[k])]
    /\ stale' = [r \in Request |-> IF Hitting(r) THEN stale[r] + 1 ELSE stale[r]]
    /\ ideal' = [k \in Subject |-> Least(Cap, ideal[k] + Top)]
    /\ wait' = [c \in Caller |-> IF wait[c] > 0 THEN wait[c] - 1 ELSE 0]
    /\ UNCHANGED <<plan, failing, crossed, taken, at, who, on, limit, draft, first, asof, refused>>

Step(r)  == PlanGet(r) \/ Get(r) \/ Set(r)
Fails(r) == PlanGetFails(r) \/ GetFails(r) \/ SetFails(r)

Next ==
    \/ \E r \in Request : Step(r) \/ Fails(r)
    \/ \E r \in Request, c \in Caller : Arrive(r, c)
    \/ \E n \in Plans \cup {NoValue} : Publish(n)
    \/ Outage \/ Tick

Spec == Init /\ [][Next]_vars

(* Time passes, Redis answers or fails, and a caller that was refused      *)
(* calls again once its Retry-After is over.                               *)
FairSpec ==
    /\ Spec
    /\ WF_vars(Tick)
    /\ \A r \in Request : WF_vars(Step(r) \/ Fails(r))
    /\ \A c \in Caller : WF_vars(/\ refused[c] # {} /\ wait[c] = 0
                                 /\ \E r \in Request : Arrive(r, c))

----------------------------------------------------------------------------
(* Properties *)

(* Buckets hold at most a full allowance and carry an expiry; every        *)
(* request waits for one command of its check.                             *)
TypeOK ==
    /\ plan \in Plans \cup {NoValue}
    /\ failing \in BOOLEAN
    /\ bucket \in [Subject -> {NoValue} \cup
           [tokens : 0..Cap, age : 0..(BucketTTL + MaxHold), ttl : 1..BucketTTL]]
    /\ at \in [Request -> {"idle", "plan", "get", "set"}]
    /\ who \in [Request -> Caller \cup {NoValue}]
    /\ on \in [Request -> Subject \cup {NoValue}]
    /\ limit \in [Request -> 0..Top]
    /\ stale \in [Request -> 0..MaxHold]
    /\ draft \in [Request -> [tokens : 0..Cap, ok : BOOLEAN]]
    /\ first \in [Request -> [ok : BOOLEAN, left : 0..Top, reset : 0..Window]]
    /\ wait \in [Caller -> 0..Window]
    /\ refused \in [Caller -> SUBSET Subject]
    /\ ideal \in [Subject -> Int]
    /\ asof \in [Request -> Int]
    /\ crossed \subseteq Request
    /\ taken \in [Request -> 0..(Top + 1)]

(* "Up to 2x limit requests in under two seconds" is what the bucket is    *)
(* there to exclude: a reference bucket that starts full, refills at the   *)
(* largest limit and is charged for every token granted never goes below   *)
(* zero, for each caller and for the organization over all its callers. So *)
(* any interval grants at most one allowance and its refill, however the   *)
(* limit changes, buckets expire and requests overlap; a SET that crosses  *)
(* others gives back at most the tokens they took while it was held and    *)
(* the refill of that time. Requests let through by a Redis error are      *)
(* outside it.                                                             *)
WithinBudget == \A k \in Subject : ideal[k] >= 0

(* One call at a time, of the same caller, under a plan that grants        *)
(* anything at all, and Redis answers.                                     *)
Alone(c) ==
    /\ plan # 0 /\ ~failing
    /\ Cardinality({r \in Request : at[r] # "idle"}) <= 1
    /\ \A r \in Request : who[r] \in {c, NoValue}

(* No call is sent before the Retry-After of the last one is over. *)
Obeys == \A r \in Request : at[r] = "idle" /\ at'[r] # "idle" => wait[who'[r]] = 0

(* A caller that is alone and obeys Retry-After is not refused for ever:   *)
(* although every refused call still takes a token from the bucket that    *)
(* did not refuse it, whatever phase the two buckets were left in, waiting *)
(* as told brings a call that both let through.                            *)
PatientServed ==
    \A c \in Caller :
        (<>[]Alone(c) /\ <>[][Obeys]_vars) => []<>(refused[c] = {})
=============================================================================
