------------------------------ MODULE IAMCache ------------------------------
(* One credential at the gateway: IAMClient.validate (a JWT) and           *)
(* validate_api_key (an omni_sk_ key) in src/app/services/iam_client.py,   *)
(* their shared shape of cache, auth service and eviction, and the         *)
(* listener that evicts on revocation (_invalidation_loop, src/app/main.py *)
(* and subscribe_invalidation). The auth service is external.              *)
(*                                                                         *)
(* A request checks the credential once; its slot is then free for another *)
(* request. Time passes in ticks: a JWT's entry lives CacheTTL ticks, an   *)
(* API key's at most CacheTTL and Margin (30 s) less than the token minted *)
(* for it, and the auth service's answer is acted on within MaxWait ticks  *)
(* (the client's timeout is 3 s).                                          *)
EXTENDS Integers, FiniteSets

CONSTANTS
    Request,     \* concurrent requests that carry the credential
    Kind,        \* "jwt", "api_key"
    Message,     \* what a revocation may publish: "credential" or "user"
    Lifetime,    \* expires_in of a minted token
    CacheTTL, Margin, MaxWait,
    MaxFaults    \* bound on Redis errors, foreign writes and lost listeners

ASSUME KindAssumption == Kind \subseteq {"jwt", "api_key"}
ASSUME MessageAssumption == Message \subseteq {"credential", "user"}
ASSUME TimeAssumption ==
    /\ CacheTTL \in Nat \ {0} /\ Margin \in Nat /\ MaxWait \in Nat
    /\ MaxWait < Margin
    /\ Lifetime \subseteq Nat
ASSUME FaultAssumption == MaxFaults \in Nat

VARIABLES
    kind,        \* what the credential is
    good,        \* external: whether the auth service accepts it
    entry,       \* the cache entry: [owner, ttl, life]
    listener,    \* "on": subscribed, "off": starting or asleep after an error
    inbox,       \* messages received and not handled yet
    step,        \* where each request is
    attempt,     \* its calls of the auth service so far
    answer,      \* expires_in of the token it was given
    wait,        \* ticks since the auth service answered it
    (* history *)
    since,       \* ticks since the auth service stopped accepting, capped
    lag,         \* what since was when the request was let in
    heard,       \* the eviction on revocation: "no", "clear" or "raced"
    faults

vars == <<kind, good, entry, listener, inbox, step, attempt, answer, wait,
          since, lag, heard, faults>>
history == <<since, heard>>

(* "get": validate called.  "drop": the entry failed its MAC check.        *)
(* "decode": signature and expiry check.  "post": asks the auth service.   *)
(* "set": it said valid.  "evict": it said invalid.                        *)
Final == {"accepted", "rejected"}
Step == {"get", "drop", "decode", "post", "set", "evict"} \cup Final

(* The longest a credential can outlive its revocation: one answer on its  *)
(* way and one cache entry.                                                *)
MaxLag == CacheTTL + MaxWait
Capped(n) == IF n > MaxLag THEN MaxLag + 1 ELSE n

NoEntry == [owner |-> "none", ttl |-> 0, life |-> 0]
Min(a, b) == IF a < b THEN a ELSE b
Less(a, b) == IF a > b THEN a - b ELSE 0

Init ==
    /\ kind \in Kind
    /\ good \in BOOLEAN
    /\ since = IF good THEN 0 ELSE MaxLag + 1
    /\ entry = NoEntry
    /\ listener = "off"
    /\ inbox = {}
    /\ step = [r \in Request |-> "get"]
    /\ attempt = [r \in Request |-> 0]
    /\ answer = [r \in Request |-> 0]
    /\ wait = [r \in Request |-> 0]
    /\ lag = [r \in Request |-> 0]
    /\ heard = "no"
    /\ faults = 0

Goto(r, s) == step' = [step EXCEPT ![r] = s]
Fault == faults < MaxFaults /\ faults' = faults + 1
External == UNCHANGED <<kind, good, listener, inbox, history>>

(* validate returns the identity. *)
LetIn(r) ==
    /\ Goto(r, "accepted")
    /\ lag' = [lag EXCEPT ![r] = since]

(* After a cache miss only a JWT is verified locally. *)
AfterMiss == IF kind = "jwt" THEN "decode" ELSE "post"

(* Mutant: the entry of an API key living as long as its token *)
EntryTTLNoMargin(n) == IF kind = "jwt" THEN CacheTTL ELSE Min(CacheTTL, n)

(* The lifetime given to the entry of a fresh answer. *)
EntryTTL(n) == IF kind = "jwt" THEN CacheTTL ELSE Min(CacheTTL, n - Margin)

----------------------------------------------------------------------------
(* Mutants *)

(* an entry served without its MAC being checked *)
TrustedAny == {"gateway", "other"}

(* a hit that renews the entry *)
GetHitSlides(r) ==
    /\ step[r] = "get"
    /\ entry.owner = "gateway"
    /\ LetIn(r)
    /\ entry' = [entry EXCEPT !.ttl = CacheTTL]
    /\ UNCHANGED <<attempt, answer, wait, faults>>
    /\ External

(* a third attempt: attempt <= 1 where attempt == 0 is meant *)
TimeoutRetriesTwice(r) ==
    /\ step[r] = "post"
    /\ IF attempt[r] <= 1
       THEN /\ attempt' = [attempt EXCEPT ![r] = @ + 1]
            /\ Goto(r, "post")
       ELSE /\ Goto(r, "rejected")
            /\ UNCHANGED attempt
    /\ UNCHANGED <<entry, answer, wait, faults>>
    /\ UNCHANGED lag
    /\ External

(* the listener reading the message under another field name *)
EvictsOnUser(m) == m = "user"

----------------------------------------------------------------------------
(* validate and validate_api_key *)

(* Entries carry a MAC; only the gateway's own are believed. *)
Trusted == {"gateway"}

GetHit(r) ==
    /\ step[r] = "get"
    /\ entry.owner \in Trusted
    /\ LetIn(r)
    /\ UNCHANGED <<entry, attempt, answer, wait, faults>>
    /\ External

GetMiss(r) ==
    /\ step[r] = "get"
    /\ entry.owner \notin Trusted
    /\ Goto(r, IF entry = NoEntry THEN AfterMiss ELSE "drop")
    /\ UNCHANGED lag
    /\ UNCHANGED <<entry, attempt, answer, wait, faults>>
    /\ External

(* A Redis error counts as a miss. *)
GetFails(r) ==
    /\ step[r] = "get"
    /\ Fault
    /\ Goto(r, AfterMiss)
    /\ UNCHANGED lag
    /\ UNCHANGED <<entry, attempt, answer, wait>>
    /\ External

(* evict(): the DELETE behind a bad MAC, or behind a refusal. *)
AfterEvict(r) == IF step[r] = "drop" THEN AfterMiss ELSE "rejected"

Evict(r) ==
    /\ step[r] \in {"drop", "evict"}
    /\ entry' = NoEntry
    /\ Goto(r, AfterEvict(r))
    /\ UNCHANGED lag
    /\ UNCHANGED <<attempt, answer, wait, faults>>
    /\ External

EvictFails(r) ==
    /\ step[r] \in {"drop", "evict"}
    /\ Fault
    /\ entry' \in {entry, NoEntry}
    /\ Goto(r, AfterEvict(r))
    /\ UNCHANGED lag
    /\ UNCHANGED <<attempt, answer, wait>>
    /\ External

(* decode_token (external) passes, or raises: a bad or expired token, or   *)
(* no JWKS key to be had.                                                  *)
Decode(r) ==
    /\ step[r] = "decode"
    /\ \E s \in {"post", "rejected"} : Goto(r, s)
    /\ UNCHANGED lag
    /\ UNCHANGED <<entry, attempt, answer, wait, faults>>
    /\ External

(* The auth service answers: valid, with a minted token for an API key, or *)
(* not.                                                                    *)
Minted == IF kind = "api_key" THEN Lifetime ELSE {0}

PostAnswered(r) ==
    /\ step[r] = "post"
    /\ IF good
       THEN /\ Goto(r, "set")
            /\ \E n \in Minted : answer' = [answer EXCEPT ![r] = n]
       ELSE /\ Goto(r, "evict")
            /\ UNCHANGED answer
    /\ UNCHANGED lag
    /\ UNCHANGED <<entry, attempt, wait, faults>>
    /\ External

(* One retry after a timeout, then refused. *)
PostTimesOut(r) ==
    /\ step[r] = "post"
    /\ IF attempt[r] = 0
       THEN /\ attempt' = [attempt EXCEPT ![r] = 1]
            /\ Goto(r, "post")
       ELSE /\ Goto(r, "rejected")
            /\ UNCHANGED attempt
    /\ UNCHANGED <<entry, answer, wait, faults>>
    /\ UNCHANGED lag
    /\ External

(* Any other exception, a malformed answer included. *)
PostFails(r) ==
    /\ step[r] = "post"
    /\ Goto(r, "rejected")
    /\ UNCHANGED lag
    /\ UNCHANGED <<entry, attempt, answer, wait, faults>>
    /\ External

(* SETEX, skipped when the minted token is too short-lived. *)
Cached(r) ==
    IF EntryTTL(answer[r]) > 0
    THEN [owner |-> "gateway", ttl |-> EntryTTL(answer[r]), life |-> Less(answer[r], wait[r])]
    ELSE entry

Set(r) ==
    /\ step[r] = "set"
    /\ entry' = Cached(r)
    /\ LetIn(r)
    /\ UNCHANGED <<attempt, answer, wait, faults>>
    /\ External

SetFails(r) ==
    /\ step[r] = "set"
    /\ Fault
    /\ entry' \in {entry, Cached(r)}
    /\ LetIn(r)
    /\ UNCHANGED <<attempt, answer, wait>>
    /\ External

(* The next request that carries the credential. *)
Again(r) ==
    /\ step[r] \in Final
    /\ Goto(r, "get")
    /\ attempt' = [attempt EXCEPT ![r] = 0]
    /\ answer' = [answer EXCEPT ![r] = 0]
    /\ wait' = [wait EXCEPT ![r] = 0]
    /\ lag' = [lag EXCEPT ![r] = 0]
    /\ UNCHANGED <<entry, faults>>
    /\ External

----------------------------------------------------------------------------
(* The listener *)

requests == <<step, attempt, answer, wait, lag>>

Subscribe ==
    /\ listener = "off"
    /\ listener' = "on"
    /\ UNCHANGED <<kind, good, entry, inbox, requests, history, faults>>

(* The connection fails: what was not handled is lost, and the loop sleeps *)
(* for five seconds before it subscribes again.                            *)
ListenerFails ==
    /\ listener = "on"
    /\ Fault
    /\ listener' = "off"
    /\ inbox' = {}
    /\ UNCHANGED <<kind, good, entry, requests, history>>

(* on_invalidate evicts for a message that names the token or the key's    *)
(* hash; one that names only the user changes nothing.                     *)
Evicts(m) == m = "credential"

(* Positive answers still on their way to the cache. *)
Filling == {r \in Request : step[r] = "set"}

(* What handling m does to the history of the eviction. *)
HeardAs(m) ==
    IF m # "credential" THEN heard
    ELSE IF Filling = {} THEN "clear" ELSE "raced"

OnInvalidate(m) ==
    /\ m \in inbox
    /\ inbox' = inbox \ {m}
    /\ entry' = IF Evicts(m) THEN NoEntry ELSE entry
    /\ heard' = HeardAs(m)
    /\ UNCHANGED <<kind, good, listener, requests, since, faults>>

(* evict() swallows its Redis error: the message is used up. *)
OnInvalidateFails(m) ==
    /\ m \in inbox
    /\ Fault
    /\ inbox' = inbox \ {m}
    /\ UNCHANGED <<kind, good, entry, listener, requests, history>>

----------------------------------------------------------------------------
(* External *)

(* The auth service revokes the credential and publishes it, to whoever is *)
(* subscribed at that moment.                                              *)
Revoke(m) ==
    /\ good
    /\ good' = FALSE
    /\ inbox' = IF listener = "on" THEN {m} ELSE {}
    /\ UNCHANGED <<kind, entry, listener, requests, history, faults>>

(* It stops being valid with nothing published: it expired. *)
Expire ==
    /\ good
    /\ good' = FALSE
    /\ UNCHANGED <<kind, entry, listener, inbox, requests, history, faults>>

(* Another writer of the same Redis overwrites the entry. *)
ForeignWrite ==
    /\ Fault
    /\ entry' = [owner |-> "other", ttl |-> CacheTTL, life |-> 0]
    /\ UNCHANGED <<kind, good, listener, inbox, requests, history>>

Aged(e) ==
    IF e.ttl <= 1 THEN NoEntry
    ELSE [owner |-> e.owner, ttl |-> e.ttl - 1, life |-> Less(e.life, 1)]

Tick ==
    /\ \A r \in Filling : wait[r] < MaxWait
    /\ wait' = [r \in Request |-> IF r \in Filling THEN wait[r] + 1 ELSE wait[r]]
    /\ entry' = Aged(entry)
    /\ since' = IF good THEN 0 ELSE Capped(since + 1)
    /\ UNCHANGED <<kind, good, listener, inbox, step, attempt, answer, lag,
                   heard, faults>>

Validate(r) ==
    \/ GetHit(r) \/ GetMiss(r) \/ Evict(r) \/ Decode(r)
    \/ PostAnswered(r) \/ PostTimesOut(r) \/ PostFails(r) \/ Set(r)
ValidateFails(r) == GetFails(r) \/ EvictFails(r) \/ SetFails(r)

Next ==
    \/ \E r \in Request : Validate(r) \/ ValidateFails(r) \/ Again(r)
    \/ \E m \in Message : OnInvalidate(m) \/ OnInvalidateFails(m) \/ Revoke(m)
    \/ Subscribe \/ ListenerFails
    \/ Expire \/ ForeignWrite \/ Tick

Spec == Init /\ [][Next]_vars

(* Time passes, and every await of a request ends: the HTTP calls have a   *)
(* timeout of 3 s, and Redis is assumed to answer or to fail.              *)
FairSpec == Spec /\ WF_vars(Tick) /\ \A r \in Request : WF_vars(Validate(r))

----------------------------------------------------------------------------
(* Properties *)

(* Requests, entry and listener are well formed; no request asks the auth  *)
(* service more than twice.                                                *)
TypeOK ==
    /\ kind \in Kind
    /\ good \in BOOLEAN
    /\ entry \in [owner : {"none", "gateway", "other"}, ttl : 0..CacheTTL, life : Nat]
    /\ listener \in {"on", "off"}
    /\ inbox \subseteq Message
    /\ step \in [Request -> Step]
    /\ attempt \in [Request -> 0..1]
    /\ wait \in [Request -> 0..MaxWait]
    /\ since \in 0..(MaxLag + 1)
    /\ heard \in {"no", "clear", "raced"}
    /\ faults \in 0..MaxFaults

(* Fail closed: whatever is lost (messages, evictions, cache reads, the    *)
(* auth service itself), a request is let in only with a credential that   *)
(* the auth service accepted at most one cache lifetime and one timeout    *)
(* ago; one it never accepted is never let in.                             *)
StalenessBounded ==
    \A r \in Request : step[r] = "accepted" => lag[r] <= MaxLag

(* Once an invalidation has been handled with no older positive answer on  *)
(* its way to the cache, the credential is not cached again: every later   *)
(* request is decided by the auth service.                                 *)
RevocationSticks ==
    heard = "clear" => entry.owner # "gateway" /\ Filling = {}

(* "The entry ... always expires 30 s before the minted token does": the   *)
(* token that AuthMiddleware forwards for a cached API key is never an     *)
(* expired one, however late the answer that carried it was cached.        *)
CachedTokenAlive ==
    (kind = "api_key" /\ entry.owner = "gateway") => entry.life >= entry.ttl + Margin - MaxWait

(* A credential the auth service no longer accepts ends up not cached, and *)
(* stays so, with every message lost and however many requests keep using  *)
(* the entry meanwhile.                                                    *)
RevocationTakesEffect == ~good ~> [](entry.owner # "gateway")
=============================================================================
