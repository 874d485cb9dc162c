--------------------------- MODULE RateLimitProofs ---------------------------
(* Proofs about RateLimit for every finite set of handlers, every set of   *)
(* callers, every plan and default up to Top, and all times with Window +  *)
(* MaxHold <= BucketTTL: its types, and that the reference bucket is never *)
(* overdrawn.                                                              *)
EXTENDS RateLimit, TLAPS

(* A check has a caller from its arrival on; from the time it takes on it  *)
(* has a bucket and a positive limit, and only then can another SET cross  *)
(* it.                                                                     *)
ServedAt(r) ==
    /\ at[r] # "idle" => who[r] \in Caller
    /\ Hitting(r) => on[r] \in Subject /\ limit[r] \in 1..Top
    /\ ~Hitting(r) => r \notin crossed
    /\ r \notin crossed => taken[r] = 0

(* A written bucket lives until its timestamp is BucketTTL old. *)
Lifetime(k) ==
    bucket[k] # NoValue =>
        bucket[k].age + bucket[k].ttl \in BucketTTL..(BucketTTL + MaxHold)

(* The tokens bucket b had s ticks ago, refilled at the largest limit. *)
Avail(b, s) ==
    IF b = NoValue THEN Cap ELSE Least(Cap, b.tokens + (b.age - s) * Top)

(* The reference bucket holds at least what the stored one can grant. *)
Backed(k) == Avail(bucket[k], 0) <= ideal[k] /\ ideal[k] <= Cap

(* The tokens r read, before it took one of them. *)
Price(r) == IF draft[r].ok THEN Window ELSE 0
Read(r)  == draft[r].tokens + Price(r)

(* A hit that no other SET has crossed: the reference bucket has only been *)
(* refilled since r took the time, the stored one is older than that, and  *)
(* what r finds or has found in it was there in the reference bucket then. *)
Undisturbed(r) ==
    /\ asof[r] <= ideal[on[r]] /\ ideal[on[r]] <= asof[r] + stale[r] * Top
    /\ at[r] = "get" =>
          /\ bucket[on[r]] # NoValue => stale[r] <= bucket[on[r]].age
          /\ Avail(bucket[on[r]], stale[r]) <= asof[r]
    /\ at[r] = "set" => Read(r) <= asof[r]

(* A crossed one has read at most what the reference bucket holds now and  *)
(* what the SETs that crossed it have taken.                               *)
HitAt(r) ==
    /\ Hitting(r) /\ r \notin crossed => Undisturbed(r)
    /\ at[r] = "set" => Read(r) <= Cap /\ Read(r) <= ideal[on[r]] + taken[r] * Window

IInv ==
    /\ TypeOK
    /\ \A r \in Request : ServedAt(r) /\ HitAt(r)
    /\ \A k \in Subject : Lifetime(k) /\ Backed(k)

----------------------------------------------------------------------------
(* Arithmetic *)

(* The constants are natural numbers, and a bucket outlives the time it    *)
(* takes to fill and a hit.                                                *)
LEMMA Constants ==
    /\ Top \in Nat /\ Default \in 1..Top /\ Plans \subseteq 0..Top /\ 1 <= Top
    /\ Window \in Nat /\ 0 < Window /\ MaxHold \in Nat /\ BucketTTL \in Nat
    /\ Window + MaxHold <= BucketTTL /\ NoValue \notin Int
    /\ Cap \in Nat
BY LimitAssumption, WindowAssumption DEF Cap

(* A bucket is not the absent key. *)
LEMMA NotAbsent ==
    ASSUME NEW t \in Int, NEW a \in Int, NEW l \in Int
    PROVE  [tokens |-> t, age |-> a, ttl |-> l] # NoValue
BY LimitAssumption

(* A product with a natural number is monotone. *)
LEMMA Products ==
    ASSUME NEW c \in Nat
    PROVE  /\ \A a \in Nat : a * c \in Nat
           /\ \A a \in Nat : (a + 1) * c = a * c + c
           /\ \A a, b \in Nat : a <= b => a * c <= b * c
<1>1. \A a \in Nat : a * c \in Nat /\ (a + 1) * c = a * c + c
  OBVIOUS
<1>2. ASSUME NEW a \in Nat, NEW b \in Nat, a <= b PROVE a * c <= b * c
  <2>1. PICK d \in Nat : b = a + d
    <3>1. b - a \in Nat /\ b = a + (b - a)
      BY <1>2
    <3> QED BY <3>1
  <2>2. b * c = a * c + d * c /\ d * c \in Nat /\ a * c \in Nat /\ b * c \in Nat
    BY <1>1, <2>1
  <2> QED BY <2>2
<1> QED BY <1>1, <1>2

(* Nothing more than a window's tokens of any limit fits in a bucket. *)
LEMMA Caps ==
    ASSUME NEW n \in 0..Top
    PROVE  n * Window \in 0..Cap /\ (1 <= n => Window <= n * Window)
<1>1. n \in Nat /\ n <= Top
  BY Constants
<1>2. n * Window \in Nat /\ n * Window <= Top * Window
  BY <1>1, Constants, Products
<1>3. 1 <= n => 1 * Window <= n * Window
  BY <1>1, Constants, Products
<1> QED BY <1>2, <1>3, Constants DEF Cap

(* What a SET does to the reference bucket: with t tokens written, a price *)
(* of p, x tokens to pay from, and h for the time held, the stored bucket  *)
(* stays backed; and the reference bucket falls by at most the price.      *)
LEMMA Charging ==
    ASSUME NEW t \in Nat, NEW p \in Nat, NEW x \in Int, NEW h \in Nat
    PROVE  /\ t + p <= x => Least(Cap, t + h) <= Least(Cap, x - p + h)
           /\ \A i \in Int : i <= Cap /\ i <= x + h => i <= Least(Cap, x - p + h) + p
           /\ Least(Cap, x - p + h) \in Int /\ Least(Cap, x - p + h) <= Cap
BY Constants DEF Least

(* hit_rate_limit's refill, at a limit n and a time taken s ticks ago, is  *)
(* at most what the bucket had then, refilled at the largest limit; and    *)
(* never more than it can have now.                                        *)
LEMMA Refilled ==
    ASSUME NEW b \in {NoValue} \cup [tokens : 0..Cap, age : Nat, ttl : Nat],
           NEW n \in 1..Top, NEW s \in Nat
    PROVE  /\ Refill(b, n, s) \in 0..Cap
           /\ Refill(b, n, s) <= Avail(b, 0)
           /\ (b # NoValue => s <= b.age) => Refill(b, n, s) <= Avail(b, s)
<1>1. n * Window \in 0..Cap /\ n \in Nat /\ n <= Top
  BY Caps, Constants
<1>2. CASE b = NoValue
  BY <1>1, <1>2, Constants DEF Refill, Avail
<1>3. CASE b # NoValue
  <2>1. b.tokens \in Nat /\ b.age \in Nat /\ b.tokens <= Cap
    BY <1>3, Constants
  <2> DEFINE d == IF b.age > s THEN b.age - s ELSE 0
  <2>2. d \in Nat /\ d <= b.age /\ (s <= b.age => d = b.age - s)
    BY <2>1
  <2> HIDE DEF d
  <2>3. d * n \in Nat /\ d * n <= d * Top /\ d * Top <= b.age * Top /\ b.age * Top \in Nat
    <3>1. n * d <= Top * d
      BY <1>1, <2>2, Constants, Products
    <3>2. d * Top <= b.age * Top
      BY <2>1, <2>2, Constants, Products
    <3>3. n * d = d * n /\ Top * d = d * Top /\ d * n \in Nat /\ b.age * Top \in Nat
      BY <1>1, <2>1, <2>2, Constants
    <3> QED BY <3>1, <3>2, <3>3
  <2>4. Refill(b, n, s) = Least(n * Window, b.tokens + d * n)
    BY <1>3 DEF Refill, d
  <2>5. Avail(b, 0) = Least(Cap, b.tokens + b.age * Top)
    BY <1>3, <2>1 DEF Avail
  <2>6. s <= b.age => Avail(b, s) = Least(Cap, b.tokens + d * Top)
    BY <1>3, <2>2 DEF Avail
  <2> QED BY <1>1, <1>3, <2>1, <2>2, <2>3, <2>4, <2>5, <2>6, Constants DEF Least
<1> QED BY <1>2, <1>3

(* A reply has at most Top left and asks to wait at most Window. *)
Replies == [ok : BOOLEAN, left : 0..Top, reset : 0..Window]
LEMMA ReplyTyped ==
    ASSUME NEW d \in [tokens : 0..Cap, ok : BOOLEAN], NEW n \in 1..Top
    PROVE  Reply(d, n) \in Replies
<1>1. d.tokens \in Nat /\ d.tokens <= Top * Window /\ n \in Nat /\ 1 <= n
  BY Constants DEF Cap
<1>2. d.tokens \div Window \in 0..Top
  BY <1>1, Constants
<1>3. ASSUME d.tokens < Window
      PROVE  (Window - d.tokens + n - 1) \div n \in 0..Window
  BY <1>1, <1>3, Constants
<1> QED BY <1>1, <1>2, <1>3, Constants DEF Reply, Replies

----------------------------------------------------------------------------
(* How a check moves *)

(* What the invariant says of a request is about its own place, its bucket *)
(* and who crossed it.                                                     *)
LEMMA Untouched ==
    ASSUME NEW q \in Request, ServedAt(q) /\ HitAt(q),
           at'[q] = at[q], who'[q] = who[q], on'[q] = on[q], limit'[q] = limit[q],
           stale'[q] = stale[q], draft'[q] = draft[q], asof'[q] = asof[q],
           taken'[q] = taken[q], q \in crossed' <=> q \in crossed,
           Hitting(q) => bucket'[on[q]] = bucket[on[q]] /\ ideal'[on[q]] = ideal[on[q]]
    PROVE  ServedAt(q)' /\ HitAt(q)'
BY DEF ServedAt, HitAt, Hitting, Undisturbed, Read, Price, Avail

(* The part of the types that an answer or the start of a hit can change. *)
Control ==
    /\ at \in [Request -> {"idle", "plan", "get", "set"}]
    /\ who \in [Request -> Caller \cup {NoValue}]
    /\ on \in [Request -> Subject \cup {NoValue}]
    /\ limit \in [Request -> 0..Top]
    /\ stale \in [Request -> 0..MaxHold]
    /\ asof \in [Request -> Int]
    /\ wait \in [Caller -> 0..Window]
    /\ refused \in [Caller -> SUBSET Subject]

(* Nothing of the other requests' control changes. *)
OnlyMoves(r) ==
    \A q \in Request \ {r} :
        /\ at'[q] = at[q] /\ who'[q] = who[q] /\ on'[q] = on[q] /\ limit'[q] = limit[q]
        /\ stale'[q] = stale[q] /\ asof'[q] = asof[q]

(* An answer makes the handler idle. *)
LEMMA Answered ==
    ASSUME TypeOK, NEW r \in Request, NEW c \in Caller, NEW x \in Replies, NEW y \in Replies,
           Answer(r, c, x, y)
    PROVE  Control' /\ OnlyMoves(r) /\ at'[r] = "idle"
<1>1. /\ at' = [at EXCEPT ![r] = "idle"] /\ who' = [who EXCEPT ![r] = NoValue]
      /\ on' = [on EXCEPT ![r] = NoValue] /\ limit' = [limit EXCEPT ![r] = 0]
      /\ stale' = [stale EXCEPT ![r] = 0] /\ asof' = [asof EXCEPT ![r] = 0]
  BY DEF Answer, Goto
<1>2. wait' \in [Caller -> 0..Window]
  <2>1. Binding(x, y).reset \in 0..Window /\ 0 \in 0..Window
    BY Constants DEF Binding, Replies
  <2> QED BY <2>1 DEF Answer, TypeOK
<1>3. refused' \in [Caller -> SUBSET Subject]
  <2> DEFINE no == {k \in {c, Org} : ~(IF k = Org THEN y ELSE x).ok}
  <2>1. no \subseteq Subject
    BY DEF Subject
  <2>2. refused' = [refused EXCEPT ![c] = IF c \in Member THEN no ELSE no \ {Org}]
    BY DEF Answer
  <2> HIDE DEF no
  <2> QED BY <2>1, <2>2 DEF TypeOK
<1>4. 0 \in 0..Top /\ 0 \in 0..MaxHold /\ 0 \in Int
  BY Constants
<1> QED BY <1>1, <1>2, <1>3, <1>4 DEF TypeOK, Control, OnlyMoves

(* A hit begins with the time, and so with the reference bucket of now. *)
LEMMA Started ==
    ASSUME TypeOK, NEW r \in Request, NEW k \in Subject, ideal'[k] \in Int, Start(r, k)
    PROVE  /\ at' \in [Request -> {"idle", "plan", "get", "set"}]
           /\ on' \in [Request -> Subject \cup {NoValue}]
           /\ stale' \in [Request -> 0..MaxHold] /\ asof' \in [Request -> Int]
           /\ at'[r] = "get" /\ on'[r] = k /\ stale'[r] = 0 /\ asof'[r] = ideal'[k]
           /\ \A q \in Request \ {r} : /\ at'[q] = at[q] /\ on'[q] = on[q]
                                       /\ stale'[q] = stale[q] /\ asof'[q] = asof[q]
<1>1. 0 \in 0..MaxHold
  BY Constants
<1> QED BY <1>1 DEF TypeOK, Start, Goto

(* A hit that has just begun has nothing to be told of. *)
LEMMA Fresh ==
    ASSUME NEW r \in Request, NEW k \in Subject, at'[r] = "get", on'[r] = k, stale'[r] = 0,
           asof'[r] = ideal'[k], ideal'[k] \in Int,
           bucket'[k] # NoValue => bucket'[k].age \in Nat, Backed(k)'
    PROVE  HitAt(r)'
<1>1. Avail(bucket'[k], 0) <= ideal'[k]
  BY DEF Backed, Avail
<1>2. 0 * Top = 0 /\ \A i \in Int : i <= i /\ i + 0 = i
  BY Constants
<1>3. \A a \in Nat : 0 <= a
  OBVIOUS
<1>4. Undisturbed(r)'
  BY <1>1, <1>2, <1>3 DEF Undisturbed, Avail
<1> QED BY <1>4 DEF HitAt

(* A hit is over: the request goes on to the organization's bucket or is   *)
(* answered.                                                               *)
LEMMA Returned ==
    ASSUME TypeOK, NEW r \in Request, ServedAt(r), Hitting(r), NEW y \in Replies,
           ideal' \in [Subject -> Int], HitReturns(r, y)
    PROVE  /\ Control' /\ OnlyMoves(r) /\ UNCHANGED <<plan, failing>>
           /\ draft' = [draft EXCEPT ![r] = NoDraft]
           /\ first' \in [Request -> Replies]
           /\ \/ at'[r] = "idle"
              \/ /\ at'[r] = "get" /\ on'[r] = Org /\ stale'[r] = 0
                 /\ asof'[r] = ideal'[Org]
                 /\ who'[r] = who[r] /\ limit'[r] = limit[r]
<1>1. who[r] \in Caller /\ first[r] \in Replies /\ Org \in Subject
  BY DEF ServedAt, Hitting, TypeOK, Subject, Replies
<1>2. draft' = [draft EXCEPT ![r] = NoDraft] /\ UNCHANGED <<plan, failing>>
  BY DEF HitReturns
<1>3. CASE on[r] # Org /\ who[r] \in Member
  <2>1. Start(r, Org) /\ UNCHANGED <<who, limit, callerVars>> /\ first' = [first EXCEPT ![r] = y]
    BY <1>3 DEF HitReturns
  <2> QED BY <1>1, <1>2, <2>1, Started DEF TypeOK, Control, OnlyMoves, callerVars, Replies
<1>4. CASE ~(on[r] # Org /\ who[r] \in Member)
  <2>1. /\ Answer(r, who[r], first[r], y) \/ Answer(r, who[r], y, y)
        /\ first' = [first EXCEPT ![r] = NoReply]
    BY <1>4 DEF HitReturns
  <2>2. NoReply \in Replies
    BY Constants DEF NoReply, Replies
  <2>3. first' \in [Request -> Replies]
    BY <2>1, <2>2 DEF TypeOK, Replies
  <2> QED BY <1>1, <1>2, <2>1, <2>3, Answered
<1> QED BY <1>3, <1>4

----------------------------------------------------------------------------
(* The steps *)

(* While no bucket is written, all of them stay backed. *)
LEMMA BucketsKept ==
    ASSUME \A k \in Subject : Lifetime(k) /\ Backed(k), UNCHANGED <<bucket, ideal>>
    PROVE  \A k \in Subject : Lifetime(k)' /\ Backed(k)'
BY DEF Lifetime, Backed, Avail

(* A stored bucket is a record of numbers. *)
LEMMA Stored ==
    ASSUME TypeOK, NEW k \in Subject
    PROVE  /\ bucket[k] \in {NoValue} \cup [tokens : 0..Cap, age : Nat, ttl : Nat]
           /\ bucket[k] # NoValue =>
                 /\ bucket[k].tokens \in 0..Cap /\ bucket[k].age \in Nat
                 /\ bucket[k].ttl \in 1..BucketTTL
           /\ ideal[k] \in Int
<1>1. bucket[k] \in {NoValue} \cup [tokens : 0..Cap, age : 0..(BucketTTL + MaxHold), ttl : 1..BucketTTL]
  BY DEF TypeOK
<1>2. 0..(BucketTTL + MaxHold) \subseteq Nat /\ 1..BucketTTL \subseteq Nat
  BY Constants
<1> QED BY <1>1, <1>2 DEF TypeOK

(* The limit is known: the first hit begins, or the check is answered. *)
LEMMA LimitedKeeps ==
    ASSUME IInv, NEW r \in Request, NEW c \in Caller, NEW n \in 0..Top, ~Hitting(r),
           Limited(r, c, n)
    PROVE  IInv'
<1>0. TypeOK /\ c \in Subject
  BY DEF IInv, Subject
<1>1. UNCHANGED <<plan, failing, bucket, ideal, crossed, taken, draft, first>>
  BY DEF Limited, bucketVars
<1>2. \A k \in Subject : Lifetime(k)' /\ Backed(k)'
  BY <1>1, BucketsKept DEF IInv
<1>3. /\ Control' /\ OnlyMoves(r)
      /\ \/ at'[r] = "idle"
         \/ /\ at'[r] = "get" /\ on'[r] = c /\ stale'[r] = 0 /\ asof'[r] = ideal'[c]
            /\ who'[r] = c /\ limit'[r] = n /\ n \in 1..Top
  <2>1. CASE n <= 0
    <3>1. Shut \in Replies
      BY Constants DEF Shut, Replies
    <3> QED BY <1>0, <2>1, <3>1, Answered DEF Limited
  <2>2. CASE ~(n <= 0)
    <3>1. n \in 1..Top
      BY <2>2, Constants
    <3>2. /\ Start(r, c) /\ limit' = [limit EXCEPT ![r] = n] /\ who' = [who EXCEPT ![r] = c]
          /\ UNCHANGED callerVars
      BY <2>2 DEF Limited
    <3>3. ideal'[c] \in Int
      BY <1>0, <1>1, Stored
    <3> QED BY <1>0, <3>1, <3>2, <3>3, Started DEF TypeOK, Control, OnlyMoves, callerVars
  <2> QED BY <2>1, <2>2
<1>4. TypeOK'
  BY <1>0, <1>1, <1>3 DEF TypeOK, Control
<1>5. ASSUME NEW q \in Request \ {r} PROVE ServedAt(q)' /\ HitAt(q)'
  BY <1>1, <1>3, Untouched DEF IInv, OnlyMoves
<1>6. ServedAt(r)'
  BY <1>0, <1>1, <1>3 DEF IInv, ServedAt, Hitting
<1>7. HitAt(r)'
  <2>1. CASE at'[r] = "idle"
    BY <2>1 DEF HitAt, Hitting
  <2>2. CASE at'[r] = "get" /\ on'[r] = c /\ stale'[r] = 0 /\ asof'[r] = ideal'[c]
    BY <1>0, <1>1, <1>2, <2>2, Stored, Fresh
  <2> QED BY <1>3, <2>1, <2>2
<1> QED BY <1>2, <1>4, <1>5, <1>6, <1>7 DEF IInv

(* A call arrives, or the plan's limit is read or not read. *)
LEMMA PlanKeeps ==
    ASSUME IInv, NEW r \in Request,
           (\E c \in Caller : Arrive(r, c)) \/ PlanGet(r) \/ PlanGetFails(r)
    PROVE  IInv'
<1>0. Default \in 0..Top /\ Plans \subseteq 0..Top /\ plan \in Plans \cup {NoValue}
  BY Constants DEF IInv, TypeOK
<1>1. ASSUME NEW c \in Caller, Arrive(r, c), c \in Member PROVE IInv'
  <2>1. /\ at[r] = "idle" /\ at' = [at EXCEPT ![r] = "plan"] /\ who' = [who EXCEPT ![r] = c]
        /\ UNCHANGED <<plan, failing, bucket, ideal, crossed, taken, on, limit, stale, draft,
                       first, asof, wait, refused>>
    BY <1>1 DEF Arrive, Goto, bucketVars, callerVars
  <2>2. TypeOK'
    BY <2>1 DEF IInv, TypeOK
  <2>3. \A k \in Subject : Lifetime(k)' /\ Backed(k)'
    BY <2>1, BucketsKept DEF IInv
  <2>4. at'[r] = "plan" /\ who'[r] = c
    BY <2>1 DEF IInv, TypeOK
  <2>5. ServedAt(r)' /\ HitAt(r)'
    BY <2>1, <2>4 DEF IInv, ServedAt, HitAt, Hitting
  <2>6. ASSUME NEW q \in Request \ {r} PROVE ServedAt(q)' /\ HitAt(q)'
    <3>1. at'[q] = at[q] /\ who'[q] = who[q]
      BY <2>1 DEF IInv, TypeOK
    <3> QED BY <2>1, <3>1, Untouched DEF IInv
  <2> QED BY <2>2, <2>3, <2>5, <2>6 DEF IInv
<1>2. ASSUME NEW c \in Caller, Arrive(r, c), c \notin Member PROVE IInv'
  BY <1>0, <1>2, LimitedKeeps DEF Arrive, Hitting
<1>3. ASSUME PlanGet(r) \/ PlanGetFails(r) PROVE IInv'
  <2>1. at[r] = "plan" /\ who[r] \in Caller /\ ~Hitting(r)
    BY <1>3 DEF PlanGet, PlanGetFails, IInv, ServedAt, Hitting
  <2>2. \E n \in 0..Top : Limited(r, who[r], n)
    BY <1>0, <1>3 DEF PlanGet, PlanGetFails
  <2> QED BY <2>1, <2>2, LimitedKeeps
<1> QED BY <1>1, <1>2, <1>3

(* What GET finds is backed by the reference bucket: of the time taken if  *)
(* nobody crossed, of now in any case.                                     *)
LEMMA GetKeeps ==
    ASSUME IInv, NEW r \in Request, Get(r)
    PROVE  IInv'
<1> DEFINE k == on[r]
           t == Refill(bucket[k], limit[r], stale[r])
<1>0. TypeOK /\ at[r] = "get" /\ Hitting(r) /\ k \in Subject /\ limit[r] \in 1..Top
      /\ stale[r] \in Nat
  BY Constants DEF IInv, Get, ServedAt, Hitting, TypeOK
<1>1. UNCHANGED <<plan, failing, bucket, ideal, crossed, taken, who, on, limit, stale, first, asof,
                  wait, refused>>
  BY DEF Get, bucketVars, callerVars
<1>2. /\ t \in 0..Cap /\ t <= Avail(bucket[k], 0)
      /\ (bucket[k] # NoValue => stale[r] <= bucket[k].age) => t <= Avail(bucket[k], stale[r])
  BY <1>0, Stored, Refilled
<1>3. /\ draft' = [draft EXCEPT ![r] = [tokens |-> IF t >= Window THEN t - Window ELSE t,
                                        ok |-> t >= Window]]
      /\ at' = [at EXCEPT ![r] = "set"]
  BY DEF Get, Goto
<1>4. t - Window \in Int /\ (t >= Window => t - Window \in 0..Cap)
      /\ (t - Window) + Window = t /\ t + 0 = t
  BY <1>2, Constants
<1> HIDE DEF t
<1>5. /\ draft'[r] \in {[tokens |-> t - Window, ok |-> TRUE], [tokens |-> t, ok |-> FALSE]}
      /\ draft'[r].ok => t >= Window
      /\ draft' \in [Request -> [tokens : 0..Cap, ok : BOOLEAN]]
      /\ at'[r] = "set" /\ at' \in [Request -> {"idle", "plan", "get", "set"}]
      /\ \A q \in Request \ {r} : draft'[q] = draft[q] /\ at'[q] = at[q]
  <2>1. /\ at'[r] = "set" /\ at' \in [Request -> {"idle", "plan", "get", "set"}]
        /\ \A q \in Request \ {r} : at'[q] = at[q]
    BY <1>0, <1>3 DEF TypeOK
  <2>2. CASE t >= Window
    <3>1. draft' = [draft EXCEPT ![r] = [tokens |-> t - Window, ok |-> TRUE]]
      BY <1>3, <2>2
    <3>2. [tokens |-> t - Window, ok |-> TRUE] \in [tokens : 0..Cap, ok : BOOLEAN]
      BY <1>4, <2>2
    <3> QED BY <1>0, <2>1, <2>2, <3>1, <3>2 DEF TypeOK
  <2>3. CASE ~(t >= Window)
    <3>1. draft' = [draft EXCEPT ![r] = [tokens |-> t, ok |-> FALSE]]
      <4>1. (t >= Window) = FALSE
        BY <1>2, <2>3, Constants
      <4> QED BY <1>3, <4>1
    <3>2. [tokens |-> t, ok |-> FALSE] \in [tokens : 0..Cap, ok : BOOLEAN]
      BY <1>2
    <3> QED BY <1>0, <2>1, <3>1, <3>2 DEF TypeOK
  <2> QED BY <2>2, <2>3
<1>6. Read(r)' = t
  BY <1>4, <1>5 DEF Read, Price
<1>7. TypeOK'
  BY <1>0, <1>1, <1>5 DEF TypeOK
<1>8. \A j \in Subject : Lifetime(j)' /\ Backed(j)'
  BY <1>1, BucketsKept DEF IInv
<1>9. ServedAt(r)'
  BY <1>0, <1>1, <1>5 DEF IInv, ServedAt, Hitting
<1>10. HitAt(r)'
  <2>1. t <= ideal[k] /\ t <= Cap
    <3>1. Avail(bucket[k], 0) <= ideal[k] /\ Avail(bucket[k], 0) \in Int /\ ideal[k] \in Int
      <4>1. Avail(bucket[k], 0) \in Int
        BY <1>0, Stored, Constants DEF Avail, Least
      <4> QED BY <1>0, <4>1, Stored DEF IInv, Backed
    <3> QED BY <1>2, <3>1, Constants
  <2>2. t <= ideal[k] + taken[r] * Window
    <3>1. taken[r] \in Nat /\ taken[r] * Window \in Nat
      BY <1>0, Constants, Products DEF TypeOK
    <3> QED BY <1>0, <1>2, <2>1, <3>1, Stored
  <2>3. ASSUME r \notin crossed PROVE Undisturbed(r)'
    <3>1. Undisturbed(r)
      BY <1>0, <2>3 DEF IInv, HitAt
    <3>2. t <= Avail(bucket[k], stale[r]) /\ Avail(bucket[k], stale[r]) <= asof[r]
      BY <1>0, <1>2, <3>1 DEF Undisturbed
    <3>3. Avail(bucket[k], stale[r]) \in Int /\ asof[r] \in Int
      BY <1>0, Stored, Constants DEF Avail, Least, TypeOK
    <3>4. t <= asof[r]
      BY <1>2, <3>2, <3>3
    <3> QED BY <1>1, <1>5, <1>6, <3>1, <3>4 DEF Undisturbed
  <2> QED BY <1>1, <1>5, <1>6, <2>1, <2>2, <2>3, Constants DEF HitAt, Hitting, Cap
<1>11. ASSUME NEW q \in Request \ {r} PROVE ServedAt(q)' /\ HitAt(q)'
  BY <1>1, <1>5, Untouched DEF IInv
<1> QED BY <1>7, <1>8, <1>9, <1>10, <1>11 DEF IInv

(* What the request whose hit is over is left with, in either outcome. *)
LEMMA ReturnedPlaced ==
    ASSUME TypeOK, NEW r \in Request, ServedAt(r), Hitting(r),
           r \notin crossed', taken'[r] = 0, Backed(Org)', ideal'[Org] \in Int,
           bucket'[Org] # NoValue => bucket'[Org].age \in Nat,
           \/ at'[r] = "idle"
           \/ /\ at'[r] = "get" /\ on'[r] = Org /\ stale'[r] = 0
              /\ asof'[r] = ideal'[Org]
              /\ who'[r] = who[r] /\ limit'[r] = limit[r]
    PROVE  ServedAt(r)' /\ HitAt(r)'
<1>1. who[r] \in Caller /\ limit[r] \in 1..Top /\ Org \in Subject
  BY DEF ServedAt, Hitting, Subject
<1>2. CASE at'[r] = "idle"
  BY <1>2 DEF ServedAt, HitAt, Hitting
<1>3. CASE /\ at'[r] = "get" /\ on'[r] = Org /\ stale'[r] = 0
           /\ asof'[r] = ideal'[Org]
           /\ who'[r] = who[r] /\ limit'[r] = limit[r]
  <2>1. ServedAt(r)'
    BY <1>1, <1>3 DEF ServedAt, Hitting
  <2>2. HitAt(r)'
    BY <1>1, <1>3, Fresh
  <2> QED BY <2>1, <2>2
<1> QED BY <1>2, <1>3

(* A hit that ends without its SET leaves the bucket alone. *)
LEMMA LeaveKeeps ==
    ASSUME IInv, NEW r \in Request, Hitting(r), NEW y \in Replies,
           Leave(r), UNCHANGED <<bucket, ideal>>, HitReturns(r, y)
    PROVE  IInv'
<1>0. TypeOK /\ ServedAt(r) /\ Org \in Subject
  BY DEF IInv, Subject
<1>1. /\ Control' /\ OnlyMoves(r) /\ UNCHANGED <<plan, failing>>
      /\ draft' = [draft EXCEPT ![r] = NoDraft]
      /\ first' \in [Request -> Replies]
      /\ \/ at'[r] = "idle"
         \/ /\ at'[r] = "get" /\ on'[r] = Org /\ stale'[r] = 0
            /\ asof'[r] = ideal'[Org]
            /\ who'[r] = who[r] /\ limit'[r] = limit[r]
  <2>1. ideal' \in [Subject -> Int]
    BY <1>0 DEF TypeOK
  <2> QED BY <1>0, <2>1, Returned
<1>2. /\ crossed' = crossed \ {r} /\ taken' = [taken EXCEPT ![r] = 0]
      /\ r \notin crossed' /\ taken'[r] = 0 /\ taken' \in [Request -> 0..(Top + 1)]
  BY <1>0, Constants DEF Leave, TypeOK
<1>3. NoDraft \in [tokens : 0..Cap, ok : BOOLEAN]
  BY Constants DEF NoDraft
<1>4. TypeOK'
  BY <1>0, <1>1, <1>2, <1>3 DEF TypeOK, Control, Replies
<1>5. \A k \in Subject : Lifetime(k)' /\ Backed(k)'
  BY BucketsKept DEF IInv
<1>6. ServedAt(r)' /\ HitAt(r)'
  BY <1>0, <1>1, <1>2, <1>5, Stored, ReturnedPlaced
<1>7. ASSUME NEW q \in Request \ {r} PROVE ServedAt(q)' /\ HitAt(q)'
  <2>1. draft'[q] = draft[q] /\ taken'[q] = taken[q] /\ (q \in crossed' <=> q \in crossed)
    BY <1>0, <1>1, <1>2 DEF TypeOK
  <2> QED BY <1>1, <2>1, Untouched DEF IInv, OnlyMoves
<1> QED BY <1>4, <1>5, <1>6, <1>7 DEF IInv

(* A SET is charged to the reference bucket so that what it writes stays   *)
(* backed, and so that the reference bucket falls by at most the token it  *)
(* granted, although it may undo what others wrote meanwhile.              *)
LEMMA ChargedWell ==
    ASSUME IInv, NEW r \in Request, at[r] = "set"
    PROVE  /\ Charged(r) \in Int /\ Charged(r) <= Cap /\ 0 <= Charged(r)
           /\ Avail(Written(r), 0) <= Charged(r)
           /\ ideal[on[r]] <= Charged(r) + Price(r)
           /\ Written(r) \in [tokens : 0..Cap, age : 0..(BucketTTL + MaxHold), ttl : 1..BucketTTL]
           /\ Written(r).age + Written(r).ttl \in BucketTTL..(BucketTTL + MaxHold)
           /\ Written(r) # NoValue
<1> DEFINE k == on[r]
           h == stale[r] * Top
           x == IF r \in crossed THEN ideal[k] + taken[r] * Window ELSE asof[r]
<1>0. TypeOK /\ Hitting(r) /\ k \in Subject
  BY DEF IInv, ServedAt, Hitting
<1>1. /\ draft[r].tokens \in Nat /\ draft[r].tokens <= Cap /\ Price(r) \in Nat
      /\ stale[r] \in Nat /\ stale[r] <= MaxHold /\ h \in Nat /\ ideal[k] \in Int
      /\ taken[r] * Window \in Nat /\ asof[r] \in Int
  <2>1. draft[r] \in [tokens : 0..Cap, ok : BOOLEAN] /\ stale[r] \in 0..MaxHold
        /\ taken[r] \in 0..(Top + 1)
    BY <1>0 DEF TypeOK
  <2>2. stale[r] \in Nat /\ taken[r] \in Nat
    BY <2>1, Constants
  <2> QED BY <1>0, <2>1, <2>2, Constants, Products DEF TypeOK, Price
<1>2. Read(r) <= x /\ ideal[k] <= x + h /\ x \in Int
  <2>1. CASE r \in crossed
    <3>1. Read(r) <= ideal[k] + taken[r] * Window
      BY DEF IInv, HitAt
    <3> QED BY <1>1, <2>1, <3>1
  <2>2. CASE r \notin crossed
    BY <1>0, <1>1, <2>2 DEF IInv, HitAt, Undisturbed
  <2> QED BY <2>1, <2>2
<1>3. ideal[k] <= Cap
  BY <1>0 DEF IInv, Backed
<1>4. Charged(r) = Least(Cap, x - Price(r) + h)
  <2>1. CASE r \in crossed
    <3>1. ideal[k] - Price(r) + h + taken[r] * Window = (ideal[k] + taken[r] * Window) - Price(r) + h
      BY <1>1
    <3> QED BY <2>1, <3>1 DEF Charged, Price
  <2>2. CASE r \notin crossed
    BY <2>2 DEF Charged, Price
  <2> QED BY <2>1, <2>2
<1>5. Avail(Written(r), 0) = Least(Cap, draft[r].tokens + h)
  <2>1. Written(r) # NoValue
    BY <1>1, Constants, NotAbsent DEF Written
  <2>2. (stale[r] - 0) = stale[r]
    BY <1>1
  <2> QED BY <2>1, <2>2 DEF Avail, Written
<1>6. /\ Written(r) \in [tokens : 0..Cap, age : 0..(BucketTTL + MaxHold), ttl : 1..BucketTTL]
      /\ Written(r).age + Written(r).ttl \in BucketTTL..(BucketTTL + MaxHold)
      /\ Written(r) # NoValue
  BY <1>1, Constants, NotAbsent DEF Written
<1> HIDE DEF x, h, k
<1>7. /\ Charged(r) \in Int /\ Charged(r) <= Cap
      /\ Least(Cap, draft[r].tokens + h) <= Charged(r)
      /\ ideal[k] <= Charged(r) + Price(r)
  <2> DEFINE t == draft[r].tokens
             p == Price(r)
  <2>1. t \in Nat /\ p \in Nat /\ h \in Nat /\ x \in Int /\ t + p <= x
    BY <1>1, <1>2 DEF Read
  <2> HIDE DEF t, p
  <2>2. /\ Least(Cap, t + h) <= Least(Cap, x - p + h)
        /\ \A i \in Int : i <= Cap /\ i <= x + h => i <= Least(Cap, x - p + h) + p
        /\ Least(Cap, x - p + h) \in Int /\ Least(Cap, x - p + h) <= Cap
    BY <2>1, Charging
  <2>3. ideal[k] <= Least(Cap, x - p + h) + p
    BY <1>1, <1>2, <1>3, <2>2
  <2> QED BY <1>4, <2>2, <2>3 DEF t, p
<1>8. 0 <= Least(Cap, draft[r].tokens + h) /\ Least(Cap, draft[r].tokens + h) \in Int
  BY <1>1, Constants DEF Least
<1> QED BY <1>5, <1>6, <1>7, <1>8 DEF k

(* Whoever is crossed by a SET has read at most what the reference bucket  *)
(* still holds and what was taken since.                                   *)
LEMMA Crossing ==
    ASSUME NEW x \in Nat, NEW i \in Int, NEW j \in Int, NEW n \in 0..(Top + 1),
           x <= Cap, x <= i + n * Window, 0 <= j
    PROVE  /\ i <= j => x <= j + n * Window
           /\ i <= j + Window => x <= j + Least(n + 1, Top + 1) * Window
<1>1. n \in Nat /\ n * Window \in Nat
  BY Constants, Products
<1>2. i <= j => x <= j + n * Window
  BY <1>1
<1>3. ASSUME i <= j + Window PROVE x <= j + Least(n + 1, Top + 1) * Window
  <2>1. CASE Least(n + 1, Top + 1) = n + 1
    <3>1. (n + 1) * Window = n * Window + Window
      BY <1>1, Constants, Products
    <3> QED BY <1>1, <1>3, <2>1, <3>1, Constants
  <2>2. CASE Least(n + 1, Top + 1) = Top + 1
    <3>1. (Top + 1) * Window = Cap + Window
      BY Constants, Products DEF Cap
    <3> QED BY <2>2, <3>1, Constants
  <2> QED BY <1>1, <2>1, <2>2, Constants DEF Least
<1> QED BY <1>2, <1>3

(* A SET, answered or not, keeps the invariant. *)
LEMMA WriteKeeps ==
    ASSUME IInv, NEW r \in Request, at[r] = "set", NEW y \in Replies,
           WriteBucket(r), HitReturns(r, y)
    PROVE  IInv'
<1> DEFINE k == on[r]
           others == {q \in Request \ {r} : at[q] \in {"get", "set"} /\ on[q] = k}
<1>0. TypeOK /\ ServedAt(r) /\ Hitting(r) /\ k \in Subject /\ Org \in Subject
  BY DEF IInv, ServedAt, Hitting, Subject
<1>1. /\ bucket' = [bucket EXCEPT ![k] = Written(r)]
      /\ ideal' = [ideal EXCEPT ![k] = Charged(r)]
      /\ crossed' = (crossed \ {r}) \cup others
      /\ taken' = [q \in Request |->
                      IF q = r THEN 0
                      ELSE IF q \in others /\ draft[r].ok
                      THEN Least(taken[q] + 1, Top + 1) ELSE taken[q]]
  BY DEF WriteBucket
<1>2. /\ Charged(r) \in Int /\ Charged(r) <= Cap /\ 0 <= Charged(r)
      /\ Avail(Written(r), 0) <= Charged(r)
      /\ ideal[k] <= Charged(r) + Price(r)
      /\ Written(r) \in [tokens : 0..Cap, age : 0..(BucketTTL + MaxHold), ttl : 1..BucketTTL]
      /\ Written(r).age + Written(r).ttl \in BucketTTL..(BucketTTL + MaxHold)
      /\ Written(r) # NoValue
  BY ChargedWell
<1>3. /\ bucket'[k] = Written(r) /\ ideal'[k] = Charged(r)
      /\ \A j \in Subject \ {k} : bucket'[j] = bucket[j] /\ ideal'[j] = ideal[j]
      /\ bucket' \in [Subject -> {NoValue} \cup
             [tokens : 0..Cap, age : 0..(BucketTTL + MaxHold), ttl : 1..BucketTTL]]
      /\ ideal' \in [Subject -> Int]
  BY <1>0, <1>1, <1>2 DEF TypeOK
<1>4. /\ r \notin crossed' /\ taken'[r] = 0 /\ crossed' \subseteq Request
      /\ taken' \in [Request -> 0..(Top + 1)]
  <2>1. r \notin crossed' /\ taken'[r] = 0 /\ crossed' \subseteq Request
    BY <1>0, <1>1 DEF TypeOK
  <2>2. \A n \in 0..(Top + 1) : Least(n + 1, Top + 1) \in 0..(Top + 1)
    BY Constants DEF Least
  <2>3. 0 \in 0..(Top + 1) /\ \A q \in Request : taken[q] \in 0..(Top + 1)
    BY <1>0, Constants DEF TypeOK
  <2> HIDE DEF others
  <2>4. taken' \in [Request -> 0..(Top + 1)]
    BY <1>1, <2>2, <2>3
  <2> QED BY <2>1, <2>4
<1>5. /\ Control' /\ OnlyMoves(r) /\ UNCHANGED <<plan, failing>>
      /\ draft' = [draft EXCEPT ![r] = NoDraft]
      /\ first' \in [Request -> Replies]
      /\ \/ at'[r] = "idle"
         \/ /\ at'[r] = "get" /\ on'[r] = Org /\ stale'[r] = 0
            /\ asof'[r] = ideal'[Org]
            /\ who'[r] = who[r] /\ limit'[r] = limit[r]
  BY <1>0, <1>3, Returned
<1>6. NoDraft \in [tokens : 0..Cap, ok : BOOLEAN]
  BY Constants DEF NoDraft
<1>7. TypeOK'
  BY <1>0, <1>3, <1>4, <1>5, <1>6 DEF TypeOK, Control, Replies
<1>8. ASSUME NEW j \in Subject PROVE Lifetime(j)' /\ Backed(j)'
  <2>1. CASE j = k
    BY <1>2, <1>3, <2>1 DEF Lifetime, Backed, Avail
  <2>2. CASE j # k
    BY <1>3, <2>2 DEF IInv, Lifetime, Backed, Avail
  <2> QED BY <2>1, <2>2
<1>9. ServedAt(r)' /\ HitAt(r)'
  <2>1. bucket'[Org] # NoValue => bucket'[Org].age \in Nat
    BY <1>0, <1>3, Constants
  <2> QED BY <1>0, <1>3, <1>4, <1>5, <1>8, <2>1, ReturnedPlaced
<1>10. ASSUME NEW q \in Request \ {r} PROVE ServedAt(q)' /\ HitAt(q)'
  <2>1. /\ at'[q] = at[q] /\ who'[q] = who[q] /\ on'[q] = on[q] /\ limit'[q] = limit[q]
        /\ stale'[q] = stale[q] /\ asof'[q] = asof[q] /\ draft'[q] = draft[q]
    BY <1>0, <1>5 DEF OnlyMoves, TypeOK
  <2>2. CASE q \notin others
    <3>1. taken'[q] = taken[q] /\ (q \in crossed' <=> q \in crossed)
      BY <1>1, <2>2
    <3>2. Hitting(q) => bucket'[on[q]] = bucket[on[q]] /\ ideal'[on[q]] = ideal[on[q]]
      BY <1>3, <2>2 DEF Hitting, IInv, ServedAt
    <3> QED BY <2>1, <3>1, <3>2, Untouched DEF IInv
  <2>3. CASE q \in others
    <3>1. q \in crossed' /\ Hitting(q) /\ Hitting(q)' /\ on'[q] = k /\ on[q] = k
      BY <1>1, <2>1, <2>3 DEF Hitting
    <3>2. ServedAt(q)'
      BY <2>1, <3>1 DEF IInv, ServedAt, Hitting
    <3>3. ASSUME at[q] = "set"
          PROVE  Read(q) <= Cap /\ Read(q) <= Charged(r) + taken'[q] * Window
      <4>1. /\ Read(q) <= Cap /\ Read(q) <= ideal[k] + taken[q] * Window
            /\ taken[q] \in 0..(Top + 1) /\ ideal[k] \in Int
        BY <1>0, <3>1, <3>3 DEF IInv, HitAt, TypeOK
      <4>2. Read(q) \in Nat
        <5>1. draft[q] \in [tokens : 0..Cap, ok : BOOLEAN]
          BY <1>0 DEF TypeOK
        <5> QED BY <5>1, Constants DEF Read, Price
      <4>3. taken'[q] = IF draft[r].ok THEN Least(taken[q] + 1, Top + 1) ELSE taken[q]
        BY <1>1, <2>3
      <4>4. Price(r) = IF draft[r].ok THEN Window ELSE 0
        BY DEF Price
      <4>5. CASE draft[r].ok
        BY <1>2, <4>1, <4>2, <4>3, <4>4, <4>5, Crossing
      <4>6. CASE ~draft[r].ok
        <5>1. ideal[k] <= Charged(r)
          BY <1>2, <4>1, <4>4, <4>6
        <5> QED BY <1>2, <4>1, <4>2, <4>3, <4>6, <5>1, Crossing
      <4> QED BY <4>5, <4>6
    <3>4. Read(q)' = Read(q) /\ ideal'[on'[q]] = Charged(r)
      BY <1>3, <2>1, <3>1 DEF Read, Price
    <3>5. HitAt(q)'
      BY <2>1, <3>1, <3>3, <3>4 DEF HitAt, Cap
    <3> QED BY <3>2, <3>5
  <2> QED BY <2>2, <2>3
<1> QED BY <1>7, <1>8, <1>9, <1>10 DEF IInv

(* A hit that fails, or whose SET is answered. *)
LEMMA HitKeeps ==
    ASSUME IInv, NEW r \in Request, GetFails(r) \/ Set(r) \/ SetFails(r)
    PROVE  IInv'
<1>1. TypeOK /\ Hitting(r) /\ limit[r] \in 1..Top /\ draft[r] \in [tokens : 0..Cap, ok : BOOLEAN]
  BY DEF IInv, ServedAt, TypeOK, Hitting, GetFails, Set, SetFails
<1>2. FailOpen(r) \in Replies /\ Reply(draft[r], limit[r]) \in Replies
  <2>1. FailOpen(r) \in Replies
    BY <1>1, Constants DEF FailOpen, Replies
  <2> QED BY <1>1, <2>1, ReplyTyped
<1>3. CASE GetFails(r)
  BY <1>1, <1>2, <1>3, LeaveKeeps DEF GetFails
<1>4. CASE Set(r)
  BY <1>2, <1>4, WriteKeeps DEF Set
<1>5. CASE SetFails(r)
  BY <1>1, <1>2, <1>5, LeaveKeeps, WriteKeeps DEF SetFails
<1> QED BY <1>3, <1>4, <1>5

(* A tick refills the reference bucket by at least as much as the stored   *)
(* one can gain by it; a bucket that expires was full by then, and already *)
(* so when a request that holds its time took it.                          *)
LEMMA Aging ==
    ASSUME NEW b \in [tokens : 0..Cap, age : 0..(BucketTTL + MaxHold), ttl : 1..BucketTTL],
           b.age + b.ttl \in BucketTTL..(BucketTTL + MaxHold), b # NoValue
    PROVE  /\ Aged(b) \in {NoValue} \cup
                  [tokens : 0..Cap, age : 0..(BucketTTL + MaxHold), ttl : 1..BucketTTL]
           /\ Aged(b) # NoValue => /\ Aged(b).age = b.age + 1
                                   /\ Aged(b).age + Aged(b).ttl = b.age + b.ttl
           /\ \A s \in 0..MaxHold : s < MaxHold /\ s <= b.age => Avail(Aged(b), s + 1) = Avail(b, s)
           /\ Avail(Aged(b), 0) <= Least(Cap, Avail(b, 0) + Top)
           /\ Avail(b, 0) \in Int
<1>0. /\ b.tokens \in Nat /\ b.tokens <= Cap /\ b.age \in Nat /\ b.ttl \in Nat /\ 1 <= b.ttl
      /\ b.ttl <= BucketTTL /\ BucketTTL <= b.age + b.ttl /\ b.age + b.ttl <= BucketTTL + MaxHold
  BY Constants
<1>1. b.age * Top \in Nat /\ (b.age + 1) * Top = b.age * Top + Top
  BY <1>0, Constants, Products
<1>2. Avail(b, 0) = Least(Cap, b.tokens + b.age * Top)
  BY <1>0 DEF Avail
<1>3. CASE b.ttl = 1
  <2>1. Aged(b) = NoValue
    BY <1>3 DEF Aged
  <2>2. Window <= b.age + 1
    BY <1>0, <1>3, Constants
  <2>3. Cap <= b.age * Top + Top
    <3>1. Window * Top <= (b.age + 1) * Top
      BY <1>0, <2>2, Constants, Products
    <3>2. Window * Top = Cap
      BY Constants DEF Cap
    <3> QED BY <1>1, <3>1, <3>2
  <2>4. ASSUME NEW s \in 0..MaxHold, s < MaxHold, s <= b.age
        PROVE  Avail(b, s) = Cap
    <3>1. b.age - s \in Nat /\ Window <= b.age - s
      BY <1>0, <1>3, <2>4, Constants
    <3>2. Window * Top <= (b.age - s) * Top /\ (b.age - s) * Top \in Nat
      BY <3>1, Constants, Products
    <3>3. Window * Top = Cap
      BY Constants DEF Cap
    <3>4. Avail(b, s) = Least(Cap, b.tokens + (b.age - s) * Top)
      BY DEF Avail
    <3> QED BY <1>0, <3>2, <3>3, <3>4, Constants DEF Least
  <2>5. Avail(b, 0) \in Int /\ Cap <= Least(Cap, Avail(b, 0) + Top)
    BY <1>0, <1>1, <1>2, <2>3, Constants DEF Least
  <2> QED BY <2>1, <2>4, <2>5, Constants DEF Avail
<1>4. CASE b.ttl # 1
  <2>1. Aged(b) = [tokens |-> b.tokens, age |-> b.age + 1, ttl |-> b.ttl - 1]
    BY <1>4 DEF Aged
  <2>2. Aged(b) # NoValue
    BY <1>0, <2>1, NotAbsent
  <2>3. /\ b.age + 1 \in 0..(BucketTTL + MaxHold) /\ b.ttl - 1 \in 1..BucketTTL
        /\ (b.age + 1) + (b.ttl - 1) = b.age + b.ttl
    BY <1>0, <1>4, Constants
  <2>4. \A s \in 0..MaxHold : Avail(Aged(b), s + 1) = Avail(b, s)
    <3>1. \A s \in 0..MaxHold : (b.age + 1) - (s + 1) = b.age - s
      BY <1>0, Constants
    <3> QED BY <2>1, <2>2, <3>1 DEF Avail
  <2>5. Avail(Aged(b), 0) = Least(Cap, b.tokens + (b.age * Top + Top))
    <3>1. (b.age + 1) - 0 = b.age + 1
      BY <1>0
    <3> QED BY <1>1, <2>1, <2>2, <3>1 DEF Avail
  <2>6. Avail(b, 0) \in Int /\ Avail(Aged(b), 0) <= Least(Cap, Avail(b, 0) + Top)
    BY <1>0, <1>1, <1>2, <2>5, Constants DEF Least
  <2> QED BY <2>1, <2>2, <2>3, <2>4, <2>6
<1> QED BY <1>3, <1>4

(* The reference bucket after a tick. *)
LEMMA Refilling ==
    ASSUME NEW i \in Int, i <= Cap
    PROVE  /\ Least(Cap, i + Top) \in Int /\ Least(Cap, i + Top) <= Cap
           /\ i <= Least(Cap, i + Top) /\ Least(Cap, i + Top) <= i + Top
           /\ \A a \in Int : a <= i => Least(Cap, a + Top) <= Least(Cap, i + Top)
BY Constants DEF Least

(* A tick keeps every bucket backed. *)
LEMMA TickBuckets ==
    ASSUME IInv, Tick, NEW k \in Subject
    PROVE  /\ bucket'[k] \in {NoValue} \cup
                  [tokens : 0..Cap, age : 0..(BucketTTL + MaxHold), ttl : 1..BucketTTL]
           /\ ideal'[k] \in Int /\ Lifetime(k)' /\ Backed(k)'
<1>1. bucket'[k] = Aged(bucket[k]) /\ ideal'[k] = Least(Cap, ideal[k] + Top)
  BY DEF Tick
<1>2. /\ ideal[k] \in Int /\ ideal[k] <= Cap /\ Avail(bucket[k], 0) <= ideal[k]
      /\ Lifetime(k)
  BY Stored DEF IInv, Backed
<1>3. /\ ideal'[k] \in Int /\ ideal'[k] <= Cap
      /\ \A a \in Int : a <= ideal[k] => Least(Cap, a + Top) <= ideal'[k]
  BY <1>1, <1>2, Refilling
<1>4. CASE bucket[k] = NoValue
  <2>1. Aged(bucket[k]) = NoValue
    BY <1>4 DEF Aged
  <2>2. Cap <= ideal'[k]
    <3>1. Least(Cap, Cap + Top) = Cap /\ Cap \in Int
      BY Constants DEF Least
    <3>2. Cap <= ideal[k]
      BY <1>2, <1>4 DEF Avail
    <3> QED BY <1>3, <3>1, <3>2
  <2> QED BY <1>1, <1>3, <2>1, <2>2 DEF Lifetime, Backed, Avail
<1>5. CASE bucket[k] # NoValue
  <2> DEFINE b == bucket[k]
  <2>1. /\ b \in [tokens : 0..Cap, age : 0..(BucketTTL + MaxHold), ttl : 1..BucketTTL]
        /\ b.age + b.ttl \in BucketTTL..(BucketTTL + MaxHold) /\ b # NoValue
    BY <1>2, <1>5 DEF IInv, TypeOK, Lifetime
  <2> HIDE DEF b
  <2>2. /\ Aged(b) \in {NoValue} \cup
                  [tokens : 0..Cap, age : 0..(BucketTTL + MaxHold), ttl : 1..BucketTTL]
        /\ Aged(b) # NoValue => Aged(b).age + Aged(b).ttl = b.age + b.ttl
        /\ Avail(Aged(b), 0) <= Least(Cap, Avail(b, 0) + Top)
        /\ Avail(b, 0) \in Int
    BY <2>1, Aging
  <2>3. Avail(Aged(b), 0) \in Int
    BY <2>2, Constants DEF Avail, Least
  <2>4. Avail(Aged(b), 0) <= ideal'[k]
    <3>1. Least(Cap, Avail(b, 0) + Top) <= ideal'[k] /\ Least(Cap, Avail(b, 0) + Top) \in Int
      BY <1>2, <1>3, <2>2, Constants DEF b, Least
    <3>2. \A u, v, w \in Int : u <= v /\ v <= w => u <= w
      OBVIOUS
    <3> QED BY <1>3, <2>2, <2>3, <3>1, <3>2
  <2> QED BY <1>1, <1>3, <2>1, <2>2, <2>4 DEF b, Lifetime, Backed, Avail
<1> QED BY <1>4, <1>5

(* A tick keeps what is said of every request. *)
LEMMA TickRequests ==
    ASSUME IInv, Tick, NEW r \in Request
    PROVE  stale'[r] \in 0..MaxHold /\ ServedAt(r)' /\ HitAt(r)'
<1> DEFINE k == on[r]
<1>0. /\ TypeOK /\ UNCHANGED <<at, who, on, limit, draft, asof, crossed, taken>>
      /\ stale'[r] = IF Hitting(r) THEN stale[r] + 1 ELSE stale[r]
      /\ Hitting(r) => stale[r] < MaxHold
      /\ stale[r] \in Nat /\ stale[r] <= MaxHold
  BY Constants DEF IInv, Tick, TypeOK
<1>1. stale'[r] \in 0..MaxHold
  <2>1. \A n \in Nat : n < MaxHold => n + 1 \in 0..MaxHold
    BY Constants
  <2> QED BY <1>0, <2>1, Constants
<1>2. ServedAt(r)'
  BY <1>0 DEF IInv, ServedAt, Hitting
<1>3. CASE ~Hitting(r)
  BY <1>0, <1>1, <1>2, <1>3 DEF HitAt, Hitting
<1>4. CASE Hitting(r)
  <2>1. /\ k \in Subject /\ ideal'[k] = Least(Cap, ideal[k] + Top)
        /\ bucket'[k] = Aged(bucket[k]) /\ ideal[k] \in Int /\ ideal[k] <= Cap
    BY <1>4, Stored DEF IInv, ServedAt, Tick, Backed
  <2>2. ideal'[k] \in Int /\ ideal'[k] <= Cap /\ ideal[k] <= ideal'[k] /\ ideal'[k] <= ideal[k] + Top
    BY <2>1, Refilling
  <2>3. Read(r)' = Read(r) /\ Read(r) \in Int
    <3>1. draft[r] \in [tokens : 0..Cap, ok : BOOLEAN]
      BY <1>0 DEF TypeOK
    <3> QED BY <1>0, <3>1, Constants DEF Read, Price
  <2>4. at[r] = "set" => Read(r) <= Cap /\ Read(r) <= ideal'[k] + taken[r] * Window
    <3> SUFFICES ASSUME at[r] = "set"
                 PROVE  Read(r) <= Cap /\ Read(r) <= ideal'[k] + taken[r] * Window
      OBVIOUS
    <3>1. Read(r) <= Cap /\ Read(r) <= ideal[k] + taken[r] * Window
      BY DEF IInv, HitAt
    <3>2. taken[r] * Window \in Nat
      BY <1>0, Constants, Products DEF TypeOK
    <3>3. \A x, i, j \in Int, n \in Nat : x <= i + n /\ i <= j => x <= j + n
      OBVIOUS
    <3> QED BY <2>1, <2>2, <2>3, <3>1, <3>2, <3>3
  <2>5. ASSUME r \notin crossed PROVE Undisturbed(r)'
    <3>1. Undisturbed(r) /\ asof[r] \in Int
      BY <1>0, <1>4, <2>5 DEF IInv, HitAt, TypeOK
    <3>2. asof[r] <= ideal'[k]
      <4>1. \A x, i, j \in Int : x <= i /\ i <= j => x <= j
        OBVIOUS
      <4> QED BY <2>1, <2>2, <3>1, <4>1 DEF Undisturbed
    <3>3. ideal'[k] <= asof[r] + stale'[r] * Top
      <4>1. stale'[r] * Top = stale[r] * Top + Top /\ stale[r] * Top \in Nat
        BY <1>0, <1>4, Constants, Products
      <4>2. \A x, i, j \in Int, n \in Nat : i <= x + n /\ j <= i + Top => j <= x + (n + Top)
        BY Constants
      <4> QED BY <2>1, <2>2, <3>1, <4>1, <4>2 DEF Undisturbed
    <3>4. ASSUME at[r] = "get"
          PROVE  /\ bucket'[k] # NoValue => stale'[r] <= bucket'[k].age
                 /\ Avail(bucket'[k], stale'[r]) <= asof[r]
      <4>1. CASE bucket[k] = NoValue
        <5>1. bucket'[k] = NoValue
          BY <2>1, <4>1 DEF Aged
        <5> QED BY <3>1, <3>4, <4>1, <5>1 DEF Undisturbed, Avail
      <4>2. CASE bucket[k] # NoValue
        <5> DEFINE b == bucket[k]
        <5>1. /\ b \in [tokens : 0..Cap, age : 0..(BucketTTL + MaxHold), ttl : 1..BucketTTL]
              /\ b.age + b.ttl \in BucketTTL..(BucketTTL + MaxHold) /\ b # NoValue
          BY <1>0, <2>1, <4>2 DEF IInv, TypeOK, Lifetime
        <5>2. stale[r] <= b.age /\ Avail(b, stale[r]) <= asof[r]
          BY <3>1, <3>4, <4>2 DEF Undisturbed
        <5> HIDE DEF b
        <5>3. stale[r] \in 0..MaxHold /\ stale[r] < MaxHold
          BY <1>0, <1>4, Constants
        <5>4. /\ Aged(b) # NoValue => Aged(b).age = b.age + 1
              /\ Avail(Aged(b), stale[r] + 1) = Avail(b, stale[r])
          BY <5>1, <5>2, <5>3, Aging
        <5>5. stale[r] + 1 <= b.age + 1
          BY <1>0, <5>1, <5>2, Constants
        <5>6. bucket'[k] = Aged(b) /\ stale'[r] = stale[r] + 1
          BY <1>0, <1>4, <2>1 DEF b
        <5> QED BY <5>2, <5>4, <5>5, <5>6
      <4> QED BY <4>1, <4>2
    <3>5. at[r] = "set" => Read(r) <= asof[r]
      BY <3>1 DEF Undisturbed
    <3> QED BY <1>0, <2>3, <3>2, <3>3, <3>4, <3>5 DEF Undisturbed, Avail
  <2>6. HitAt(r)'
    <3>1. at'[r] = at[r] /\ on'[r] = k /\ crossed' = crossed /\ taken'[r] = taken[r]
      BY <1>0
    <3> QED BY <2>3, <2>4, <2>5, <3>1 DEF HitAt, Cap
  <2> QED BY <1>1, <1>2, <2>6
<1> QED BY <1>1, <1>2, <1>3, <1>4

(* A tick of every clock keeps the invariant. *)
LEMMA TickKeeps ==
    ASSUME IInv, Tick
    PROVE  IInv'
<1>1. \A c \in Caller : wait'[c] \in 0..Window
  <2>1. \A n \in 0..Window : (IF n > 0 THEN n - 1 ELSE 0) \in 0..Window
    BY Constants
  <2> QED BY <2>1 DEF IInv, TypeOK, Tick
<1>2. TypeOK'
  BY <1>1, TickBuckets, TickRequests DEF IInv, TypeOK, Tick
<1> QED BY <1>2, TickBuckets, TickRequests DEF IInv

(* The inductive invariant holds under every interleaving of the checks,   *)
(* every publication of a plan, outage and tick.                           *)
THEOREM Invariance == Spec => []IInv
<1>1. Init => IInv
  <2> SUFFICES ASSUME Init PROVE IInv
    OBVIOUS
  <2>1. TypeOK
    <3>1. /\ NoDraft \in [tokens : 0..Cap, ok : BOOLEAN]
          /\ NoReply \in [ok : BOOLEAN, left : 0..Top, reset : 0..Window]
      BY Constants DEF NoDraft, NoReply
    <3>2. /\ 0 \in 0..Top /\ 0 \in 0..MaxHold /\ 0 \in 0..Window /\ 0 \in 0..(Top + 1)
          /\ Cap \in Int /\ 0 \in Int
      BY Constants
    <3> QED BY <3>1, <3>2 DEF Init, TypeOK
  <2>2. ASSUME NEW r \in Request PROVE ServedAt(r) /\ HitAt(r)
    BY DEF Init, ServedAt, HitAt, Hitting
  <2>3. ASSUME NEW k \in Subject PROVE Lifetime(k) /\ Backed(k)
    BY Constants DEF Init, Lifetime, Backed, Avail
  <2> QED BY <2>1, <2>2, <2>3 DEF IInv
<1>2. IInv /\ [Next]_vars => IInv'
  <2> SUFFICES ASSUME IInv, [Next]_vars PROVE IInv'
    OBVIOUS
  <2>1. CASE \E r \in Request : Step(r) \/ Fails(r)
    BY <2>1, PlanKeeps, GetKeeps, HitKeeps DEF Step, Fails
  <2>2. CASE \E r \in Request, c \in Caller : Arrive(r, c)
    BY <2>2, PlanKeeps
  <2>3. CASE (\E n \in Plans \cup {NoValue} : Publish(n)) \/ Outage \/ UNCHANGED vars
    <3>1. UNCHANGED <<bucket, ideal, crossed, taken, at, who, on, limit, stale, draft, first, asof,
                      wait, refused>>
      BY <2>3 DEF Publish, Outage, vars, bucketVars, callVars, callerVars
    <3>2. plan' \in Plans \cup {NoValue} /\ failing' \in BOOLEAN
      BY <2>3 DEF Publish, Outage, vars, IInv, TypeOK
    <3>3. TypeOK'
      BY <3>1, <3>2 DEF IInv, TypeOK
    <3>4. \A k \in Subject : Lifetime(k)' /\ Backed(k)'
      BY <3>1, BucketsKept DEF IInv
    <3>5. \A r \in Request : ServedAt(r)' /\ HitAt(r)'
      BY <3>1, Untouched DEF IInv
    <3> QED BY <3>3, <3>4, <3>5 DEF IInv
  <2>4. CASE Tick
    BY <2>4, TickKeeps
  <2> QED BY <2>1, <2>2, <2>3, <2>4 DEF Next
<1> QED BY <1>1, <1>2, PTL DEF Spec

(* Buckets, limits and the points of hit_rate_limit are well typed: no     *)
(* bucket holds more than a full allowance, no Retry-After exceeds the     *)
(* window, whatever overlaps.                                              *)
THEOREM TypeCorrect == Spec => []TypeOK
<1>1. IInv => TypeOK
  BY DEF IInv
<1> QED BY <1>1, Invariance, PTL

(* A bucket that starts full, refills at the largest limit and is charged  *)
(* for every token hit_rate_limit grants is never overdrawn: any interval  *)
(* grants at most one allowance and its refill, and what overlapping SETs  *)
(* give back.                                                              *)
THEOREM BudgetKept == Spec => []WithinBudget
<1>1. IInv => WithinBudget
  <2> SUFFICES ASSUME IInv, NEW k \in Subject PROVE ideal[k] >= 0
    BY DEF WithinBudget
  <2>1. Avail(bucket[k], 0) <= ideal[k] /\ ideal[k] \in Int
    BY Stored DEF IInv, Backed
  <2>2. Avail(bucket[k], 0) \in Nat
    <3>1. CASE bucket[k] = NoValue
      BY <3>1, Constants DEF Avail
    <3>2. CASE bucket[k] # NoValue
      <4>1. bucket[k].tokens \in Nat /\ bucket[k].age \in Nat
        BY <3>2, Stored, Constants DEF IInv
      <4>2. (bucket[k].age - 0) * Top \in Nat
        BY <4>1, Constants, Products
      <4> QED BY <3>2, <4>1, <4>2, Constants DEF Avail, Least
    <3> QED BY <3>1, <3>2
  <2> QED BY <2>1, <2>2
<1> QED BY <1>1, Invariance, PTL
=============================================================================
