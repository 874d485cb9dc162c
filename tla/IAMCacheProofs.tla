--------------------------- MODULE IAMCacheProofs ---------------------------
(* Proofs about IAMCache for every set of requests, every cache lifetime,  *)
(* margin and timeout with MaxWait < Margin, and any number of faults: its *)
(* types, the bound on how stale an accepted credential may be, that an    *)
(* eviction on revocation sticks, and that a cached API key's token is     *)
(* alive.                                                                  *)
EXTENDS IAMCache, TLAPS

(* The types, with those of the two fields that only the proofs need. *)
Typed ==
    /\ TypeOK
    /\ answer \in [Request -> Nat]
    /\ lag \in [Request -> 0..(MaxLag + 1)]

(* Every positive answer is younger than its own wait, so whatever is put  *)
(* in the cache leaves it within MaxLag of the end of the credential.      *)
Fresh ==
    /\ good => since = 0
    /\ \A r \in Request : step[r] = "set" => since <= wait[r]
    /\ entry.owner = "gateway" => since + entry.ttl <= MaxLag

(* A message is only ever in the inbox of a credential that was revoked,   *)
(* and one that was handled with nothing on its way ends the matter.       *)
Heard ==
    /\ inbox # {} => ~good
    /\ heard = "clear" => ~good

IInv == Typed /\ Fresh /\ StalenessBounded

----------------------------------------------------------------------------
(* Types *)

(* The lifetime given to an entry that is written fits the cache's bound,  *)
(* and for an API key leaves the margin before the token's own end.        *)
LEMMA EntryTTLBounded ==
    ASSUME NEW n \in Nat, EntryTTL(n) > 0
    PROVE  /\ EntryTTL(n) \in 1..CacheTTL
           /\ kind # "jwt" => EntryTTL(n) + Margin <= n
BY TimeAssumption DEF EntryTTL, Min

(* What a positive answer leaves in the cache is the entry that was there, *)
(* or one of the gateway's with a lifetime of 1..CacheTTL.                 *)
LEMMA CachedTyped ==
    ASSUME Typed, NEW r \in Request
    PROVE  /\ Cached(r) \in [owner : {"none", "gateway", "other"}, ttl : 0..CacheTTL, life : Nat]
           /\ \/ Cached(r) = entry
              \/ /\ EntryTTL(answer[r]) > 0
                 /\ Cached(r) = [owner |-> "gateway", ttl |-> EntryTTL(answer[r]),
                                 life |-> Less(answer[r], wait[r])]
<1>1. answer[r] \in Nat /\ wait[r] \in 0..MaxWait
  BY DEF Typed, TypeOK
<1>2. Less(answer[r], wait[r]) \in Nat
  BY <1>1, TimeAssumption DEF Less
<1>3. CASE EntryTTL(answer[r]) > 0
  <2>1. EntryTTL(answer[r]) \in 1..CacheTTL
    BY <1>1, <1>3, EntryTTLBounded
  <2> QED BY <1>2, <1>3, <2>1, TimeAssumption DEF Cached
<1>4. CASE ~(EntryTTL(answer[r]) > 0)
  BY <1>4 DEF Cached, Typed, TypeOK
<1> QED BY <1>3, <1>4

(* The bounds that the types mention are natural numbers. *)
LEMMA Bounds ==
    /\ CacheTTL \in Nat \ {0} /\ Margin \in Nat /\ MaxWait \in Nat /\ MaxFaults \in Nat
    /\ MaxLag \in Nat /\ MaxLag = CacheTTL + MaxWait
    /\ NoEntry \in [owner : {"none", "gateway", "other"}, ttl : 0..CacheTTL, life : Nat]
BY TimeAssumption, FaultAssumption DEF MaxLag, NoEntry

(* Every step of a request keeps the types. *)
LEMMA RequestTyped ==
    ASSUME Typed, NEW r \in Request, Validate(r) \/ ValidateFails(r) \/ Again(r)
    PROVE  Typed'
<1> USE Bounds
<1>1. CASE GetHit(r)
  BY <1>1 DEF Typed, TypeOK, GetHit, LetIn, Goto, External, history, Step, Final
<1>2. CASE GetMiss(r)
  BY <1>2 DEF Typed, TypeOK, GetMiss, AfterMiss, Goto, External, history, Step
<1>3. CASE GetFails(r)
  BY <1>3 DEF Typed, TypeOK, GetFails, AfterMiss, Fault, Goto, External, history, Step
<1>4. CASE Evict(r)
  BY <1>4 DEF Typed, TypeOK, Evict, AfterEvict, AfterMiss, Goto, External, history, Step, Final
<1>5. CASE EvictFails(r)
  BY <1>5 DEF Typed, TypeOK, EvictFails, AfterEvict, AfterMiss, Fault, Goto, External,
              history, Step, Final
<1>6. CASE Decode(r)
  BY <1>6 DEF Typed, TypeOK, Decode, Goto, External, history, Step, Final
<1>7. CASE PostAnswered(r)
  <2>1. Minted \subseteq Nat
    BY TimeAssumption DEF Minted
  <2> QED BY <1>7, <2>1 DEF Typed, TypeOK, PostAnswered, Goto, External, history, Step
<1>8. CASE PostTimesOut(r)
  BY <1>8 DEF Typed, TypeOK, PostTimesOut, Goto, External, history, Step, Final
<1>9. CASE PostFails(r)
  BY <1>9 DEF Typed, TypeOK, PostFails, Goto, External, history, Step, Final
<1>10. CASE Set(r)
  BY <1>10, CachedTyped DEF Typed, TypeOK, Set, LetIn, Goto, External, history, Step, Final
<1>11. CASE SetFails(r)
  BY <1>11, CachedTyped DEF Typed, TypeOK, SetFails, Fault, LetIn, Goto, External, history,
                            Step, Final
<1>12. CASE Again(r)
  BY <1>12 DEF Typed, TypeOK, Again, Goto, External, history, Step, Final
<1> QED BY <1>1, <1>2, <1>3, <1>4, <1>5, <1>6, <1>7, <1>8, <1>9, <1>10, <1>11, <1>12
        DEF Validate, ValidateFails

(* Every step of the listener, the auth service, another writer and time   *)
(* keeps the types.                                                        *)
LEMMA OtherTyped ==
    ASSUME Typed,
           \/ \E m \in Message : OnInvalidate(m) \/ OnInvalidateFails(m) \/ Revoke(m)
           \/ Subscribe \/ ListenerFails \/ Expire \/ ForeignWrite \/ Tick
    PROVE  Typed'
<1> USE Bounds
<1>1. ASSUME NEW m \in Message, OnInvalidate(m) PROVE Typed'
  <2>1. heard' \in {"no", "clear", "raced"}
    BY <1>1 DEF Typed, TypeOK, OnInvalidate, HeardAs
  <2> QED BY <1>1, <2>1 DEF Typed, TypeOK, OnInvalidate, requests
<1>2. ASSUME NEW m \in Message, OnInvalidateFails(m) PROVE Typed'
  BY <1>2 DEF Typed, TypeOK, OnInvalidateFails, Fault, requests, history
<1>3. ASSUME NEW m \in Message, Revoke(m) PROVE Typed'
  BY <1>3 DEF Typed, TypeOK, Revoke, requests, history
<1>4. CASE Subscribe
  BY <1>4 DEF Typed, TypeOK, Subscribe, requests, history
<1>5. CASE ListenerFails
  BY <1>5 DEF Typed, TypeOK, ListenerFails, Fault, requests, history
<1>6. CASE Expire
  BY <1>6 DEF Typed, TypeOK, Expire, requests, history
<1>7. CASE ForeignWrite
  BY <1>7 DEF Typed, TypeOK, ForeignWrite, Fault, requests, history
<1>8. CASE Tick
  <2>1. wait' \in [Request -> 0..MaxWait]
    BY <1>8 DEF Typed, TypeOK, Tick, Filling
  <2>2. entry' \in [owner : {"none", "gateway", "other"}, ttl : 0..CacheTTL, life : Nat]
    BY <1>8 DEF Typed, TypeOK, Tick, Aged, Less
  <2>3. since' \in 0..(MaxLag + 1)
    BY <1>8 DEF Typed, TypeOK, Tick, Capped
  <2> QED BY <1>8, <2>1, <2>2, <2>3 DEF Typed, TypeOK, Tick
<1> QED BY <1>1, <1>2, <1>3, <1>4, <1>5, <1>6, <1>7, <1>8

----------------------------------------------------------------------------
(* Staleness *)

(* An entry of the gateway's that is in the cache, or a positive answer on *)
(* its way there, is never older than MaxLag: whoever is let in with it is *)
(* let in within the bound.                                                *)
LEMMA LetInFresh ==
    ASSUME IInv, NEW r \in Request, LetIn(r),
           \/ entry.owner = "gateway"
           \/ step[r] = "set"
    PROVE  StalenessBounded'
<1>1. since <= MaxLag
  BY Bounds DEF IInv, Typed, TypeOK, Fresh
<1> QED BY <1>1 DEF IInv, Typed, TypeOK, StalenessBounded, LetIn, Goto

(* A request's step keeps IInv. The cache is filled only from an answer    *)
(* that was positive at most wait[r] ago.                                  *)
LEMMA RequestFresh ==
    ASSUME IInv, NEW r \in Request, Validate(r) \/ ValidateFails(r) \/ Again(r)
    PROVE  IInv'
<1> USE Bounds
<1>0. Typed' /\ Typed
  BY RequestTyped DEF IInv
<1>1. CASE GetHit(r)
  <2>1. Fresh'
    BY <1>0, <1>1 DEF IInv, Typed, TypeOK, Fresh, GetHit, LetIn, Goto, External, history
  <2>2. StalenessBounded'
    BY <1>1, LetInFresh DEF GetHit, Trusted
  <2> QED BY <1>0, <2>1, <2>2 DEF IInv
<1>2. ASSUME Set(r) \/ SetFails(r)
      PROVE  IInv'
  <2>1. StalenessBounded'
    BY <1>2, LetInFresh DEF Set, SetFails
  <2>2. good => since = 0
    BY DEF IInv, Fresh
  <2>3. since <= wait[r] /\ wait[r] \in 0..MaxWait /\ since \in Nat
    BY <1>0, <1>2 DEF IInv, Fresh, Set, SetFails, Typed, TypeOK
  <2>4. entry' \in {entry, Cached(r)}
    BY <1>2 DEF Set, SetFails
  <2>5. entry'.owner = "gateway" => since + entry'.ttl <= MaxLag
    <3>1. CASE entry' = entry
      BY <3>1 DEF IInv, Fresh
    <3>2. CASE entry' = [owner |-> "gateway", ttl |-> EntryTTL(answer[r]),
                         life |-> Less(answer[r], wait[r])]
               /\ EntryTTL(answer[r]) > 0
      <4>1. EntryTTL(answer[r]) \in 1..CacheTTL
        BY <1>0, <3>2, EntryTTLBounded DEF Typed
      <4> QED BY <2>3, <3>2, <4>1
    <3> QED BY <1>0, <2>4, <3>1, <3>2, CachedTyped
  <2>6. Fresh'
    BY <1>0, <1>2, <2>5 DEF IInv, Typed, TypeOK, Fresh, Set, SetFails, LetIn, Goto,
                            External, history
  <2> QED BY <1>0, <2>1, <2>6 DEF IInv
<1>3. CASE PostAnswered(r)
  <2>1. Fresh'
    BY <1>0, <1>3 DEF IInv, Typed, TypeOK, Fresh, PostAnswered, Goto, External, history
  <2>2. StalenessBounded'
    BY <1>0, <1>3 DEF IInv, Typed, TypeOK, StalenessBounded, PostAnswered, Goto
  <2> QED BY <1>0, <2>1, <2>2 DEF IInv
<1>4. ASSUME \/ GetMiss(r) \/ GetFails(r) \/ Evict(r) \/ EvictFails(r) \/ Decode(r)
             \/ PostTimesOut(r) \/ PostFails(r) \/ Again(r)
      PROVE  IInv'
  <2>1. /\ UNCHANGED <<good, since>>
        /\ entry' \in {entry, NoEntry}
        /\ \A q \in Request : q # r => step'[q] = step[q] /\ wait'[q] = wait[q]
                                       /\ lag'[q] = lag[q]
        /\ step'[r] \notin {"set", "accepted"}
    BY <1>0, <1>4 DEF Typed, TypeOK, GetMiss, GetFails, Evict, EvictFails, Decode, PostTimesOut,
                 PostFails, Again, AfterEvict, AfterMiss, Goto, External, history, Final
  <2>2. Fresh'
    BY <2>1 DEF IInv, Fresh, NoEntry
  <2>3. StalenessBounded'
    BY <2>1 DEF IInv, StalenessBounded
  <2> QED BY <1>0, <2>2, <2>3 DEF IInv
<1> QED BY <1>1, <1>2, <1>3, <1>4 DEF Validate, ValidateFails

(* A tick ages the answers on their way and the entry as fast as it ages   *)
(* the end of the credential.                                              *)
LEMMA TickFresh ==
    ASSUME IInv, Tick
    PROVE  Fresh'
<1> USE Bounds
<1>1. since \in 0..(MaxLag + 1) /\ since' \in Nat /\ since' <= since + 1 /\ (good' => since' = 0)
  BY DEF IInv, Typed, TypeOK, Tick, Capped
<1>2. ASSUME NEW r \in Request, step'[r] = "set" PROVE since' <= wait'[r]
  <2>1. wait'[r] = wait[r] + 1 /\ since <= wait[r] /\ wait[r] \in 0..MaxWait
    BY <1>2 DEF IInv, Typed, TypeOK, Fresh, Tick, Filling
  <2> QED BY <1>1, <2>1
<1>3. ASSUME entry'.owner = "gateway" PROVE since' + entry'.ttl <= MaxLag
  <2>1. /\ entry.ttl > 1 /\ entry.owner = "gateway"
        /\ entry'.ttl = entry.ttl - 1 /\ entry.ttl \in 0..CacheTTL
    BY <1>3 DEF IInv, Typed, TypeOK, Tick, Aged, NoEntry
  <2>2. since + entry.ttl <= MaxLag
    BY <2>1 DEF IInv, Fresh
  <2> QED BY <1>1, <2>1, <2>2
<1> QED BY <1>1, <1>2, <1>3 DEF Fresh

(* IInv holds in every reachable state. *)
LEMMA Invariance == Spec => []IInv
<1> USE Bounds
<1>1. Init => IInv
  <2> SUFFICES ASSUME Init PROVE IInv
    OBVIOUS
  <2>1. Typed
    BY DEF Init, Typed, TypeOK, Step
  <2> QED BY <2>1 DEF Init, IInv, Fresh, StalenessBounded, NoEntry
<1>2. IInv /\ [Next]_vars => IInv'
  <2> SUFFICES ASSUME IInv, [Next]_vars PROVE IInv'
    OBVIOUS
  <2>1. ASSUME NEW r \in Request, Validate(r) \/ ValidateFails(r) \/ Again(r)
        PROVE  IInv'
    BY <2>1, RequestFresh
  <2>2. CASE Tick
    <3>1. StalenessBounded'
      BY <2>2 DEF IInv, StalenessBounded, Tick
    <3>2. Typed'
      BY <2>2, OtherTyped DEF IInv
    <3> QED BY <2>2, <3>1, <3>2, TickFresh DEF IInv
  <2>3. ASSUME \/ \E m \in Message : OnInvalidate(m) \/ OnInvalidateFails(m) \/ Revoke(m)
               \/ Subscribe \/ ListenerFails \/ Expire \/ ForeignWrite
        PROVE  IInv'
    <3>1. Typed'
      BY <2>3, OtherTyped DEF IInv
    <3>2. UNCHANGED <<step, wait, lag, since>> /\ (good' => good)
      BY <2>3 DEF OnInvalidate, OnInvalidateFails, Revoke, Subscribe, ListenerFails, Expire,
                  ForeignWrite, requests, history
    <3>3. entry' = entry \/ entry'.owner # "gateway"
      BY <2>3 DEF OnInvalidate, OnInvalidateFails, Revoke, Subscribe, ListenerFails, Expire,
                  ForeignWrite, NoEntry
    <3>4. Fresh'
      BY <3>2, <3>3 DEF IInv, Fresh
    <3>5. StalenessBounded'
      BY <3>2 DEF IInv, StalenessBounded
    <3> QED BY <3>1, <3>4, <3>5 DEF IInv
  <2>4. CASE UNCHANGED vars
    BY <2>4 DEF IInv, Typed, TypeOK, Fresh, StalenessBounded, vars, history
  <2> QED BY <2>1, <2>2, <2>3, <2>4 DEF Next
<1> QED BY <1>1, <1>2, PTL DEF Spec

(* The variables of validate, its cache and its listener keep their types, *)
(* and no request asks the auth service more than twice.                   *)
THEOREM TypeCorrect == Spec => []TypeOK
<1>1. IInv => TypeOK
  BY DEF IInv, Typed
<1> QED BY <1>1, Invariance, PTL

(* Whatever messages, evictions and cache commands are lost, validate lets *)
(* a request in only with a credential that the auth service accepted at   *)
(* most CacheTTL + MaxWait ticks ago.                                      *)
THEOREM BoundedStaleness == Spec => []StalenessBounded
<1>1. IInv => StalenessBounded
  BY DEF IInv
<1> QED BY <1>1, Invariance, PTL

(* The safety half of RevocationTakesEffect: past that bound the           *)
(* credential is in no cache entry of the gateway's and in no positive     *)
(* answer on its way to one.                                               *)
GoneInTime == since > MaxLag => entry.owner # "gateway" /\ Filling = {}

(* Once the auth service has refused a credential for longer than MaxLag,  *)
(* nothing in the gateway still vouches for it, with every invalidation    *)
(* message lost.                                                           *)
THEOREM RevocationDeadline == Spec => []GoneInTime
<1>1. IInv => GoneInTime
  BY Bounds DEF IInv, Typed, TypeOK, Fresh, GoneInTime, Filling
<1> QED BY <1>1, Invariance, PTL

----------------------------------------------------------------------------
(* Eviction on revocation *)

(* An invalidation that OnInvalidate handles with no older positive answer *)
(* on its way is final: no later step of any request caches the credential *)
(* again.                                                                  *)
THEOREM RevocationFinal == Spec => []RevocationSticks
<1> DEFINE Inv == RevocationSticks /\ Heard
<1>1. Init => Inv
  BY DEF Init, RevocationSticks, Heard
<1>2. IInv /\ Inv /\ [Next]_vars => Inv'
  <2> SUFFICES ASSUME IInv, Inv, [Next]_vars PROVE Inv'
    OBVIOUS
  <2>0. Typed
    BY DEF IInv
  <2>1. ASSUME NEW r \in Request, PostAnswered(r)
        PROVE  Inv'
    BY <2>0, <2>1 DEF Typed, TypeOK, RevocationSticks, Heard, Filling, PostAnswered, Goto,
                      External, history
  <2>2. ASSUME NEW r \in Request, Set(r) \/ SetFails(r)
        PROVE  Inv'
    <3>1. heard # "clear" /\ UNCHANGED <<good, inbox, heard>>
      BY <2>2 DEF RevocationSticks, Filling, Set, SetFails, External, history
    <3> QED BY <3>1 DEF RevocationSticks, Heard
  <2>3. ASSUME NEW r \in Request,
               \/ GetHit(r) \/ GetMiss(r) \/ GetFails(r) \/ Evict(r) \/ EvictFails(r)
               \/ Decode(r) \/ PostTimesOut(r) \/ PostFails(r) \/ Again(r)
        PROVE  Inv'
    <3>1. UNCHANGED <<good, inbox, heard>> /\ entry' \in {entry, NoEntry}
      BY <2>3 DEF GetHit, GetMiss, GetFails, Evict, EvictFails, Decode, PostTimesOut, PostFails,
                  Again, External, history
    <3>2. Filling' \subseteq Filling
      BY <2>0, <2>3 DEF Typed, TypeOK, GetHit, LetIn, GetMiss, GetFails, Evict, EvictFails,
                        Decode, PostTimesOut, PostFails, Again, AfterEvict, AfterMiss, Goto,
                        Filling, Final
    <3> QED BY <3>1, <3>2 DEF RevocationSticks, Heard, NoEntry
  <2>4. ASSUME NEW m \in Message, OnInvalidate(m)
        PROVE  Inv'
    <3>1. ~good /\ UNCHANGED <<good, step>> /\ inbox' \subseteq inbox
      BY <2>4 DEF Heard, OnInvalidate, requests
    <3>2. CASE m # "credential"
      <4>1. heard' = heard
        BY <2>4, <3>2 DEF OnInvalidate, HeardAs
      <4> QED BY <2>4, <3>1, <3>2, <4>1 DEF RevocationSticks, Heard, Filling, OnInvalidate, Evicts
    <3>3. CASE m = "credential"
      <4>1. entry' = NoEntry
        BY <2>4, <3>3 DEF OnInvalidate, Evicts
      <4>2. heard' = "clear" => Filling = {}
        BY <2>4, <3>3 DEF OnInvalidate, HeardAs
      <4> QED BY <3>1, <4>1, <4>2 DEF RevocationSticks, Heard, Filling, NoEntry
    <3> QED BY <3>2, <3>3
  <2>5. ASSUME NEW m \in Message, OnInvalidateFails(m) \/ Revoke(m)
        PROVE  Inv'
    BY <2>5 DEF RevocationSticks, Heard, Filling, OnInvalidateFails, Revoke, requests, history
  <2>6. CASE Subscribe \/ ListenerFails \/ Expire
    BY <2>6 DEF RevocationSticks, Heard, Filling, Subscribe, ListenerFails, Expire, requests,
                history
  <2>7. CASE ForeignWrite
    BY <2>7 DEF RevocationSticks, Heard, Filling, ForeignWrite, requests, history
  <2>8. CASE Tick
    BY <2>8 DEF RevocationSticks, Heard, Filling, Tick, Aged, NoEntry
  <2>9. CASE UNCHANGED vars
    BY <2>9 DEF RevocationSticks, Heard, Filling, vars, history
  <2> QED BY <2>1, <2>2, <2>3, <2>4, <2>5, <2>6, <2>7, <2>8, <2>9
          DEF Next, Validate, ValidateFails
<1>3. Inv => RevocationSticks
  OBVIOUS
<1> QED BY <1>1, <1>2, <1>3, Invariance, PTL DEF Spec

----------------------------------------------------------------------------
(* The token behind a cached API key *)

(* Because EntryTTL subtracts a Margin longer than the answer can take,    *)
(* the token in a cached entry outlives the entry, however late it was     *)
(* stored.                                                                 *)
THEOREM TokenAlive == Spec => []CachedTokenAlive
<1> USE Bounds
<1>1. Init => CachedTokenAlive
  BY DEF Init, CachedTokenAlive, NoEntry
<1>2. IInv /\ CachedTokenAlive /\ [Next]_vars => CachedTokenAlive'
  <2> SUFFICES ASSUME IInv, CachedTokenAlive, [Next]_vars PROVE CachedTokenAlive'
    OBVIOUS
  <2>0. Typed
    BY DEF IInv
  <2>1. ASSUME NEW r \in Request, Set(r) \/ SetFails(r)
        PROVE  CachedTokenAlive'
    <3>1. entry' \in {entry, Cached(r)} /\ UNCHANGED kind
      BY <2>1 DEF Set, SetFails, External
    <3>2. CASE entry' = entry
      BY <3>1, <3>2 DEF CachedTokenAlive
    <3>3. CASE entry' = [owner |-> "gateway", ttl |-> EntryTTL(answer[r]),
                         life |-> Less(answer[r], wait[r])]
               /\ EntryTTL(answer[r]) > 0
      <4> SUFFICES ASSUME kind = "api_key"
                   PROVE  entry'.life >= entry'.ttl + Margin - MaxWait
        BY <3>1 DEF CachedTokenAlive
      <4>1. answer[r] \in Nat /\ wait[r] \in 0..MaxWait
        BY <2>0 DEF Typed, TypeOK
      <4>2. EntryTTL(answer[r]) \in 1..CacheTTL /\ EntryTTL(answer[r]) + Margin <= answer[r]
        BY <3>3, <4>1, EntryTTLBounded
      <4>3. Less(answer[r], wait[r]) = answer[r] - wait[r]
        BY <4>1, <4>2, TimeAssumption DEF Less
      <4> QED BY <3>3, <4>1, <4>2, <4>3
    <3> QED BY <2>0, <3>1, <3>2, <3>3, CachedTyped
  <2>2. CASE Tick
    <3> SUFFICES ASSUME kind = "api_key", entry'.owner = "gateway"
                 PROVE  entry'.life >= entry'.ttl + Margin - MaxWait
      BY <2>2 DEF CachedTokenAlive, Tick
    <3>1. /\ entry.ttl > 1 /\ entry.ttl \in 0..CacheTTL /\ entry.life \in Nat
          /\ entry.owner = "gateway"
          /\ entry'.ttl = entry.ttl - 1 /\ entry'.life = Less(entry.life, 1)
      BY <2>0, <2>2 DEF Typed, TypeOK, Tick, Aged, NoEntry
    <3>2. entry.life >= entry.ttl + Margin - MaxWait
      BY <3>1 DEF CachedTokenAlive
    <3> QED BY <3>1, <3>2, TimeAssumption DEF Less
  <2>3. ASSUME UNCHANGED kind, entry' = entry \/ entry'.owner # "gateway"
        PROVE  CachedTokenAlive'
    BY <2>3 DEF CachedTokenAlive
  <2>4. ASSUME NEW r \in Request,
               \/ GetHit(r) \/ GetMiss(r) \/ GetFails(r) \/ Evict(r) \/ EvictFails(r)
               \/ Decode(r) \/ PostAnswered(r) \/ PostTimesOut(r) \/ PostFails(r) \/ Again(r)
        PROVE  CachedTokenAlive'
    BY <2>3, <2>4 DEF GetHit, GetMiss, GetFails, Evict, EvictFails, Decode, PostAnswered,
                      PostTimesOut, PostFails, Again, External, NoEntry
  <2>5. ASSUME \/ \E m \in Message : OnInvalidate(m) \/ OnInvalidateFails(m) \/ Revoke(m)
               \/ Subscribe \/ ListenerFails \/ Expire \/ ForeignWrite
               \/ UNCHANGED vars
        PROVE  CachedTokenAlive'
    BY <2>3, <2>5 DEF OnInvalidate, OnInvalidateFails, Revoke, Subscribe, ListenerFails,
                      Expire, ForeignWrite, NoEntry, vars
  <2> QED BY <2>1, <2>2, <2>4, <2>5 DEF Next, Validate, ValidateFails
<1> QED BY <1>1, <1>2, Invariance, PTL DEF Spec
=============================================================================
