-------------------------- MODULE UsageOutboxProofs --------------------------
(* Proofs about UsageOutbox for every finite set of emissions, under every *)
(* interleaving, failure of the stream or of SQLite, and restart: types,   *)
(* that no event is lost, that only an unrecorded XADD is repeated, and    *)
(* that an emission without failure flushes the backlog it found.          *)
EXTENDS UsageOutbox, FiniteSetTheorems, SequenceTheorems, TLAPS

(* A row is in the outbox once, and only after its emission returned. *)
RowsUnique == \A i, j \in DOMAIN pending : pending[i] = pending[j] => i = j
RowsDone   == \A x \in Range(pending) : at[x] = "done"

(* The coroutine inside drain() is the one that holds the lock, and what   *)
(* it still has to flush is the whole table: nobody else can write to it.  *)
Flushing == {"flush", "flushed"}
Drains ==
    /\ \A e \in Emission : at[e] \in Flushing <=> e \in lock
    /\ \A e, f \in lock : e = f
    /\ \A e \in lock : rows[e] = pending /\ pending # <<>>

(* An XADD that was applied is in the stream; until it is recorded, every  *)
(* copy of its event is counted as unrecorded.                             *)
Applied ==
    \A e \in Emission :
        /\ at[e] = "flushed" => sent[Head(rows[e])] > 0
        /\ at[e] = "xadded" => sent[e] > 0
Unrecorded ==
    \A e \in Emission :
        at[e] # "done" \/ e \in Range(pending) => sent[e] = unacked[e]

(* Who blocks the loop has not returned. *)
BlockedActive == \A e \in blocked : at[e] \in Active

(* Only finished emissions are in a backlog; past its drain, an emission   *)
(* without failure has left none of it in the table.                       *)
Past == {"xadd", "xadded", "done"}
BacklogDone  == \A e \in Emission : \A x \in backlog[e] : at[x] = "done"
BacklogGone  ==
    \A e \in clean : at[e] \in Past => backlog[e] \cap Range(pending) = {}

IInv ==
    /\ TypeOK /\ RowsUnique /\ RowsDone /\ Drains /\ Applied /\ Unrecorded
    /\ BlockedActive /\ BacklogDone /\ BacklogGone
    /\ NoEventLost /\ NoIdleDuplicate
----------------------------------------------------------------------------
(* The table *)

(* What is in a table is what a row of it holds. *)
LEMMA InTable ==
    ASSUME NEW s \in Seq(Emission)
    PROVE  /\ DOMAIN s = 1..Len(s) /\ Len(s) \in Nat
           /\ Range(s) \subseteq Emission
           /\ \A x : x \in Range(s) <=> \E i \in 1..Len(s) : s[i] = x
           /\ s = <<>> => Range(s) = {}
           /\ s # <<>> => Head(s) \in Range(s) /\ Head(s) = s[1]
<1>1. DOMAIN s = 1..Len(s) /\ Len(s) \in Nat /\ \A i \in 1..Len(s) : s[i] \in Emission
  BY LenProperties, ElementOfSeq
<1>2. s = <<>> => Len(s) = 0
  BY EmptySeq
<1>3. s # <<>> => Len(s) \in Nat \ {0} /\ Head(s) = s[1]
  BY EmptySeq
<1> QED BY <1>1, <1>2, <1>3 DEF Range

(* Outbox.write: the new row is the only one added. *)
LEMMA AppendTable ==
    ASSUME NEW s \in Seq(Emission), NEW x \in Emission
    PROVE  /\ Append(s, x) \in Seq(Emission)
           /\ Range(Append(s, x)) = Range(s) \cup {x}
           /\ x \notin Range(s) /\ (\A i, j \in DOMAIN s : s[i] = s[j] => i = j) =>
                \A i, j \in DOMAIN Append(s, x) :
                    Append(s, x)[i] = Append(s, x)[j] => i = j
<1> DEFINE t == Append(s, x)
<1>1. /\ t \in Seq(Emission) /\ Len(t) = Len(s) + 1
      /\ \A i \in 1..Len(s) : t[i] = s[i]
      /\ t[Len(s) + 1] = x
  BY AppendProperties
<1>2. DOMAIN s = 1..Len(s) /\ DOMAIN t = 1..Len(t) /\ Len(s) \in Nat
  BY <1>1, LenProperties
<1> QED BY <1>1, <1>2 DEF Range

(* Deleting the oldest of several distinct rows leaves the others. *)
LEMMA DeleteOldest ==
    ASSUME NEW s \in Seq(Emission), s # <<>>,
           \A i, j \in DOMAIN s : s[i] = s[j] => i = j
    PROVE  /\ Deleted(s, Head(s)) = Tail(s)
           /\ Tail(s) \in Seq(Emission)
           /\ Range(Tail(s)) = Range(s) \ {Head(s)}
           /\ \A i, j \in DOMAIN Tail(s) : Tail(s)[i] = Tail(s)[j] => i = j
<1> DEFINE t == Tail(s)
           n == Len(s)
           k == CHOOSE i \in DOMAIN s : s[i] = Head(s)
<1>1. /\ DOMAIN s = 1..n /\ n \in Nat /\ Head(s) \in Range(s) /\ Head(s) = s[1]
      /\ n # 0
  BY InTable, EmptySeq
<1>2. /\ t \in Seq(Emission) /\ Len(t) = n - 1
      /\ \A i \in 1..Len(t) : t[i] = s[i + 1]
  BY HeadTailProperties
<1>3. DOMAIN t = 1..(n - 1)
  BY <1>2, LenProperties
<1>4. k = 1
  <2>1. 1 \in DOMAIN s /\ s[1] = Head(s)
    BY <1>1
  <2>2. k \in DOMAIN s /\ s[k] = Head(s)
    BY <2>1
  <2> QED BY <2>1, <2>2
<1>5. Deleted(s, Head(s)) = Tail(s)
  <2>1. Deleted(s, Head(s)) = SubSeq(s, 1, k - 1) \o SubSeq(s, k + 1, Len(s))
    BY <1>1 DEF Deleted
  <2>2. SubSeq(s, 1, 0) = <<>>
    BY SubSeqEmpty
  <2>3. SubSeq(s, 2, Len(s)) = t
    BY TailIsSubSeq
  <2>4. <<>> \o t = t
    BY <1>2, ConcatEmptySeq
  <2> HIDE DEF k
  <2>5. k - 1 = 0 /\ k + 1 = 2
    BY <1>4
  <2> QED BY <2>1, <2>2, <2>3, <2>4, <2>5
<1>6. Range(t) = Range(s) \ {Head(s)}
  <2> HIDE DEF t, n
  <2>1. ASSUME NEW x \in Range(t) PROVE x \in Range(s) \ {Head(s)}
    <3>1. PICK i \in 1..(n - 1) : t[i] = x
      BY <1>3 DEF Range
    <3>2. x = s[i + 1] /\ i + 1 \in 1..n /\ i + 1 # 1 /\ 1 \in 1..n
      BY <1>1, <1>2, <3>1
    <3> QED BY <1>1, <3>2 DEF Range
  <2>2. ASSUME NEW x \in Range(s), x # Head(s) PROVE x \in Range(t)
    <3>1. PICK i \in 1..n : s[i] = x
      BY <1>1 DEF Range
    <3>2. i - 1 \in 1..(n - 1) /\ (i - 1) + 1 = i
      BY <1>1, <2>2, <3>1
    <3>3. t[i - 1] = x
      BY <1>1, <1>2, <3>1, <3>2
    <3> QED BY <1>3, <3>2, <3>3 DEF Range
  <2> QED BY <2>1, <2>2
<1>7. ASSUME NEW i \in DOMAIN t, NEW j \in DOMAIN t, t[i] = t[j] PROVE i = j
  <2> HIDE DEF t, n
  <2>1. i \in 1..(n - 1) /\ j \in 1..(n - 1) /\ i + 1 \in 1..n /\ j + 1 \in 1..n
    BY <1>1, <1>3
  <2>2. s[i + 1] = s[j + 1]
    BY <1>1, <1>2, <1>7, <2>1
  <2>3. i + 1 = j + 1
    BY <1>1, <2>1, <2>2
  <2> QED BY <2>1, <2>3
<1> QED BY <1>2, <1>5, <1>6, <1>7

----------------------------------------------------------------------------
(* Each step preserves the invariant *)

(* A set with at most one element has at most cardinality one. *)
LEMMA OneHolder ==
    /\ Cardinality({}) <= 1
    /\ \A e \in Emission : Cardinality({e}) <= 1
<1>1. Cardinality({}) = 0
  BY FS_EmptySet
<1>2. \A e \in Emission : Cardinality({e}) = 1
  BY FS_Singleton
<1> QED BY <1>1, <1>2

(* The copies are bounded when their new counts are. *)
LEMMA CopiesBounded ==
    ASSUME NEW s, NEW u, sent' = s, unacked' = u,
           \A x \in Emission : s[x] <= 1 + u[x]
    PROVE  NoIdleDuplicate'
BY ZenonT(20) DEF NoIdleDuplicate

(* A step that leaves the table and the counts alone, and moves nobody to  *)
(* or from "done", keeps what is said of them.                             *)
LEMMA TableKept ==
    ASSUME IInv, pending' = pending, sent' = sent, unacked' = unacked,
           \A x \in Emission : at'[x] = "done" <=> at[x] = "done"
    PROVE  RowsUnique' /\ RowsDone' /\ Unrecorded' /\ NoEventLost' /\ NoIdleDuplicate'
<1> USE DEF IInv
<1>1. RowsUnique'
  BY DEF RowsUnique
<1>2. NoIdleDuplicate'
  BY CopiesBounded DEF NoIdleDuplicate
<1>3. Range(pending') = Range(pending) /\ Range(pending) \subseteq Emission
  BY InTable DEF TypeOK
<1>4. RowsDone' /\ NoEventLost'
  BY <1>3 DEF RowsDone, NoEventLost
<1>5. Unrecorded'
  BY <1>3 DEF Unrecorded
<1> QED BY <1>1, <1>2, <1>4, <1>5

(* Drain selects all rows, or finds none. *)
LEMMA DrainStep ==
    ASSUME IInv, NEW e \in Emission, Drain(e)
    PROVE  IInv'
<1> USE DEF IInv, Drain, Goto, LoopRuns, At, Active
<1>1. /\ Range(pending) \subseteq Emission
      /\ pending = <<>> => Range(pending) = {}
  BY InTable DEF TypeOK
<1>2. TypeOK'
  <2>1. lock' \in SUBSET Emission /\ Cardinality(lock') <= 1
    BY OneHolder DEF TypeOK
  <2>2. /\ pending' \in Seq(Emission) /\ rows' \in [Emission -> Seq(Emission)]
        /\ backlog' \in [Emission -> SUBSET Emission]
    BY <1>1 DEF TypeOK
  <2>3. at' \in [Emission -> At]
    BY DEF TypeOK
  <2> QED BY <2>1, <2>2, <2>3 DEF TypeOK
<1>3. RowsUnique' /\ RowsDone' /\ Unrecorded' /\ NoEventLost' /\ NoIdleDuplicate'
  <2>1. \A x \in Emission : at'[x] = "done" <=> at[x] = "done"
    BY DEF TypeOK
  <2> QED BY <2>1, TableKept
<1>4. Drains' /\ Applied' /\ BlockedActive'
  BY DEF TypeOK, Drains, Applied, BlockedActive, Flushing
<1>5. BacklogDone'
  BY <1>1 DEF TypeOK, RowsDone, BacklogDone
<1>6. BacklogGone'
  BY <1>1 DEF TypeOK, BacklogGone, Past
<1> QED BY <1>2, <1>3, <1>4, <1>5, <1>6

(* A drain that reads nothing, or ends early, leaves every row; a blocked  *)
(* coroutine changes nothing but the loop.                                 *)
LEMMA FailureStep ==
    ASSUME IInv, NEW e \in Emission,
           DrainFails(e) \/ FlushFails(e) \/ DrainBlocks(e) \/ WriteBlocks(e)
    PROVE  IInv'
<1> USE DEF IInv, DrainFails, FlushFails, DrainBlocks, WriteBlocks, Wedge, AfterRow,
            Goto, LoopRuns, At, Active
<1>1. <<>> \in Seq(Emission)
  BY EmptySeq
<1>2. TypeOK'
  <2>1. lock' \in SUBSET Emission /\ Cardinality(lock') <= 1
    BY OneHolder DEF TypeOK
  <2>2. at' \in [Emission -> At] /\ rows' \in [Emission -> Seq(Emission)]
    BY <1>1 DEF TypeOK
  <2> QED BY <2>1, <2>2 DEF TypeOK
<1>3. RowsUnique' /\ RowsDone' /\ Unrecorded' /\ NoEventLost' /\ NoIdleDuplicate'
  <2>1. \A x \in Emission : at'[x] = "done" <=> at[x] = "done"
    BY DEF TypeOK
  <2> QED BY <2>1, TableKept
<1>4. Drains' /\ Applied'
  <2>1. CASE FlushFails(e)
    <3>1. e \in lock /\ lock' = {} /\ \A f \in lock : f = e
      BY <2>1 DEF Drains, Flushing
    <3>2. \A f \in Emission : at'[f] \notin Flushing
      BY <2>1, <3>1 DEF TypeOK, Drains, Flushing
    <3>3. Drains'
      BY <3>1, <3>2 DEF Drains
    <3>4. Applied'
      BY <2>1, <3>2 DEF TypeOK, Applied, Flushing
    <3> QED BY <3>3, <3>4
  <2>2. CASE ~FlushFails(e)
    BY <2>2 DEF TypeOK, Drains, Applied, Flushing
  <2> QED BY <2>1, <2>2
<1>5. BlockedActive'
  BY DEF TypeOK, BlockedActive
<1>6. BacklogDone'
  BY DEF TypeOK, BacklogDone
<1>7. BacklogGone'
  BY DEF TypeOK, BacklogGone, Past
<1> QED BY <1>2, <1>3, <1>4, <1>5, <1>6, <1>7

(* One more copy of an event whose copies are all unrecorded. *)
LEMMA OneMoreCopy ==
    ASSUME IInv, NEW h \in Emission, at[h] # "done" \/ h \in Range(pending),
           sent' = [sent EXCEPT ![h] = @ + 1],
           unacked' = [unacked EXCEPT ![h] = @ + 1]
    PROVE  /\ sent' \in [Emission -> Nat] /\ unacked' \in [Emission -> Nat]
           /\ sent'[h] > 0 /\ \A x \in Emission : sent[x] > 0 => sent'[x] > 0
           /\ \A x \in Emission : sent[x] = unacked[x] => sent'[x] = unacked'[x]
           /\ NoIdleDuplicate'
<1> DEFINE s == [sent EXCEPT ![h] = @ + 1]
           u == [unacked EXCEPT ![h] = @ + 1]
<1>1. \A x \in Emission : s[x] <= 1 + u[x]
  BY DEF IInv, TypeOK, NoIdleDuplicate
<1>2. NoIdleDuplicate'
  <2> HIDE DEF s, u
  <2>1. sent' = s /\ unacked' = u
    BY DEF s, u
  <2> QED BY <1>1, <2>1, CopiesBounded
<1>3. /\ s \in [Emission -> Nat] /\ u \in [Emission -> Nat]
      /\ s[h] > 0 /\ \A x \in Emission : sent[x] > 0 => s[x] > 0
      /\ \A x \in Emission : sent[x] = unacked[x] => s[x] = u[x]
  BY DEF IInv, TypeOK
<1> QED BY <1>2, <1>3

(* The XADD of a row, or of the emission's own event, is applied. *)
LEMMA AppliedStep ==
    ASSUME IInv, NEW e \in Emission, FlushApplied(e) \/ XaddApplied(e)
    PROVE  IInv'
<1> USE DEF IInv, FlushApplied, XaddApplied, Goto, At, Active
<1> DEFINE h == IF at[e] = "flush" THEN Head(rows[e]) ELSE e
<1>1. Range(pending) \subseteq Emission /\ Range(pending') = Range(pending)
  BY InTable DEF TypeOK
<1>2. h \in Emission /\ (at[h] # "done" \/ h \in Range(pending))
  <2>1. CASE at[e] = "flush"
    <3>1. rows[e] = pending /\ pending # <<>>
      BY <2>1 DEF Drains, Flushing
    <3>2. Head(pending) \in Range(pending)
      BY <3>1, InTable DEF TypeOK
    <3> QED BY <2>1, <3>1, <3>2, <1>1
  <2>2. CASE at[e] # "flush"
    BY <2>2
  <2> QED BY <2>1, <2>2
<1>3. /\ sent' = [sent EXCEPT ![h] = @ + 1]
      /\ unacked' = [unacked EXCEPT ![h] = @ + 1]
      /\ at' = [at EXCEPT ![e] = IF at[e] = "flush" THEN "flushed" ELSE "xadded"]
      /\ at[e] = "flush" \/ at[e] = "xadd"
  OBVIOUS
<1>4. /\ sent' \in [Emission -> Nat] /\ unacked' \in [Emission -> Nat]
      /\ sent'[h] > 0 /\ \A x \in Emission : sent[x] > 0 => sent'[x] > 0
      /\ \A x \in Emission : sent[x] = unacked[x] => sent'[x] = unacked'[x]
      /\ NoIdleDuplicate'
  <2> HIDE DEF h
  <2> QED BY <1>2, <1>3, OneMoreCopy
<1>5. UNCHANGED <<pending, lock, blocked, rows, backlog, clean>>
  OBVIOUS
<1>6. \A x \in Emission : at'[x] = "done" <=> at[x] = "done"
  BY <1>3 DEF TypeOK
<1>7. TypeOK'
  BY <1>3, <1>4, <1>5 DEF TypeOK
<1>8. RowsUnique' /\ RowsDone'
  BY <1>1, <1>5, <1>6 DEF RowsUnique, RowsDone
<1>9. Unrecorded' /\ NoEventLost'
  BY <1>1, <1>4, <1>6 DEF Unrecorded, NoEventLost
<1>10. Drains' /\ BlockedActive'
  BY <1>3, <1>5 DEF TypeOK, Drains, BlockedActive, Flushing
<1>11. Applied'
  <2> SUFFICES ASSUME NEW f \in Emission
               PROVE  /\ at'[f] = "flushed" => sent'[Head(rows'[f])] > 0
                      /\ at'[f] = "xadded" => sent'[f] > 0
    BY DEF Applied
  <2>1. CASE f = e
    BY <1>3, <1>4, <1>5, <2>1 DEF TypeOK
  <2>2. CASE f # e
    <3>1. at'[f] = at[f] /\ rows'[f] = rows[f]
      BY <1>3, <1>5, <2>2 DEF TypeOK
    <3>2. at[f] = "flushed" => Head(rows[f]) \in Emission
      <4>1. at[f] = "flushed" => rows[f] = pending /\ pending # <<>>
        BY DEF Drains, Flushing
      <4>2. pending # <<>> => Head(pending) \in Emission
        BY <1>1, InTable DEF TypeOK
      <4> QED BY <4>1, <4>2
    <3> QED BY <1>4, <3>1, <3>2 DEF Applied
  <2> QED BY <2>1, <2>2
<1>12. BacklogDone'
  BY <1>5, <1>6 DEF TypeOK, BacklogDone
<1>13. BacklogGone'
  BY <1>1, <1>3, <1>5 DEF TypeOK, BacklogGone, Past
<1> QED BY <1>4, <1>7, <1>8, <1>9, <1>10, <1>11, <1>12, <1>13

(* A row is recorded as flushed, and deleted. *)
LEMMA RowStep ==
    ASSUME IInv, NEW e \in Emission, FlushRecorded(e)
    PROVE  IInv'
<1> USE DEF IInv
<1> DEFINE h == Head(pending)
           u == [unacked EXCEPT ![h] = @ - 1]
<1>1. /\ at[e] = "flushed" /\ e \in lock /\ \A f \in lock : f = e
      /\ rows[e] = pending /\ pending # <<>>
  BY DEF FlushRecorded, Drains, Flushing
<1>2. /\ h \in Emission /\ h \in Range(pending) /\ Range(pending) \subseteq Emission
      /\ at[h] = "done" /\ sent[h] > 0 /\ sent[h] = unacked[h]
  <2>1. h \in Range(pending) /\ Range(pending) \subseteq Emission
    BY <1>1, InTable DEF TypeOK
  <2> QED BY <1>1, <2>1 DEF RowsDone, Applied, Unrecorded
<1>3. /\ Deleted(pending, h) = Tail(pending)
      /\ Tail(pending) \in Seq(Emission)
      /\ Range(Tail(pending)) = Range(pending) \ {h}
      /\ \A i, j \in DOMAIN Tail(pending) : Tail(pending)[i] = Tail(pending)[j] => i = j
  BY <1>1, DeleteOldest DEF TypeOK, RowsUnique
<1> HIDE DEF h
<1>4. /\ pending' = Tail(pending) /\ unacked' = u /\ sent' = sent
      /\ UNCHANGED <<blocked, backlog, clean>> /\ blocked = {}
  BY <1>1, <1>3 DEF FlushRecorded, h, LoopRuns
<1>5. \/ /\ pending' = <<>> /\ lock' = {} /\ at' = [at EXCEPT ![e] = "xadd"]
         /\ rows' = [rows EXCEPT ![e] = <<>>]
      \/ /\ pending' # <<>> /\ lock' = lock /\ at' = [at EXCEPT ![e] = "flush"]
         /\ rows' = [rows EXCEPT ![e] = pending']
  BY <1>1, <1>4 DEF FlushRecorded, AfterRow, Goto
<1>6. /\ Range(pending') = Range(pending) \ {h} /\ pending' \in Seq(Emission)
      /\ pending' = <<>> => Range(pending') = {}
  BY <1>3, <1>4, InTable
<1>7. \A x \in Emission : at'[x] = "done" <=> at[x] = "done"
  BY <1>1, <1>5 DEF TypeOK
<1>8. u \in [Emission -> Nat] /\ \A x \in Emission : x # h => u[x] = unacked[x]
  BY <1>2 DEF TypeOK
<1>9. TypeOK'
  <2>1. lock' \in SUBSET Emission /\ Cardinality(lock') <= 1
    BY <1>5, OneHolder DEF TypeOK
  <2>2. at' \in [Emission -> At]
    BY <1>5 DEF TypeOK, At, Active
  <2>3. rows' = [rows EXCEPT ![e] = pending']
    BY <1>5
  <2>4. rows' \in [Emission -> Seq(Emission)]
    BY <1>6, <2>3 DEF TypeOK
  <2> QED BY <1>4, <1>6, <1>8, <2>1, <2>2, <2>4 DEF TypeOK
<1>10. RowsUnique'
  BY <1>3, <1>4 DEF RowsUnique
<1>11. RowsDone' /\ NoEventLost'
  BY <1>2, <1>4, <1>6, <1>7 DEF RowsDone, NoEventLost
<1>12. Unrecorded'
  BY <1>2, <1>4, <1>6, <1>7, <1>8 DEF Unrecorded
<1>13. NoIdleDuplicate'
  <2>1. \A x \in Emission : sent[x] <= 1 + u[x]
    BY <1>2 DEF TypeOK, NoIdleDuplicate
  <2> HIDE DEF u
  <2> QED BY <1>4, <2>1, CopiesBounded
<1>14. Drains' /\ BlockedActive'
  BY <1>1, <1>4, <1>5 DEF TypeOK, Drains, BlockedActive, Flushing
<1>15. Applied'
  BY <1>1, <1>4, <1>5 DEF TypeOK, Drains, Applied, Flushing
<1>16. BacklogDone'
  BY <1>4, <1>7 DEF TypeOK, BacklogDone
<1>17. BacklogGone'
  BY <1>4, <1>5, <1>6 DEF TypeOK, BacklogGone, Past
<1> QED BY <1>9, <1>10, <1>11, <1>12, <1>13, <1>14, <1>15, <1>16, <1>17

(* The emission's own event is recorded as sent. *)
LEMMA RecordedStep ==
    ASSUME IInv, NEW e \in Emission, XaddRecorded(e)
    PROVE  IInv'
<1> USE DEF IInv
<1> DEFINE u == [unacked EXCEPT ![e] = @ - 1]
<1>1. /\ at[e] = "xadded" /\ at' = [at EXCEPT ![e] = "done"]
      /\ unacked' = u /\ sent' = sent /\ blocked = {}
      /\ UNCHANGED <<pending, lock, blocked, rows, backlog, clean>>
  BY DEF XaddRecorded, Goto, LoopRuns
<1>2. /\ Range(pending) \subseteq Emission /\ Range(pending') = Range(pending)
      /\ e \notin Range(pending)
  BY <1>1, InTable DEF TypeOK, RowsDone
<1>3. sent[e] > 0 /\ sent[e] = unacked[e]
  BY <1>1 DEF Applied, Unrecorded
<1>4. u \in [Emission -> Nat] /\ \A x \in Emission : x # e => u[x] = unacked[x]
  BY <1>3 DEF TypeOK
<1>5. at'[e] = "done" /\ \A x \in Emission : x # e => at'[x] = at[x]
  BY <1>1 DEF TypeOK
<1>6. TypeOK'
  BY <1>1, <1>4 DEF TypeOK, At, Active
<1>7. RowsUnique' /\ RowsDone'
  BY <1>1, <1>2, <1>5 DEF RowsUnique, RowsDone
<1>8. NoEventLost'
  BY <1>1, <1>2, <1>3, <1>5 DEF NoEventLost
<1>9. Unrecorded'
  BY <1>1, <1>2, <1>4, <1>5 DEF Unrecorded
<1>10. NoIdleDuplicate'
  <2>1. \A x \in Emission : sent[x] <= 1 + u[x]
    BY <1>3 DEF TypeOK, NoIdleDuplicate
  <2> HIDE DEF u
  <2> QED BY <1>1, <2>1, CopiesBounded
<1>11. Drains' /\ BlockedActive' /\ Applied'
  BY <1>1, <1>5 DEF TypeOK, Drains, BlockedActive, Applied, Flushing
<1>12. BacklogDone'
  BY <1>1, <1>5 DEF TypeOK, BacklogDone
<1>13. BacklogGone'
  BY <1>1, <1>2, <1>5 DEF TypeOK, BacklogGone, Past
<1> QED BY <1>6, <1>7, <1>8, <1>9, <1>10, <1>11, <1>12, <1>13

(* Outbox.write takes the event, or loses it. *)
LEMMA WriteStep ==
    ASSUME IInv, NEW e \in Emission, Write(e)
    PROVE  IInv'
<1> USE DEF IInv
<1>1. /\ at[e] \in {"xadd", "xadded"} /\ lock = {} /\ blocked = {}
      /\ \/ pending' = Append(pending, e) /\ at' = [at EXCEPT ![e] = "done"]
         \/ pending' = pending /\ at' = [at EXCEPT ![e] = "lost"]
      /\ clean' = clean \ {e}
      /\ UNCHANGED <<sent, lock, blocked, rows, unacked, backlog>>
  BY DEF Write, Goto, LoopRuns
<1>2. Range(pending) \subseteq Emission /\ e \notin Range(pending)
  BY <1>1, InTable DEF TypeOK, RowsDone
<1>3. /\ pending' \in Seq(Emission) /\ RowsUnique'
      /\ \/ Range(pending') = Range(pending) \cup {e} /\ at'[e] = "done"
         \/ Range(pending') = Range(pending) /\ at'[e] = "lost"
  <2>1. CASE pending' = Append(pending, e) /\ at' = [at EXCEPT ![e] = "done"]
    <3>1. /\ Append(pending, e) \in Seq(Emission)
          /\ Range(Append(pending, e)) = Range(pending) \cup {e}
          /\ \A i, j \in DOMAIN Append(pending, e) :
                Append(pending, e)[i] = Append(pending, e)[j] => i = j
      BY <1>2, AppendTable DEF TypeOK, RowsUnique
    <3>2. at'[e] = "done"
      BY <2>1 DEF TypeOK
    <3> QED BY <2>1, <3>1, <3>2 DEF RowsUnique
  <2>2. CASE pending' = pending /\ at' = [at EXCEPT ![e] = "lost"]
    BY <2>2 DEF TypeOK, RowsUnique
  <2> QED BY <1>1, <2>1, <2>2
<1>4. \A x \in Emission : x # e => at'[x] = at[x]
  BY <1>1 DEF TypeOK
<1>5. TypeOK'
  BY <1>1, <1>3 DEF TypeOK, At, Active
<1>6. RowsDone' /\ NoEventLost'
  BY <1>1, <1>2, <1>3, <1>4 DEF RowsDone, NoEventLost
<1>7. Unrecorded'
  BY <1>1, <1>2, <1>3, <1>4 DEF Unrecorded
<1>8. NoIdleDuplicate'
  BY <1>1, CopiesBounded DEF NoIdleDuplicate
<1>9. Drains' /\ BlockedActive' /\ Applied'
  BY <1>1, <1>3, <1>4 DEF TypeOK, Drains, BlockedActive, Applied, Flushing
<1>10. BacklogDone'
  BY <1>1, <1>4 DEF TypeOK, BacklogDone
<1>11. BacklogGone'
  BY <1>1, <1>3, <1>4 DEF TypeOK, BacklogDone, BacklogGone, Past
<1> QED BY <1>3, <1>5, <1>6, <1>7, <1>8, <1>9, <1>10, <1>11

(* A restart ends everyone who has begun; who has returned stays so. *)
LEMMA RestartStep ==
    ASSUME IInv, Restart
    PROVE  IInv'
<1> USE DEF IInv
<1>1. \A x \in Emission : at'[x] = "done" <=> at[x] = "done"
  BY DEF TypeOK, Restart, Started, BlockedActive, Active
<1>2. \A x \in Emission : at'[x] \notin {"flush", "flushed", "xadd", "xadded"}
  BY DEF TypeOK, Restart, Started, Active
<1>3. TypeOK'
  <2>1. at' \in [Emission -> At]
    BY DEF TypeOK, Restart, At
  <2>2. rows' \in [Emission -> Seq(Emission)]
    BY EmptySeq DEF Restart
  <2> QED BY <2>1, <2>2, OneHolder DEF TypeOK, Restart
<1>4. RowsUnique' /\ RowsDone' /\ Unrecorded' /\ NoEventLost' /\ NoIdleDuplicate'
  BY <1>1, TableKept DEF Restart
<1>5. Drains' /\ BlockedActive' /\ Applied'
  BY <1>2 DEF Restart, Drains, BlockedActive, Applied, Flushing
<1>6. BacklogDone'
  BY <1>1 DEF TypeOK, Restart, BacklogDone
<1>7. BacklogGone'
  BY <1>1, <1>2 DEF TypeOK, Restart, BacklogGone, Past
<1> QED BY <1>3, <1>4, <1>5, <1>6, <1>7

----------------------------------------------------------------------------
(* Theorems *)

(* Whatever emissions do and whenever the process restarts, the outbox and *)
(* the stream satisfy the inductive invariant.                             *)
THEOREM Invariance == Spec => []IInv
<1>1. Init => IInv
  <2> SUFFICES ASSUME Init PROVE IInv
    OBVIOUS
  <2> USE DEF Init
  <2>1. <<>> \in Seq(Emission) /\ Range(pending) = {} /\ DOMAIN pending = {}
    BY EmptySeq, InTable
  <2>2. TypeOK
    BY <2>1, OneHolder DEF TypeOK, At, Active
  <2>3. RowsUnique /\ RowsDone /\ Drains /\ Applied /\ BlockedActive
    BY <2>1 DEF RowsUnique, RowsDone, Drains, Applied, BlockedActive, Flushing
  <2>4. Unrecorded /\ NoEventLost /\ NoIdleDuplicate /\ BacklogDone /\ BacklogGone
    BY DEF Unrecorded, NoEventLost, NoIdleDuplicate, BacklogDone, BacklogGone
  <2> QED BY <2>2, <2>3, <2>4 DEF IInv
<1>2. IInv /\ [Next]_vars => IInv'
  <2> SUFFICES ASSUME IInv, [Next]_vars PROVE IInv'
    OBVIOUS
  <2>1. ASSUME NEW e \in Emission, EmitUsage(e) PROVE IInv'
    BY <2>1, DrainStep, FailureStep, AppliedStep, RowStep, RecordedStep DEF EmitUsage
  <2>2. ASSUME NEW e \in Emission, EmitFails(e) PROVE IInv'
    BY <2>2, FailureStep, WriteStep DEF EmitFails
  <2>3. CASE Restart
    BY <2>3, RestartStep
  <2>4. CASE UNCHANGED vars
    <3> USE <2>4 DEF IInv, vars
    <3>1. NoIdleDuplicate'
      BY CopiesBounded DEF NoIdleDuplicate
    <3>2. TypeOK' /\ RowsUnique' /\ RowsDone' /\ Drains' /\ Applied' /\ BlockedActive'
      BY DEF TypeOK, RowsUnique, RowsDone, Drains, Applied, BlockedActive
    <3>3. Unrecorded' /\ NoEventLost' /\ BacklogDone' /\ BacklogGone'
      BY DEF Unrecorded, NoEventLost, BacklogDone, BacklogGone
    <3> QED BY <3>1, <3>2, <3>3
  <2> QED BY <2>1, <2>2, <2>3, <2>4 DEF Next
<1> QED BY <1>1, <1>2, PTL DEF Spec

(* Table, stream counts and positions stay well formed, and at most one    *)
(* coroutine holds the outbox's lock.                                      *)
THEOREM TypeCorrect == Spec => []TypeOK
<1>1. IInv => TypeOK
  BY DEF IInv
<1> QED BY <1>1, Invariance, PTL

(* An event whose emit_usage returned was appended to the stream or is in  *)
(* the outbox: its row is deleted only by a drain that has appended it.    *)
THEOREM EventsKept == Spec => []NoEventLost
<1>1. IInv => NoEventLost
  BY DEF IInv
<1> QED BY <1>1, Invariance, PTL

(* Copies beyond the first are XADDs that were applied but never recorded: *)
(* the lock keeps two drains from flushing the same row.                   *)
THEOREM NoDoubleFlush == Spec => []NoIdleDuplicate
<1>1. IInv => NoIdleDuplicate
  BY DEF IInv
<1> QED BY <1>1, Invariance, PTL

(* An emission that met no failure leaves none of the rows it found. *)
THEOREM BacklogCleared == Spec => []BacklogFlushed
<1>1. IInv => BacklogFlushed
  BY DEF IInv, BacklogGone, BacklogFlushed, Past
<1> QED BY <1>1, Invariance, PTL

(* An emission that has not begun has nothing in the stream. *)
Unsent == \A e \in Emission : at[e] = "ready" => sent[e] = 0

(* Nobody sends the event of an emission before emit_usage runs for it:    *)
(* drain() only flushes rows of emissions that returned.                   *)
THEOREM NothingEarly == Spec => []Unsent
<1>1. Init => Unsent
  BY DEF Init, Unsent
<1>2. IInv /\ Unsent /\ [Next]_vars => Unsent'
  <2> SUFFICES ASSUME IInv, Unsent, [Next]_vars,
                      NEW x \in Emission, at'[x] = "ready"
               PROVE  sent'[x] = 0
    BY DEF Unsent
  <2>0. TypeOK /\ (at[x] = "ready" => sent[x] = 0)
    BY DEF IInv, Unsent
  <2>1. ASSUME NEW e \in Emission, FlushApplied(e)
        PROVE  sent'[x] = 0
    <3>1. rows[e] = pending /\ pending # <<>> /\ x # e /\ at[x] = "ready"
      BY <2>0, <2>1 DEF IInv, FlushApplied, Goto, Drains, Flushing, TypeOK
    <3>2. at[Head(pending)] = "done"
      BY <2>0, <3>1, InTable DEF IInv, RowsDone, TypeOK
    <3> QED BY <2>0, <2>1, <3>1, <3>2 DEF FlushApplied, TypeOK
  <2>2. ASSUME NEW e \in Emission, XaddApplied(e)
        PROVE  sent'[x] = 0
    BY <2>0, <2>2 DEF XaddApplied, Goto, TypeOK
  <2>3. ASSUME NEW e \in Emission,
               \/ Drain(e) \/ DrainBlocks(e) \/ FlushRecorded(e) \/ XaddRecorded(e)
               \/ EmitFails(e)
        PROVE  sent'[x] = 0
    <3>1. UNCHANGED sent
      BY <2>3 DEF Drain, DrainBlocks, Wedge, FlushRecorded, XaddRecorded, EmitFails,
         DrainFails, FlushFails, Write, WriteBlocks
    <3>2. at[x] = "ready"
      BY <2>0, <2>3 DEF Drain, DrainBlocks, Wedge, FlushRecorded, AfterRow, XaddRecorded,
         EmitFails, DrainFails, FlushFails, Write, WriteBlocks, Goto, TypeOK
    <3> QED BY <2>0, <3>1, <3>2
  <2>4. CASE Restart
    BY <2>0, <2>4 DEF Restart, TypeOK
  <2>5. CASE UNCHANGED vars
    BY <2>0, <2>5 DEF vars
  <2> QED BY <2>1, <2>2, <2>3, <2>4, <2>5 DEF Next, EmitUsage
<1> QED BY <1>1, <1>2, Invariance, PTL DEF Spec

----------------------------------------------------------------------------
(* At-least-once delivery *)

Taken == {e \in Emission : at[e] = "done"}
Gone  == {e \in Emission : at[e] \in {"lost", "dead"}}

(* The stream and the table as the log that billing is promised. *)
Log == INSTANCE UsageLog WITH Event <- Emission, copies <- sent,
           kept <- Range(pending), taken <- Taken, gone <- Gone

(* A step that touches neither stream nor table and ends no emission is    *)
(* invisible in the log.                                                   *)
LEMMA LogKept ==
    ASSUME sent' = sent, pending' = pending,
           \A x \in Emission : /\ at'[x] = "done" <=> at[x] = "done"
                               /\ at'[x] \in {"lost", "dead"} <=> at[x] \in {"lost", "dead"}
    PROVE  UNCHANGED Log!vars
<1>1. Taken' = Taken
  BY DEF Taken
<1>2. Gone' = Gone
  BY DEF Gone
<1>3. Range(pending') = Range(pending)
  OBVIOUS
<1> QED BY <1>1, <1>2, <1>3 DEF Log!vars, Range

(* Applying an XADD sends an event that is being emitted, or is kept. *)
LEMMA LogSend ==
    ASSUME IInv, NEW e \in Emission, FlushApplied(e) \/ XaddApplied(e)
    PROVE  Log!Next
<1> DEFINE h == IF at[e] = "flush" THEN Head(rows[e]) ELSE e
<1>0. TypeOK /\ Range(pending) \subseteq Emission
  BY InTable DEF IInv, TypeOK
<1>1. h \in Emission /\ h \notin Gone /\ (h \in Taken => h \in Range(pending))
  <2>1. CASE at[e] = "flush"
    <3>1. rows[e] = pending /\ pending # <<>>
      BY <2>1 DEF IInv, Drains, Flushing
    <3>2. Head(pending) \in Range(pending)
      BY <1>0, <3>1, InTable DEF TypeOK
    <3>3. at[Head(pending)] = "done"
      BY <3>2 DEF IInv, RowsDone
    <3> QED BY <1>0, <2>1, <3>1, <3>2, <3>3 DEF Gone
  <2>2. CASE at[e] # "flush"
    BY <2>2 DEF FlushApplied, XaddApplied, Gone, Taken
  <2> QED BY <2>1, <2>2
<1>2. sent' = [sent EXCEPT ![h] = @ + 1] /\ pending' = pending
  BY DEF FlushApplied, XaddApplied
<1> HIDE DEF h
<1>3. Taken' = Taken /\ Gone' = Gone
  BY <1>0 DEF FlushApplied, XaddApplied, Goto, TypeOK, Taken, Gone
<1>4. Range(pending)' = Range(pending)
  BY <1>2 DEF Range
<1>5. Log!Send(h)
  BY <1>1, <1>2, <1>3, <1>4 DEF Log!Send
<1> QED BY <1>1, <1>5 DEF Log!Next

(* A row is deleted only when its event is in the stream. *)
LEMMA LogLetGo ==
    ASSUME IInv, NEW e \in Emission, FlushRecorded(e)
    PROVE  Log!Next
<1> DEFINE h == Head(pending)
<1>1. /\ TypeOK /\ at[e] = "flushed" /\ rows[e] = pending /\ pending # <<>>
  BY DEF IInv, FlushRecorded, Drains, Flushing
<1>2. h \in Range(pending) /\ h \in Emission /\ sent[h] > 0
  <2>1. h \in Range(pending) /\ h \in Emission
    BY <1>1, InTable DEF TypeOK
  <2> QED BY <1>1, <2>1 DEF IInv, Applied
<1>3. Deleted(pending, h) = Tail(pending) /\ Range(Tail(pending)) = Range(pending) \ {h}
  BY <1>1, DeleteOldest DEF IInv, TypeOK, RowsUnique
<1>4. pending' = Tail(pending) /\ sent' = sent
  BY <1>1, <1>3 DEF FlushRecorded
<1> HIDE DEF h
<1>5. Range(pending)' = Range(pending) \ {h}
  BY <1>3, <1>4 DEF Range
<1>6. Taken' = Taken /\ Gone' = Gone
  BY <1>1 DEF FlushRecorded, AfterRow, Goto, TypeOK, Taken, Gone
<1>7. Log!LetGo(h)
  BY <1>2, <1>4, <1>5, <1>6 DEF Log!LetGo
<1> QED BY <1>2, <1>7 DEF Log!Next

(* emit_usage returns with the event in the stream, or with its row in the *)
(* table, or without either.                                               *)
LEMMA LogTake ==
    ASSUME IInv, NEW e \in Emission, XaddRecorded(e) \/ Write(e)
    PROVE  Log!Next
<1>1. TypeOK /\ e \notin Taken \cup Gone
  BY DEF IInv, XaddRecorded, Write, Taken, Gone
<1>2. sent' = sent
  BY DEF XaddRecorded, Write
<1>3. CASE at' = [at EXCEPT ![e] = "done"]
  <2>1. Taken' = Taken \cup {e} /\ Gone' = Gone
    BY <1>1, <1>3 DEF TypeOK, Taken, Gone
  <2>2. (sent[e] > 0 /\ pending' = pending) \/ pending' = Append(pending, e)
    <3>1. CASE XaddRecorded(e)
      BY <3>1 DEF XaddRecorded, IInv, Applied
    <3>2. CASE Write(e)
      <4>1. at'[e] # "lost"
        BY <1>1, <1>3 DEF TypeOK
      <4>2. at' # [at EXCEPT ![e] = "lost"]
        BY <1>1, <4>1 DEF TypeOK
      <4> QED BY <3>2, <4>2 DEF Write, Goto
    <3> QED BY <3>1, <3>2
  <2>3. \/ sent[e] > 0 /\ Range(pending)' = Range(pending)
        \/ Range(pending)' = Range(pending) \cup {e}
    <3>1. Range(Append(pending, e)) = Range(pending) \cup {e}
      BY <1>1, AppendTable DEF TypeOK
    <3> QED BY <2>2, <3>1 DEF Range
  <2>4. Log!Take(e)
    BY <1>1, <1>2, <2>1, <2>3 DEF Log!Take
  <2> QED BY <2>4 DEF Log!Next
<1>4. CASE at' # [at EXCEPT ![e] = "done"]
  <2>1. at' = [at EXCEPT ![e] = "lost"] /\ pending' = pending
    BY <1>4 DEF XaddRecorded, Write, Goto
  <2>2. Taken' = Taken /\ Gone' = Gone \cup {e}
    BY <1>1, <2>1 DEF TypeOK, Taken, Gone
  <2>3. Range(pending)' = Range(pending)
    BY <2>1 DEF Range
  <2>4. Log!GiveUp({e})
    BY <1>1, <1>2, <2>2, <2>3 DEF Log!GiveUp
  <2> QED BY <2>4 DEF Log!Next
<1> QED BY <1>3, <1>4

(* A restart gives up the events of those who had begun, and no other. *)
LEMMA LogGiveUp ==
    ASSUME IInv, Restart
    PROVE  Log!Next
<1> DEFINE lost == {e \in Emission : Started(e)}
<1>1. TypeOK /\ \A x \in lost : at[x] \notin {"done", "lost", "dead"}
  BY DEF IInv, BlockedActive, Started, Active
<1>2. lost \cap (Taken \cup Gone) = {}
  BY <1>1 DEF Taken, Gone
<1>3. Taken' = Taken
  BY <1>1 DEF Restart, Taken
<1>4. Gone' = Gone \cup lost
  BY <1>1 DEF Restart, Gone
<1>5. sent' = sent /\ Range(pending)' = Range(pending)
  BY DEF Restart, Range
<1> HIDE DEF lost
<1>6. Log!GiveUp(lost)
  BY <1>2, <1>3, <1>4, <1>5 DEF Log!GiveUp
<1>7. lost \in SUBSET Emission
  BY DEF lost
<1> QED BY <1>6, <1>7 DEF Log!Next

(* emit_usage with its outbox is an at-least-once log: whatever the        *)
(* interleaving, the failures and the restarts, a row leaves the outbox    *)
(* only after its event reached the stream, a promised event is never      *)
(* given up, and an event whose row is gone is never sent again.           *)
THEOREM AtLeastOnce == Spec => Log!Spec
<1>1. Init => Log!Init
  <2> SUFFICES ASSUME Init PROVE Log!Init
    OBVIOUS
  <2>1. Range(pending) = {}
    BY InTable, EmptySeq DEF Init
  <2> QED BY <2>1 DEF Init, Log!Init, Taken, Gone
<1>2. IInv /\ [Next]_vars => [Log!Next]_(Log!vars)
  <2> SUFFICES ASSUME IInv, [Next]_vars PROVE Log!Next \/ UNCHANGED Log!vars
    OBVIOUS
  <2>0. TypeOK
    BY DEF IInv
  <2>1. ASSUME NEW e \in Emission,
               \/ Drain(e) \/ DrainFails(e) \/ FlushFails(e) \/ DrainBlocks(e)
               \/ WriteBlocks(e)
        PROVE  UNCHANGED Log!vars
    <3>1. sent' = sent /\ pending' = pending
      BY <2>1 DEF Drain, DrainFails, FlushFails, DrainBlocks, WriteBlocks, Wedge
    <3>2. \A x \in Emission :
              /\ at'[x] = "done" <=> at[x] = "done"
              /\ at'[x] \in {"lost", "dead"} <=> at[x] \in {"lost", "dead"}
      BY <2>0, <2>1 DEF Drain, DrainFails, FlushFails, DrainBlocks, WriteBlocks, Wedge,
         AfterRow, Goto, TypeOK
    <3> QED BY <3>1, <3>2, LogKept
  <2>2. ASSUME NEW e \in Emission, EmitUsage(e) \/ EmitFails(e)
        PROVE  Log!Next \/ UNCHANGED Log!vars
    BY <2>1, <2>2, LogSend, LogLetGo, LogTake DEF EmitUsage, EmitFails
  <2>3. CASE Restart
    BY <2>3, LogGiveUp
  <2>4. CASE UNCHANGED vars
    BY <2>4, LogKept DEF vars
  <2> QED BY <2>2, <2>3, <2>4 DEF Next
<1> QED BY <1>1, <1>2, Invariance, PTL DEF Spec, Log!Spec
=============================================================================
