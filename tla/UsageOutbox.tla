---------------------------- MODULE UsageOutbox ----------------------------
(* Billable usage events on their way to the usage stream:                 *)
(* V1Store.emit_usage and _xadd_usage_event (src/app/services/v1_store.py) *)
(* and the SQLite outbox behind them (src/app/services/outbox.py).         *)
(*                                                                         *)
(* One gateway process runs every emission as a coroutine of one event     *)
(* loop thread, so a step here is what runs between two awaits. The outbox *)
(* takes a threading.Lock: a coroutine that finds it taken blocks the      *)
(* thread, and with it the coroutine that would release it.                *)
(*                                                                         *)
(* The gateway only ever appends to the stream. What becomes of an entry   *)
(* there is Redis' and billing's: each XADD asks Redis to keep about the   *)
(* last 1,000,000 entries (maxlen, approximate), so an entry that billing  *)
(* has not read by then is trimmed. The module counts the XADDs applied.   *)
EXTENDS Integers, Sequences, FiniteSets, Functions

CONSTANTS
    Emission    \* calls of emit_usage, each with an event_id of its own

ASSUME EmissionAssumption == IsFiniteSet(Emission)

VARIABLES
    pending,    \* rows of pending_events in id order, named by their emission
    sent,       \* copies of each event appended to the usage stream, later trimmed or not
    lock,       \* who holds outbox._lock (at most one)
    blocked,    \* who blocks the event loop thread on that lock
    at,         \* where each emission is
    rows,       \* the rows drain() selected and has still to flush
    (* history *)
    unacked,    \* XADDs applied whose success the process did not record
    backlog,    \* the rows that were pending when the emission began
    clean       \* emissions that met no failure

vars == <<pending, sent, lock, blocked, at, rows, unacked, backlog, clean>>

(* "ready": emit_usage called.  "flush": drain awaits the XADD of its next *)
(* row.  "flushed": the server has applied it.  "xadd", "xadded": likewise *)
(* for the emission's own event.  "done": returned, the event is in the    *)
(* stream or the outbox.  "lost": neither took it.                         *)
Active == {"ready", "flush", "flushed", "xadd", "xadded"}
At == Active \cup {"done", "lost", "dead"}

Init ==
    /\ pending = <<>>
    /\ sent = [e \in Emission |-> 0]
    /\ lock = {}
    /\ blocked = {}
    /\ at = [e \in Emission |-> "ready"]
    /\ rows = [e \in Emission |-> <<>>]
    /\ unacked = [e \in Emission |-> 0]
    /\ backlog = [e \in Emission |-> {}]
    /\ clean = Emission

Goto(e, p) == at' = [at EXCEPT ![e] = p]
LoopRuns == blocked = {}

(* `with _lock:` blocks the whole thread when another coroutine has it. *)
Wedge(e) ==
    /\ lock # {}
    /\ blocked' = {e}
    /\ UNCHANGED <<pending, sent, lock, at, rows, unacked, backlog, clean>>

----------------------------------------------------------------------------
(* Mutants *)

(* drain() deleting a row before it is flushed *)
DrainDeletesFirst(e) ==
    /\ at[e] = "ready"
    /\ LoopRuns
    /\ lock = {}
    /\ rows' = [rows EXCEPT ![e] = pending]
    /\ pending' = <<>>
    /\ backlog' = [backlog EXCEPT ![e] = Range(pending)]
    /\ IF pending = <<>>
       THEN lock' = lock /\ Goto(e, "xadd")
       ELSE lock' = {e} /\ Goto(e, "flush")
    /\ UNCHANGED <<sent, blocked, unacked, clean>>

(* drain() without the lock: two requests see and re-flush the same rows *)
DrainUnlocked(e) ==
    /\ at[e] = "ready"
    /\ LoopRuns
    /\ rows' = [rows EXCEPT ![e] = pending]
    /\ backlog' = [backlog EXCEPT ![e] = Range(pending)]
    /\ IF pending = <<>>
       THEN lock' = lock /\ Goto(e, "xadd")
       ELSE lock' = lock \cup {e} /\ Goto(e, "flush")
    /\ UNCHANGED <<pending, sent, blocked, unacked, clean>>

(* drain() stopping after its first row *)
AfterFirstRow(e, rest) == /\ lock' = {}
                          /\ Goto(e, "xadd")
                          /\ rows' = [rows EXCEPT ![e] = <<>>]

----------------------------------------------------------------------------
(* Outbox.drain *)

Drain(e) ==
    /\ at[e] = "ready"
    /\ LoopRuns
    /\ lock = {}
    /\ rows' = [rows EXCEPT ![e] = pending]
    /\ backlog' = [backlog EXCEPT ![e] = Range(pending)]
    /\ IF pending = <<>>
       THEN lock' = lock /\ Goto(e, "xadd")
       ELSE lock' = {e} /\ Goto(e, "flush")
    /\ UNCHANGED <<pending, sent, blocked, unacked, clean>>

(* SQLite cannot be read: logged, nothing is drained. *)
DrainFails(e) ==
    /\ at[e] = "ready"
    /\ LoopRuns
    /\ lock = {}
    /\ Goto(e, "xadd")
    /\ clean' = clean \ {e}
    /\ UNCHANGED <<pending, sent, lock, blocked, rows, unacked, backlog>>

DrainBlocks(e) == at[e] = "ready" /\ LoopRuns /\ Wedge(e)

(* The XADD of the oldest remaining row reaches the stream. *)
FlushApplied(e) ==
    /\ at[e] = "flush"
    /\ sent' = [sent EXCEPT ![Head(rows[e])] = @ + 1]
    /\ unacked' = [unacked EXCEPT ![Head(rows[e])] = @ + 1]
    /\ Goto(e, "flushed")
    /\ UNCHANGED <<pending, lock, blocked, rows, backlog, clean>>

(* The loop goes on with the next row, or leaves with the lock released. *)
AfterRow(e, rest) ==
    IF rest = <<>>
    THEN lock' = {} /\ Goto(e, "xadd") /\ rows' = [rows EXCEPT ![e] = <<>>]
    ELSE lock' = lock /\ Goto(e, "flush") /\ rows' = [rows EXCEPT ![e] = rest]

(* DELETE ... WHERE id = ?: ids are unique, so at most one row goes. *)
Deleted(table, row) ==
    LET i == CHOOSE i \in DOMAIN table : table[i] = row
    IN IF row \notin Range(table)
       THEN table
       ELSE SubSeq(table, 1, i - 1) \o SubSeq(table, i + 1, Len(table))

(* flush() returned True: the row is deleted. *)
FlushRecorded(e) ==
    /\ at[e] = "flushed"
    /\ LoopRuns
    /\ pending' = Deleted(pending, Head(rows[e]))
    /\ unacked' = [unacked EXCEPT ![Head(rows[e])] = @ - 1]
    /\ AfterRow(e, Tail(rows[e]))
    /\ UNCHANGED <<sent, blocked, backlog, clean>>

(* flush() returned False (its reply may be lost after it was applied), or *)
(* the DELETE raised: drain ends, the row stays.                           *)
FlushFails(e) ==
    /\ at[e] \in {"flush", "flushed"}
    /\ LoopRuns
    /\ AfterRow(e, <<>>)
    /\ clean' = clean \ {e}
    /\ UNCHANGED <<pending, sent, blocked, unacked, backlog>>

----------------------------------------------------------------------------
(* The emission's own event, and Outbox.write when it fails. *)

(* redis.xadd is applied; the trimming that maxlen asks for is Redis' own. *)
XaddApplied(e) ==
    /\ at[e] = "xadd"
    /\ sent' = [sent EXCEPT ![e] = @ + 1]
    /\ unacked' = [unacked EXCEPT ![e] = @ + 1]
    /\ Goto(e, "xadded")
    /\ UNCHANGED <<pending, lock, blocked, rows, backlog, clean>>

XaddRecorded(e) ==
    /\ at[e] = "xadded"
    /\ LoopRuns
    /\ unacked' = [unacked EXCEPT ![e] = @ - 1]
    /\ Goto(e, "done")
    /\ UNCHANGED <<pending, sent, lock, blocked, rows, backlog, clean>>

(* The INSERT follows the failed XADD without an await between them. *)
Write(e) ==
    /\ at[e] \in {"xadd", "xadded"}
    /\ LoopRuns
    /\ lock = {}
    /\ \/ pending' = Append(pending, e) /\ Goto(e, "done")
       \/ UNCHANGED pending /\ Goto(e, "lost")
    /\ clean' = clean \ {e}
    /\ UNCHANGED <<sent, lock, blocked, rows, unacked, backlog>>

WriteBlocks(e) == at[e] \in {"xadd", "xadded"} /\ LoopRuns /\ Wedge(e)

----------------------------------------------------------------------------
(* The process dies (a blocked one is killed when its health check fails)  *)
(* and starts again: the lock is fresh, the SQLite file is still there.    *)
Started(e) == at[e] \in Active \ {"ready"} \/ e \in blocked

Restart ==
    /\ \E e \in Emission : Started(e)
    /\ at' = [e \in Emission |-> IF Started(e) THEN "dead" ELSE at[e]]
    /\ lock' = {}
    /\ blocked' = {}
    /\ rows' = [e \in Emission |-> <<>>]
    /\ UNCHANGED <<pending, sent, unacked, backlog, clean>>

EmitUsage(e) ==
    \/ Drain(e) \/ DrainBlocks(e) \/ FlushApplied(e) \/ FlushRecorded(e)
    \/ XaddApplied(e) \/ XaddRecorded(e)

(* A failure of Redis or of SQLite. *)
EmitFails(e) == DrainFails(e) \/ FlushFails(e) \/ Write(e) \/ WriteBlocks(e)

Next == (\E e \in Emission : EmitUsage(e) \/ EmitFails(e)) \/ Restart

Spec == Init /\ [][Next]_vars

----------------------------------------------------------------------------
(* Properties *)

(* Rows, stream counts and positions are well formed; the lock has at most *)
(* one holder.                                                             *)
TypeOK ==
    /\ pending \in Seq(Emission)
    /\ sent \in [Emission -> Nat]
    /\ lock \in SUBSET Emission /\ Cardinality(lock) <= 1
    /\ blocked \in SUBSET Emission
    /\ at \in [Emission -> At]
    /\ rows \in [Emission -> Seq(Emission)]
    /\ unacked \in [Emission -> Nat]
    /\ backlog \in [Emission -> SUBSET Emission]
    /\ clean \in SUBSET Emission

(* emit_usage's promise: an event is "a delayed write instead of a         *)
(* permanently lost event". Once emit_usage has returned, its event has    *)
(* been appended to the stream or is in the outbox, across failures of the *)
(* stream, drains by other requests and restarts; only a failing outbox    *)
(* loses it. (How long the stream then keeps it is not the gateway's.)     *)
NoEventLost ==
    \A e \in Emission : at[e] = "done" => sent[e] > 0 \/ e \in Range(pending)

(* "Two concurrent requests draining at once can't both see and re-flush   *)
(* the same row": every copy of an event beyond the first comes from an    *)
(* XADD that was applied but whose success was never recorded.             *)
NoIdleDuplicate == \A e \in Emission : sent[e] <= 1 + unacked[e]

(* "Once Redis recovers, the very next successful call flushes the         *)
(* backlog": an emission that met no failure leaves none of the rows that  *)
(* were pending when it began.                                             *)
BacklogFlushed ==
    \A e \in clean : at[e] = "done" => backlog[e] \cap Range(pending) = {}

(* The module's own docstring: "a broken outbox (disk full, corrupt file)  *)
(* must not take the API down". So no emission ever stops the event loop.  *)
NeverWedged == blocked = {}
=============================================================================
