------------------------------ MODULE Telemetry ------------------------------
(***************************************************************************)
(* Observability of one deployed workflow: the recorder (src-tauri         *)
(* observability), the batch writer it hands its records to                *)
(* (crates/store batch.rs), and the summary of a trace that a query makes  *)
(* from the records in the database.                                       *)
(*                                                                         *)
(* Records are numbered in the order of their timestamps.                  *)
(***************************************************************************)
EXTENDS Naturals, Sequences, FiniteSets

CONSTANTS
  Stages,       \* nodes of the workflow; one trace passes through them
  RecordBound,  \* bound: records of the trace
  ChannelCap,   \* capacity of the channel of the batch writer
  FlushCap,     \* records that trigger a flush
  QueryLimit    \* records a query reads at most

ASSUME TelemetryAssumption ==
  RecordBound \in Nat /\ {ChannelCap, FlushCap, QueryLimit} \subseteq Nat \ {0}

VARIABLES
  records,   \* history: what was recorded, in order
  spans,     \* active_spans: stages that started
  writerQ,   \* the channel of the writer, by record number
  buffer,    \* what the flush task has taken
  flusher,   \* "select", "pausing" after a flush by size, "over"
  writerUp,  \* the writer is alive: its channel has a sender
  table,     \* observability_records, by record number
  dropped,   \* dropped_count
  unlogged   \* history: records refused by the channel or lost with a batch

telVars == <<records, spans, writerQ, buffer, flusher, writerUp, table, dropped, unlogged>>

Elements(s) == {s[i] : i \in 1..Len(s)}
AddRecord(kind, stage) == records' = Append(records, [kind |-> kind, stage |-> stage])
Outcome == {"completed", "failed"}

\* enqueue never waits: a full channel drops the record and counts it.
Enqueue ==
  LET n == Len(records) + 1
  IN IF Len(writerQ) < ChannelCap
     THEN writerQ' = Append(writerQ, n) /\ UNCHANGED <<dropped, unlogged>>
     ELSE dropped' = dropped + 1 /\ unlogged' = unlogged \cup {n} /\ UNCHANGED writerQ

-----------------------------------------------------------------------------
(* record_execution_event, called by the event forwarder; record_audit.    *)

RecordStarted(s) ==
  /\ writerUp /\ Len(records) < RecordBound
  /\ spans' = spans \cup {s} /\ AddRecord("started", s) /\ Enqueue
  /\ UNCHANGED <<buffer, flusher, writerUp, table>>

\* Completed and Failed end the span of the stage.
RecordOutcome(s, o) ==
  /\ writerUp /\ Len(records) < RecordBound /\ s \in spans
  /\ spans' = spans \ {s} /\ AddRecord(o, s) /\ Enqueue
  /\ UNCHANGED <<buffer, flusher, writerUp, table>>

\* record_result, record_audit
RecordOther ==
  /\ writerUp /\ Len(records) < RecordBound
  /\ \E kind \in {"result", "audit"} : AddRecord(kind, "workflow")
  /\ Enqueue
  /\ UNCHANGED <<spans, buffer, flusher, writerUp, table>>

-----------------------------------------------------------------------------
(* background_flush_task                                                   *)

\* The rows of a batch are inserted in one transaction.
InsertBatch(batch) == table' = table \cup Elements(batch)

\* do_flush: a batch that fails is dropped as a whole.
Flush(batch) ==
  /\ buffer' = <<>>
  /\ \/ InsertBatch(batch) /\ UNCHANGED <<dropped, unlogged>>
     \/ /\ dropped' = dropped + Len(batch) /\ unlogged' = unlogged \cup Elements(batch)
        /\ UNCHANGED table

\* Receiving comes first (biased); a flush by size then waits for a tick,
\* during which nothing is received.
FlusherReceives ==
  /\ flusher = "select" /\ writerQ # <<>>
  /\ writerQ' = Tail(writerQ)
  /\ LET taken == Append(buffer, Head(writerQ))
     IN IF Len(taken) >= FlushCap
        THEN Flush(taken) /\ flusher' = "pausing"
        ELSE buffer' = taken /\ UNCHANGED <<flusher, table, dropped, unlogged>>
  /\ UNCHANGED <<records, spans, writerUp>>

\* The timer: it ends a pause, or flushes what is there.
Tick ==
  /\ \/ flusher = "pausing" /\ UNCHANGED <<buffer, table, dropped, unlogged>>
     \/ /\ flusher = "select" /\ writerQ = <<>> /\ writerUp /\ buffer # <<>>
        /\ Flush(buffer)
  /\ flusher' = "select"
  /\ UNCHANGED <<records, spans, writerQ, writerUp>>

\* Mutant: the task returns at once.
FinishWithoutFlush ==
  /\ flusher = "select" /\ writerQ = <<>> /\ ~writerUp
  /\ flusher' = "over"
  /\ UNCHANGED <<records, spans, writerQ, writerUp, buffer, table, dropped, unlogged>>

\* The channel is closed and empty: the rest is flushed.
FlusherFinishes ==
  /\ flusher = "select" /\ writerQ = <<>> /\ ~writerUp
  /\ flusher' = "over"
  /\ IF buffer = <<>> THEN UNCHANGED <<buffer, table, dropped, unlogged>> ELSE Flush(buffer)
  /\ UNCHANGED <<records, spans, writerQ, writerUp>>

\* shutdown: the sender is dropped, then the task is awaited.
ShutdownWriter ==
  /\ writerUp /\ writerUp' = FALSE
  /\ UNCHANGED <<records, spans, writerQ, buffer, flusher, table, dropped, unlogged>>

\* Drop, when the last handle of the recorder goes: the task is aborted, too.
DropWriter ==
  /\ writerUp /\ writerUp' = FALSE
  /\ flusher' = "aborted"
  /\ UNCHANGED <<records, spans, writerQ, buffer, table, dropped, unlogged>>

-----------------------------------------------------------------------------
(* A query of the trace: build_trace_summaries over the events among the   *)
(* records it reads, newest first.                                         *)

\* query_observability_records: the newest records, LIMIT counts all kinds.
Queried == {n \in table : Cardinality({m \in table : m > n}) < QueryLimit}

\* query_observability_from_store: audits are listed apart and never applied.
Events == {n \in Queried : records[n].kind # "audit"}

\* apply_entry: an error decides, else the first record applied.
ApplyEntry(status, n) ==
  IF records[n].kind = "failed" THEN "failed"
  ELSE IF status # "observed" THEN status
  ELSE IF records[n].kind = "completed" THEN "completed" ELSE "running"

\* The status when the events es, the newest first, have been applied.
Oldest(es) == CHOOSE n \in es : \A m \in es : n <= m
StatusAfter[es \in SUBSET Events] ==
  IF es = {} THEN "observed" ELSE ApplyEntry(StatusAfter[es \ {Oldest(es)}], Oldest(es))
TraceStatus == StatusAfter[Events]

-----------------------------------------------------------------------------
TelInit ==
  /\ records = <<>> /\ spans = {} /\ writerQ = <<>> /\ buffer = <<>> /\ flusher = "select" /\ writerUp = TRUE
  /\ table = {} /\ dropped = 0 /\ unlogged = {}

TelNext ==
  \/ \E s \in Stages : RecordStarted(s) \/ (\E o \in Outcome : RecordOutcome(s, o))
  \/ RecordOther \/ FlusherReceives \/ Tick \/ FlusherFinishes \/ ShutdownWriter \/ DropWriter

TelSpec == TelInit /\ [][TelNext]_telVars

-----------------------------------------------------------------------------
Pending == Elements(writerQ) \cup Elements(buffer)

\* Every record is in exactly one place: on its way, in the table, or counted
\* as dropped (batch.rs:68-76, 160-182).
RecordsAccounted ==
  /\ dropped = Cardinality(unlogged)
  /\ 1..Len(records) = Pending \cup table \cup unlogged
  /\ Len(writerQ) + Len(buffer) + Cardinality(table) + dropped = Len(records)

\* After an awaited shutdown nothing is on its way (batch.rs:78-85).
ShutdownFlushes == flusher = "over" => Pending = {}

\* A failure that was written shows in the summary, whatever the trace did
\* before or after it, until QueryLimit newer records of any kind push it out
\* of the query; without one the trace counts as completed only when its newest
\* event says so, whatever audits follow it (store.rs:360-420, 447-456).
FailureShows ==
  /\ (\E n \in table : /\ records[n].kind = "failed"
                       /\ Cardinality({m \in table : m > n}) < QueryLimit) <=> TraceStatus = "failed"
  /\ TraceStatus = "completed" =>
       \A n \in Events : (\A m \in Events : m <= n) => records[n].kind = "completed"

\* What the recorder handed over is written or dropped in the end: a burst by
\* its size, the rest by the timer (batch.rs:127-157).
RecordsReachTable == flusher = "select" /\ Pending # {} ~> Pending = {} \/ flusher = "aborted"

\* "Closes the channel; the task exits after draining" (batch.rs:89).
DropDrains == flusher = "aborted" => Pending = {}

\* Records are in a buffer, in the table or counted as lost, and a trace shows
\* its failure (store/src/batch.rs, observability).
RecordsSound ==
  /\ RecordsAccounted
  /\ ShutdownFlushes
  /\ FailureShows
=============================================================================
