------------------------------ MODULE Recorder ------------------------------
(***************************************************************************)
(* The metrics recorder: a bounded queue that calls put their rows on, the *)
(* task that writes them in batches over one database connection, and the  *)
(* shutdown that cancels the task and flushes what is left, while members  *)
(* left in the background may still record.                                *)
(*                                                                         *)
(* The rows are numbered in the order they are recorded.  `dropped` holds  *)
(* the rows the gateway counts as dropped, so that the counter it shows is *)
(* the size of it.  `cut` and `seen` are there for the properties: the     *)
(* rows a shutdown lost hold of without counting them, and the last row    *)
(* that its flush found on the queue.                                      *)
(***************************************************************************)
EXTENDS Integers, Sequences, FiniteSets, SequencesExt

CONSTANTS MaxSize,     \* the rows the queue holds
          Batch,       \* the rows of one write
          MaxRecords   \* bound: the rows that are recorded

ASSUME RecorderAssumption == MaxSize \in Nat \ {0} /\ Batch \in Nat \ {0} /\ MaxRecords \in Nat

VARIABLES recorded,   \* how many rows were recorded
          queue,
          batch,      \* in the hands of the task or of the flush
          writer,     \* "waiting", "executing", "committing", "sleeping" or "ended"
          stop,       \* "no", "cancelling", "executing", "committing", "flushed", "closed" or "failed"
          open,       \* written in a transaction that is not committed
          written,    \* committed
          dropped, cut,
          seen        \* history: how many rows were recorded when the flush took the queue

recorderVars == <<recorded, queue, batch, writer, stop, open, written, dropped, cut, seen>>
dbVars == <<open, written>>
lossVars == <<cut, seen>>

RecorderInit ==
    /\ recorded = 0 /\ queue = <<>> /\ batch = {}
    /\ writer = "waiting" /\ stop = "no"
    /\ open = {} /\ written = {} /\ dropped = {} /\ cut = {} /\ seen = 0

\* Called from any task and never awaited; a full queue drops the row.
Record ==
    /\ recorded < MaxRecords
    /\ recorded' = recorded + 1
    /\ IF Len(queue) < MaxSize
       THEN queue' = Append(queue, recorded') /\ UNCHANGED dropped
       ELSE dropped' = dropped \cup {recorded'} /\ UNCHANGED queue
    /\ UNCHANGED <<batch, writer, stop, lossVars, dbVars>>

(***************************************************************************)
(* The task                                                                *)
(***************************************************************************)
PullBatch ==
    /\ writer = "waiting" /\ stop = "no" /\ queue # <<>>
    /\ LET n == IF Len(queue) < Batch THEN Len(queue) ELSE Batch
       IN  batch' = Range(SubSeq(queue, 1, n)) /\ queue' = SubSeq(queue, n + 1, Len(queue))
    /\ writer' = "executing"
    /\ UNCHANGED <<recorded, stop, dropped, lossVars, dbVars>>

Execute ==
    /\ writer = "executing" /\ stop = "no"
    /\ writer' = "committing"
    /\ open' = open \cup batch
    /\ UNCHANGED <<recorded, queue, batch, stop, written, dropped, lossVars>>

Commit ==
    /\ writer = "committing" /\ stop = "no"
    /\ writer' = "waiting" /\ batch' = {}
    /\ written' = written \cup open /\ open' = {}
    /\ UNCHANGED <<recorded, queue, stop, dropped, lossVars>>

\* Mutant of InsertFails: the batch is dropped and not counted.
InsertFailsUncounted ==
    /\ writer \in {"executing", "committing"} /\ stop = "no"
    /\ writer' = "sleeping" /\ batch' = {}
    /\ UNCHANGED <<recorded, queue, stop, dropped, lossVars, dbVars>>

\* A statement raises.  What was executed stays in the transaction.
InsertFails ==
    /\ writer \in {"executing", "committing"} /\ stop = "no"
    /\ writer' = "sleeping" /\ batch' = {}
    /\ dropped' = dropped \cup batch
    /\ UNCHANGED <<recorded, queue, stop, lossVars, dbVars>>

\* Mutant of Resume: a failed insert ends the task.
ResumeDead ==
    /\ writer = "sleeping" /\ stop = "no"
    /\ writer' = "ended"
    /\ UNCHANGED <<recorded, queue, batch, stop, dropped, lossVars, dbVars>>

Resume ==
    /\ writer = "sleeping" /\ stop = "no"
    /\ writer' = "waiting"
    /\ UNCHANGED <<recorded, queue, batch, stop, dropped, lossVars, dbVars>>

(***************************************************************************)
(* The shutdown                                                            *)
(***************************************************************************)
Stop ==
    /\ stop = "no"
    /\ stop' = "cancelling"
    /\ UNCHANGED <<recorded, queue, batch, writer, dropped, lossVars, dbVars>>

\* The task ends where it is; the thread of the database may have run, or still
\* run, the statement it waited for.
TaskCancelled ==
    /\ stop = "cancelling" /\ writer # "ended"
    /\ writer' = "ended"
    /\ cut' = cut \cup batch /\ batch' = {}
    /\ \/ UNCHANGED dbVars
       \/ writer = "executing" /\ open' = open \cup batch /\ UNCHANGED written
       \/ writer = "committing" /\ written' = written \cup open /\ open' = {}
    /\ UNCHANGED <<recorded, queue, stop, dropped, seen>>

\* An empty flush writes nothing, and commits nothing.
Flush ==
    /\ stop = "cancelling" /\ writer = "ended"
    /\ batch' = Range(queue) /\ queue' = <<>>
    /\ stop' = IF queue = <<>> THEN "flushed" ELSE "executing"
    /\ seen' = recorded
    /\ UNCHANGED <<recorded, writer, dropped, cut, dbVars>>

FlushExecute ==
    /\ stop = "executing"
    /\ stop' = "committing"
    /\ open' = open \cup batch
    /\ UNCHANGED <<recorded, queue, batch, writer, written, dropped, lossVars>>

FlushCommit ==
    /\ stop = "committing"
    /\ stop' = "flushed" /\ batch' = {}
    /\ written' = written \cup open /\ open' = {}
    /\ UNCHANGED <<recorded, queue, writer, dropped, lossVars>>

\* Nobody catches it: what is closed after the recorder stays open.
FlushFails ==
    /\ stop \in {"executing", "committing"}
    /\ stop' = "failed"
    /\ cut' = cut \cup batch /\ batch' = {}
    /\ UNCHANGED <<recorded, queue, writer, dropped, seen, dbVars>>

\* Closing the connection rolls back what was not committed.
CloseStore ==
    /\ stop = "flushed"
    /\ stop' = "closed"
    /\ open' = {}
    /\ UNCHANGED <<recorded, queue, batch, writer, written, dropped, lossVars>>

Task == PullBatch \/ Execute \/ Commit \/ InsertFails \/ Resume
Closing == TaskCancelled \/ Flush \/ FlushExecute \/ FlushCommit \/ FlushFails \/ CloseStore
RecorderNext == Record \/ Task \/ Stop \/ Closing

RecorderSpec == RecorderInit /\ [][RecorderNext]_recorderVars
\* The loop runs the task and the coroutine of the shutdown; a shutdown need
\* not begin.
RecorderFairSpec == RecorderSpec /\ WF_recorderVars(Task) /\ WF_recorderVars(Closing)

(***************************************************************************)
(* Properties                                                              *)
(***************************************************************************)
RecorderTypeOK ==
    /\ recorded \in 0..MaxRecords
    /\ queue \in Seq(1..recorded) /\ Len(queue) <= MaxSize
    /\ writer \in {"waiting", "executing", "committing", "sleeping", "ended"}
    /\ stop \in {"no", "cancelling", "executing", "committing", "flushed", "closed", "failed"}
    /\ \A s \in {batch, open, written, dropped, cut} : s \subseteq 1..recorded
    /\ seen \in 0..recorded

\* What is still read from the queue, by the task or by the flush to come, and
\* what came after the flush, when nobody reads it any more.
Waiting == IF stop \in {"no", "cancelling"} THEN Range(queue) ELSE {}
Late    == IF stop \in {"no", "cancelling"} THEN {} ELSE (seen + 1)..recorded

\* Every row that was ever recorded will be read from the queue, is being
\* written, is written or is counted as dropped, however writes fail.  Only a
\* shutdown loses rows unsaid: the one batch it interrupts; those of its flush, a
\* queue of them at most, if that fails, which leaves the store open; and those
\* a detached call records after the flush took the queue, of which the queue
\* holds what it can and nobody reads it (store/metrics.py:350, 376, 384).
Accounted ==
    /\ 1..recorded \subseteq Waiting \cup batch \cup written \cup dropped \cup cut \cup Late
    /\ Late \subseteq Range(queue) \cup dropped
    /\ cut # {} => stop # "no"
    /\ stop \in {"flushed", "closed"} => batch = {} /\ Cardinality(cut) <= Batch
    /\ stop = "failed" => batch = {} /\ Cardinality(cut) <= Batch + MaxSize

\* A failing database does not stop the writing: a row does not stay on the
\* queue of a gateway that runs, and a shutdown that begins comes to its end
\* (store/metrics.py:357).
QueueDrains ==
    /\ \A m \in 1..MaxRecords : m \in Range(queue) /\ stop = "no" ~> m \notin Range(queue) \/ stop # "no"
    /\ stop = "cancelling" ~> stop \in {"closed", "failed"}

(***************************************************************************)
(* The inductive invariant behind Accounted                                *)
(***************************************************************************)
\* Who holds the batch, the task or the flush; a batch about to be committed is
\* in the open transaction; and only an interrupted batch was cut, once,
\* and then a flush that failed.
Handed ==
    /\ stop = "no" => writer # "ended"
    /\ stop \notin {"no", "cancelling"} => writer = "ended"
    /\ stop \in {"no", "cancelling"} /\ writer \notin {"executing", "committing"} => batch = {}
    /\ stop \in {"flushed", "closed", "failed"} => batch = {}
    /\ stop = "no" /\ writer = "committing" => batch \subseteq open
    /\ stop = "committing" => batch \subseteq open
    /\ writer # "ended" => cut = {} /\ IsFiniteSet(batch) /\ Cardinality(batch) <= Batch
    /\ IsFiniteSet(cut) /\ (stop # "failed" => Cardinality(cut) <= Batch)
    /\ stop \in {"executing", "committing"} => IsFiniteSet(batch) /\ Cardinality(batch) <= MaxSize

RecorderInv == RecorderTypeOK /\ Handed /\ Accounted
=============================================================================
