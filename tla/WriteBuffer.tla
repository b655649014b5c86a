----------------------------- MODULE WriteBuffer -----------------------------
(***************************************************************************)
(* The write side of StorageBuffer with its BatchWriteScope                *)
(* (storage/_write_cache.py) over a borrowed buffer backend                *)
(* (InMemoryCacheBackend.append, read_batch and ack, storage/_cache.py).   *)
(* Admissions go one at a time; a writer task takes batches off the        *)
(* admitted prefix, writes them to the source and acknowledges them; flush *)
(* and close wait for it.  Every call of the backend and of the source may *)
(* fail, with or without its effect, and every waiting caller may be       *)
(* cancelled.  Entries are numbered in the order of their submission.      *)
(***************************************************************************)
EXTENDS Integers, Sequences, FiniteSets, SequencesExt

CONSTANTS
    MaxEntries, \* bound: submissions
    BatchSize,  \* batch_size
    Capacity,   \* entries the backend holds, in flight included
    MaxFaults   \* bound: failing calls

VARIABLES
    queue,     \* the entries the backend holds for this scope
    submit,    \* the admission under way: "idle", "append" or "landed"
    submitted, \* the number of its entry
    accepted,  \* _accepted, as the sequence of entries
    confirmed, unconfirmed, settled, \* the counters of the scope
    accepting, stopping,  \* _accepting and _stop_requested
    broken,    \* _backend_failure is set
    unknown,   \* _unknown_ids
    failed,    \* _failure of the StorageBuffer is set
    writer,    \* where the writer task is
    batch,     \* what it has read
    source,    \* the entries the source has, in the order it got them
    flush,     \* a flush: "idle", "waiting", "ok" or "error"
    target,    \* the entries it waits for
    close,     \* "open", "draining", "clearing", "closed" or "failed"
    faults     \* failures so far

counters == <<confirmed, unconfirmed, settled>>
flags == <<accepting, stopping, broken>>
submitVars == <<submit, submitted>>
writerVars == <<writer, batch, source>>
flushVars == <<flush, target>>
vars == <<queue, submitVars, accepted, counters, flags, unknown, failed, writerVars,
          flushVars, close, faults>>

Init ==
    /\ queue = <<>> /\ accepted = <<>> /\ batch = <<>> /\ source = <<>>
    /\ submit = "idle" /\ submitted = 0
    /\ confirmed = 0 /\ unconfirmed = 0 /\ settled = 0
    /\ accepting = TRUE /\ stopping = FALSE /\ broken = FALSE /\ failed = FALSE
    /\ unknown = {}
    /\ writer = "none"
    /\ flush = "idle" /\ target = 0
    /\ close = "open"
    /\ faults = 0

Min2(a, b) == IF a < b THEN a ELSE b
Pending == Len(accepted) - settled

Fault == faults < MaxFaults /\ faults' = faults + 1

\* _backend_failed.
Break ==
    /\ broken' = TRUE
    /\ stopping' = TRUE
    /\ accepting' = FALSE

-----------------------------------------------------------------------------
(* Submission. *)

BeginSubmit ==
    /\ submit = "idle" /\ accepting /\ submitted < MaxEntries
    /\ submit' = "append"
    /\ submitted' = submitted + 1
    /\ UNCHANGED <<queue, accepted, counters, flags, unknown, failed, writerVars, flushVars,
                   close, faults>>

\* The backend takes the entry if it has room; the reply is still to come.  An
\* append that was cancelled before this publishes nothing.
Land ==
    /\ submit = "append" /\ accepting /\ Len(queue) < Capacity
    /\ queue' = Append(queue, submitted)
    /\ submit' = "landed"
    /\ UNCHANGED <<submitted, accepted, counters, flags, unknown, failed, writerVars, flushVars,
                   close, faults>>

\* The reply: the entry is accepted and the writer is there to take it.  A
\* caller cancelled in the meantime does not change that.
Accept ==
    /\ submit = "landed"
    /\ submit' = "idle"
    /\ accepted' = Append(accepted, submitted)
    /\ writer' = IF writer = "none" THEN "waiting" ELSE writer
    /\ UNCHANGED <<queue, submitted, counters, flags, unknown, failed, batch, source, flushVars,
                   close, faults>>

\* The backend is full and the caller does not wait, or the caller or close
\* cancels the append before it lands.
Withdraw ==
    /\ submit = "append"
    /\ submit' = "idle"
    /\ UNCHANGED <<queue, submitted, accepted, counters, flags, unknown, failed, writerVars,
                   flushVars, close, faults>>

\* The append fails: whether the entry landed stays unknown.
AppendFails ==
    /\ submit \in {"append", "landed"}
    /\ Fault
    /\ submit' = "idle"
    /\ unknown' = unknown \cup {submitted}
    /\ Break
    /\ UNCHANGED <<queue, submitted, accepted, counters, failed, writerVars, flushVars, close>>

-----------------------------------------------------------------------------
(* The writer: _run. *)

\* A batch is due by its size, its age or a flush; age makes any entry due.
StartBatch ==
    /\ writer = "waiting" /\ ~stopping /\ Pending > 0
    /\ writer' = "reading"
    /\ UNCHANGED <<queue, submitVars, accepted, counters, flags, unknown, failed, batch, source,
                   flushVars, close, faults>>

\* As StopWriter, but an idle writer stays when admission ends.
StopWriterOnRequest ==
    /\ writer = "waiting" /\ stopping
    /\ writer' = "done"
    /\ UNCHANGED <<queue, submitVars, accepted, counters, flags, unknown, failed, batch, source,
                   flushVars, close, faults>>

StopWriter ==
    /\ writer = "waiting"
    /\ stopping \/ (Pending = 0 /\ ~accepting)
    /\ writer' = "done"
    /\ UNCHANGED <<queue, submitVars, accepted, counters, flags, unknown, failed, batch, source,
                   flushVars, close, faults>>

\* Only the confirmed admissions are taken, although the queue may already
\* hold an entry whose reply is pending.
ReadBatch ==
    /\ writer = "reading"
    /\ LET limit == Min2(Pending, BatchSize)
           prefix == SubSeq(queue, 1, Min2(limit, Len(queue)))
       IN IF prefix = <<>>
          THEN Break /\ writer' = "done" /\ UNCHANGED batch
          ELSE /\ writer' = IF stopping THEN "done" ELSE "writing"
               /\ batch' = IF stopping THEN batch ELSE prefix
               /\ UNCHANGED flags
    /\ UNCHANGED <<queue, submitVars, accepted, counters, unknown, failed, source, flushVars,
                   close, faults>>

ReadFails ==
    /\ writer = "reading"
    /\ Fault
    /\ Break
    /\ writer' = "done"
    /\ UNCHANGED <<queue, submitVars, accepted, counters, unknown, failed, batch, source,
                   flushVars, close>>

\* The source takes the batch.
WriteOk ==
    /\ writer = "writing" /\ ~failed
    /\ source' = source \o batch
    /\ confirmed' = confirmed + Len(batch)
    /\ writer' = "acking"
    /\ UNCHANGED <<queue, submitVars, accepted, unconfirmed, settled, flags, unknown, failed,
                   batch, flushVars, close, faults>>

\* As WriteFails, but the batch stays due and is written again.
WriteAgain ==
    /\ writer = "writing" /\ ~failed
    /\ Fault
    /\ source' \in {source, source \o batch}
    /\ writer' = "waiting"
    /\ UNCHANGED <<queue, submitVars, accepted, counters, flags, unknown, failed, batch,
                   flushVars, close>>

\* The write fails, is cancelled or times out, with or without effect: the
\* buffer fails for good (_fail), and later batches fail without a write.
WriteFails ==
    /\ writer = "writing"
    /\ \/ /\ ~failed /\ source' \in {source, source \o batch}
          /\ IF stopping THEN UNCHANGED faults ELSE Fault
       \/ failed /\ UNCHANGED <<source, faults>>
    /\ failed' = TRUE
    /\ accepting' = FALSE
    /\ unconfirmed' = unconfirmed + Len(batch)
    /\ writer' = "acking"
    /\ UNCHANGED <<queue, submitVars, accepted, confirmed, settled, stopping, broken, unknown,
                   batch, flushVars, close>>

\* ack, of a batch that read_batch took: entries leave the backend by acks alone,
\* so the batch is still the front of the queue (BatchInFront of the proofs).
Remaining(q, b) == SubSeq(q, Len(b) + 1, Len(q))

\* _ack, repeated until it succeeds; then the batch is settled.
Ack ==
    /\ writer = "acking"
    /\ queue' = Remaining(queue, batch)
    /\ settled' = settled + Len(batch)
    /\ writer' = "waiting"
    /\ UNCHANGED <<submitVars, accepted, confirmed, unconfirmed, flags, unknown, failed, batch,
                   source, flushVars, close, faults>>

AckFails ==
    /\ writer = "acking"
    /\ Fault
    /\ queue' \in {queue, Remaining(queue, batch)}
    /\ Break
    /\ writer' = "done"
    /\ UNCHANGED <<submitVars, accepted, counters, unknown, failed, batch, source, flushVars,
                   close>>

-----------------------------------------------------------------------------
(* flush and close. *)

BeginFlush ==
    /\ flush # "waiting"
    /\ flush' = "waiting"
    /\ target' = Len(accepted)
    /\ UNCHANGED <<queue, submitVars, accepted, counters, flags, unknown, failed, writerVars,
                   close, faults>>

\* As EndFlush, but the settled count is all that is looked at.
EndFlushSettled ==
    /\ flush = "waiting"
    /\ broken \/ settled >= target
    /\ flush' = IF broken THEN "error" ELSE "ok"
    /\ UNCHANGED <<queue, submitVars, accepted, counters, flags, unknown, failed, writerVars,
                   target, close, faults>>

\* _wait_resolved and _check_settlement.
EndFlush ==
    /\ flush = "waiting"
    /\ broken \/ settled >= target
    /\ flush' = IF broken \/ failed \/ unconfirmed > 0 THEN "error" ELSE "ok"
    /\ failed' = (failed \/ broken \/ unconfirmed > 0)
    /\ accepting' = (accepting /\ ~failed')
    /\ UNCHANGED <<queue, submitVars, accepted, counters, stopping, broken, unknown, writerVars,
                   target, close, faults>>

BeginClose ==
    /\ close = "open"
    /\ close' = "draining"
    /\ accepting' = FALSE
    /\ UNCHANGED <<queue, submitVars, accepted, counters, stopping, broken, unknown, failed,
                   writerVars, flushVars, faults>>

\* The deadline: the writer is cancelled.  A write under way is cancelled and
\* waited for; an acknowledgement may have had its effect.
CloseTimesOut ==
    /\ close = "draining" /\ submit = "idle" /\ ~stopping
    /\ writer \in {"waiting", "reading", "writing", "acking"}
    /\ stopping' = TRUE
    /\ writer' = IF writer = "writing" THEN writer ELSE "done"
    /\ queue' \in {queue} \cup IF writer = "acking" THEN {Remaining(queue, batch)} ELSE {}
    /\ UNCHANGED <<submitVars, accepted, counters, accepting, broken, unknown, failed,
                   batch, source, flushVars, close, faults>>

Drained ==
    /\ close = "draining" /\ submit = "idle" /\ writer \in {"none", "done"}
    /\ close' = "clearing"
    /\ UNCHANGED <<queue, submitVars, accepted, counters, flags, unknown, failed, writerVars,
                   flushVars, faults>>

\* What is left in the backend is released batch by batch; an entry of unknown
\* admission is now known to have been there.
Clear ==
    LET rest == SubSeq(queue, 1, Min2(BatchSize, Len(queue)))
        found == SetToSeq(ToSet(rest) \cap unknown)
    IN /\ close = "clearing" /\ queue # <<>>
       /\ queue' = Remaining(queue, rest)
       /\ accepted' = accepted \o found
       /\ unconfirmed' = unconfirmed + Len(found)
       /\ unknown' = unknown \ ToSet(found)
       /\ UNCHANGED <<submitVars, confirmed, settled, flags, failed, writerVars, flushVars,
                      close, faults>>

ClearFails ==
    /\ close = "clearing"
    /\ Fault
    /\ Break
    /\ close' = "failed"
    /\ UNCHANGED <<queue, submitVars, accepted, counters, unknown, failed, writerVars, flushVars>>

\* Whatever has no verdict yet is unconfirmed, and everything is settled.
Closed ==
    /\ close = "clearing" /\ queue = <<>>
    /\ unconfirmed' = Len(accepted) - confirmed
    /\ settled' = Len(accepted)
    /\ close' = "closed"
    /\ failed' = (failed \/ unconfirmed' > 0)
    /\ UNCHANGED <<queue, submitVars, accepted, confirmed, flags, unknown, writerVars, flushVars,
                   faults>>

SubmitReturns == Accept \/ (submit = "append" /\ ~accepting /\ Withdraw)
WriterStep == StartBatch \/ StopWriter \/ ReadBatch \/ WriteOk \/ WriteFails \/ Ack
CloseStep == Drained \/ Clear \/ Closed

Next ==
    \/ BeginSubmit \/ Land \/ Accept \/ Withdraw \/ AppendFails
    \/ StartBatch \/ StopWriter \/ ReadBatch \/ ReadFails \/ WriteOk \/ WriteFails
    \/ Ack \/ AckFails
    \/ BeginFlush \/ EndFlush
    \/ BeginClose \/ CloseTimesOut \/ Drained \/ Clear \/ ClearFails \/ Closed

Spec == Init /\ [][Next]_vars

\* Tasks run, and calls of the backend and the source end.
Fairness ==
    WF_vars(SubmitReturns) /\ WF_vars(WriterStep) /\ WF_vars(EndFlush) /\ WF_vars(CloseStep)

FairSpec == Spec /\ Fairness

-----------------------------------------------------------------------------
(* Properties. *)

Entries == 1..MaxEntries

\* Every variable has its type.
TypeOK ==
    /\ queue \in Seq(Entries) /\ accepted \in Seq(Entries)
    /\ batch \in Seq(Entries) /\ source \in Seq(Entries)
    /\ submit \in {"idle", "append", "landed"} /\ submitted \in 0..MaxEntries
    /\ confirmed \in 0..MaxEntries /\ unconfirmed \in 0..MaxEntries /\ settled \in 0..MaxEntries
    /\ accepting \in BOOLEAN /\ stopping \in BOOLEAN /\ broken \in BOOLEAN /\ failed \in BOOLEAN
    /\ unknown \subseteq Entries
    /\ writer \in {"none", "waiting", "reading", "writing", "acking", "done"}
    /\ flush \in {"idle", "waiting", "ok", "error"} /\ target \in 0..MaxEntries
    /\ close \in {"open", "draining", "clearing", "closed", "failed"}
    /\ faults \in 0..MaxFaults

\* The source gets every entry at most once, in the order of admission, and
\* only entries whose admission was confirmed.
DeliveredInOrder ==
    /\ \A i, j \in DOMAIN source : i < j => source[i] < source[j]
    /\ ToSet(source) \subseteq ToSet(accepted)

\* Every accepted entry is counted once, and after close none is left in the
\* backend or without a verdict.
Accounted ==
    /\ confirmed + unconfirmed <= Len(accepted) /\ settled <= Len(accepted)
    /\ confirmed <= Len(source)
    /\ close = "closed" => queue = <<>> /\ confirmed + unconfirmed = Len(accepted)

\* As long as the backend answers and the writer runs, the queue holds the
\* accepted entries that are not settled, and at most the entry whose reply is
\* pending.
QueueIsUnsettled ==
    ~broken /\ ~stopping /\ close \in {"open", "draining"} =>
        queue = SubSeq(accepted, settled + 1, Len(accepted))
                \o (IF submit = "landed" THEN <<submitted>> ELSE <<>>)

\* Whatever fails on the way, entries are delivered in order and accounted for.
BufferInv == TypeOK /\ DeliveredInOrder /\ Accounted /\ QueueIsUnsettled

\* A flush that returns is a receipt: the source has every entry accepted
\* before the flush began, whatever failed or closed in the meantime.
FlushIsReceipt ==
    flush = "ok" => \A i \in 1..target : accepted[i] \in ToSet(source)

\* Every flush comes to an end, and so reports a failed write.
FlushEnds == flush = "waiting" ~> flush # "waiting"

\* close ends: admissions, the writer and the queue are drained.
CloseEnds == close = "draining" ~> close \in {"closed", "failed"}

=============================================================================
