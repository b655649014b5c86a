----------------------------- MODULE LiveEvents -----------------------------
(***************************************************************************)
(* The event stream of an execution (execution/events.py).  Its events     *)
(* are durable once the producer commits them, but a reader in the         *)
(* producer's runtime gets them earlier, as provisional events, from the   *)
(* live broker.  DefaultEventService merges both: it replays what precedes *)
(* the producer, follows the broker, and falls back on the durable log     *)
(* when its queue overflows or the producer loses its claim.               *)
(*                                                                         *)
(* One execution and one reader, which may disconnect and come back with   *)
(* the last durable sequence number it has seen.  Other runtimes may       *)
(* request a cancel, take the execution over and finish it.                *)
(***************************************************************************)
EXTENDS Integers, Sequences, FiniteSets, FiniteSetsExt, SequencesExt

CONSTANTS
    QueueLimit,      \* _QUEUE_LIMIT
    MaxEvents,       \* bound: events, durable or not
    MaxDeltas,       \* bound: text deltas published
    MaxConnections   \* bound: streams the reader opens

VARIABLES
    log,      \* the durable events, each with the runtime that wrote it
    ended,    \* the last of them is a boundary event, the status a boundary status
    claim,    \* the runtime whose commits the source accepts, "here" or "there"
    created,  \* events so far, which are numbered
    deltas,   \* deltas so far
    worker,   \* the local producer; with a commit that is durable but not yet
              \* acknowledged, what was committed
    tail,     \* _pending_audit_events: published, not committed
    failure,  \* the worker's failure is on record
    broker,   \* LiveExecutionEventBroker, with the reader's subscription
    reader    \* the stream

vars == <<log, ended, claim, created, deltas, worker, tail, failure, broker, reader>>
sourceVars == <<log, ended, claim, created>>
producerVars == <<sourceVars, deltas, worker, tail, failure>>

\* What a queue holds besides event numbers.
Delta == 0
Replay == -1   \* _LiveReplayRequired
Discard == -2  \* _LiveReplayRequired with discard_uncommitted

Closed == [open |-> FALSE, queue |-> <<>>, replay |-> FALSE, completed |-> FALSE]
Event(by, id) == [by |-> by, id |-> id]

\* An execution that is new, or has a past.
Init ==
    /\ log \in {<<>>, <<Event("there", 1)>>}
    /\ ended = FALSE /\ claim = "here" /\ created = Len(log) /\ deltas = 0
    /\ worker = [stage |-> "none", count |-> 0, extra |-> 0, last |-> 0, end |-> FALSE]
    /\ tail = <<>> /\ failure = FALSE
    /\ broker = [base |-> -1, buffer |-> <<>>, seqOf |-> [e \in 1..MaxEvents |-> 0],
                 replay |-> FALSE, completed |-> FALSE, prepared |-> FALSE, sub |-> Closed]
    /\ reader = [phase |-> "idle", connections |-> 0, start |-> 0, after |-> 0,
                 cursor |-> 0, base |-> 0, aligning |-> FALSE, held |-> 0,
                 provisional |-> 0, skip |-> 0, late |-> FALSE,
                 acked |-> 0, delivered |-> {}, counted |-> FALSE]

-----------------------------------------------------------------------------
(* The broker: what each call makes of it. *)

HasDelta(q) == \E i \in DOMAIN q : q[i] = Delta
DropOldestDelta(q) == RemoveAt(q, CHOOSE i \in DOMAIN q :
    q[i] = Delta /\ \A j \in 1..(i - 1) : q[j] # Delta)

\* The oldest delta makes room; events are never dropped.
Fits(q) == Len(q) < QueueLimit \/ HasDelta(q)
Added(q, item) == Append(IF Len(q) < QueueLimit THEN q ELSE DropOldestDelta(q), item)

\* put_event and put_delta.
Put(s, item) ==
    IF ~s.open \/ s.replay THEN s
    ELSE IF Fits(s.queue) THEN [s EXCEPT !.queue = Added(@, item)]
    ELSE [s EXCEPT !.queue = <<Replay>>, !.replay = TRUE]

RequireReplay(s, marker) ==
    IF ~s.open \/ (s.replay /\ marker = Replay) THEN s
    ELSE [s EXCEPT !.queue = <<marker>>, !.replay = TRUE]

Finish(s) == IF s.open THEN [s EXCEPT !.completed = TRUE] ELSE s

Released(b) == [b EXCEPT !.base = -1, !.buffer = <<>>, !.replay = FALSE,
                         !.completed = FALSE, !.prepared = FALSE]

\* Event e with its durable sequence number, 0 for None.
PublishEvent(b, e, seq) ==
    IF b.base = -1 \/ b.replay THEN b
    ELSE IF Fits(b.buffer)
         THEN [b EXCEPT !.buffer = Added(@, e), !.seqOf[e] = seq, !.sub = Put(@, e)]
    ELSE [b EXCEPT !.replay = TRUE, !.buffer = <<>>, !.sub = RequireReplay(@, Replay)]

\* A delta, which may be merged with the one before it.
PublishDelta(b, merged) ==
    IF b.replay THEN b
    ELSE [b EXCEPT !.buffer = IF merged THEN @
                              ELSE IF Fits(@) THEN Added(@, Delta) ELSE @,
                   !.sub = Put(@, Delta)]

\* The first count events of the buffer without a number get numbers from first.
ConfirmEvents(b, first, count) ==
    LET Open(i) == b.buffer[i] # Delta /\ b.seqOf[b.buffer[i]] = 0
        Place(i) == Cardinality({j \in 1..i : Open(j)})
        Taken(e) == {i \in DOMAIN b.buffer : b.buffer[i] = e /\ Open(i) /\ Place(i) <= count}
    IN IF b.base = -1 \/ b.replay THEN b
       ELSE [b EXCEPT !.seqOf = [e \in DOMAIN @ |->
                IF Taken(e) # {} THEN first - 1 + Place(CHOOSE i \in Taken(e) : TRUE) ELSE @[e]]]

\* Streams end when they have read their queues; without any there is nobody
\* to keep the buffer for.
Complete(b) ==
    IF b.sub.open \/ b.prepared
    THEN [b EXCEPT !.completed = TRUE, !.sub = Finish(@)] ELSE Released(b)

Handoff(b) == Released([b EXCEPT !.sub = Finish(RequireReplay(@, Discard))])

\* As Subscribe, but what was published before is left to the log.
SubscribeFresh(b) ==
    [b EXCEPT !.prepared = FALSE,
              !.sub = [open |-> TRUE, queue |-> IF b.replay THEN <<Replay>> ELSE <<>>,
                       replay |-> b.replay, completed |-> b.completed]]

\* A new subscription gets what the buffer holds.
Subscribe(b) ==
    [b EXCEPT !.prepared = FALSE,
              !.sub = [open |-> TRUE, queue |-> IF b.replay THEN <<Replay>> ELSE b.buffer,
                       replay |-> b.replay, completed |-> b.completed]]

Close(b) ==
    LET c == [b EXCEPT !.sub = Closed] IN IF b.completed THEN Released(c) ELSE c

-----------------------------------------------------------------------------
(* The producer, and other runtimes. *)

More == created < MaxEvents

\* launch: register_local_producer, after prepare_local_producer or not.
Register(early) ==
    /\ worker.stage = "none" /\ claim = "here" /\ ~ended
    /\ worker' = [worker EXCEPT !.stage = "running"]
    /\ broker' = [broker EXCEPT !.base = Len(log), !.prepared = early]
    /\ UNCHANGED <<sourceVars, deltas, tail, failure, reader>>

\* _append_event.
AppendEvent ==
    /\ worker.stage = "running" /\ More
    /\ created' = created + 1
    /\ tail' = Append(tail, created')
    /\ broker' = PublishEvent(broker, created', 0)
    /\ UNCHANGED <<log, ended, claim, deltas, worker, failure, reader>>

StreamDelta ==
    /\ worker.stage = "running" /\ deltas < MaxDeltas
    /\ deltas' = deltas + 1
    /\ \E merged \in {FALSE} \cup {broker.buffer # <<>> /\ Last(broker.buffer) = Delta} :
          broker' = PublishDelta(broker, merged)
    /\ UNCHANGED <<sourceVars, worker, tail, failure, reader>>

\* A commit lands: the first count events of the tail, and perhaps an event of
\* its own.  The audit lock keeps further events back until it is acknowledged.
Land(count, own, end) ==
    LET events == SubSeq(tail, 1, count) \o (IF own THEN <<created + 1>> ELSE <<>>)
    IN /\ worker.stage = "running" /\ claim = "here" /\ ~ended
       /\ own => More
       /\ created' = IF own THEN created + 1 ELSE created
       /\ log' = log \o [i \in DOMAIN events |-> Event("here", events[i])]
       /\ ended' = end
       /\ worker' = [stage |-> "committed", count |-> count, last |-> Len(log'), end |-> end,
                     extra |-> IF own THEN created' ELSE 0]
       /\ UNCHANGED <<claim, deltas, tail, failure, broker, reader>>

\* promote_pending_execution makes the first event durable.
Promote == log = <<>> /\ tail # <<>> /\ Land(1, FALSE, FALSE)

\* The cancel, deferred, recovery and terminal checkpoints take the whole tail.
Checkpoint(end) == Land(Len(tail), TRUE, end)

\* The answer: _confirm_source_audits, _confirm_committed_events,
\* _publish_terminal_event, complete.
Acknowledge ==
    LET own == IF worker.extra = 0 THEN 0 ELSE 1
        confirmed == IF worker.count = 0 THEN broker
                     ELSE ConfirmEvents(broker, worker.last - own - worker.count + 1, worker.count)
        published == IF own = 0 THEN confirmed
                     ELSE PublishEvent(confirmed, worker.extra, worker.last)
    IN /\ worker.stage = "committed"
       /\ tail' = SubSeq(tail, worker.count + 1, Len(tail))
       /\ broker' = IF worker.end THEN Complete(published) ELSE published
       /\ worker' = [worker EXCEPT !.stage = IF worker.end THEN "over" ELSE "running"]
       /\ UNCHANGED <<sourceVars, deltas, failure, reader>>

Working == worker.stage \in {"running", "committed"}

\* The worker finds the execution finished: by its own commit, whose answer was
\* lost, or by another runtime.  It drops its tail, and publishes the event it
\* found (_publish_persisted_terminal_event) or, when it was cancelled or about
\* to commit itself, only completes (_task_done).
ReadBack(published) ==
    /\ Working /\ ended
    /\ tail' = <<>>
    /\ broker' = Complete(IF published THEN PublishEvent(broker, Last(log).id, Len(log))
                          ELSE broker)
    /\ worker' = [worker EXCEPT !.stage = "over"]
    /\ UNCHANGED <<sourceVars, deltas, failure, reader>>

\* _task_done of a worker that ended without an error and without a boundary:
\* after a deferred pause, or cancelled when the execution was FINALIZING.
WorkerLeaves ==
    /\ worker.stage = "running" /\ claim = "here" /\ log # <<>> /\ ~ended
    /\ worker' = [worker EXCEPT !.stage = "left"]
    /\ broker' = Complete(broker)
    /\ UNCHANGED <<sourceVars, deltas, tail, failure, reader>>

\* _task_done of a worker that failed: _record_worker_failure, complete.
WorkerFails ==
    /\ Working
    /\ failure' = TRUE
    /\ worker' = [worker EXCEPT !.stage = "over"]
    /\ broker' = Complete(broker)
    /\ UNCHANGED <<sourceVars, deltas, tail, reader>>

\* Another runtime commits: a cancel request, the resumption with which it
\* takes the execution over, and from then on anything.
CommitElsewhere(end, taken) ==
    /\ log # <<>> /\ ~ended /\ More
    /\ end => claim = "there"
    /\ created' = created + 1
    /\ log' = Append(log, Event("there", created'))
    /\ ended' = end
    /\ claim' = IF taken THEN "there" ELSE claim
    /\ UNCHANGED <<deltas, worker, tail, failure, broker, reader>>

\* _finish_revoked_worker, or a stopping runtime that gives its claim up.
LoseClaim ==
    /\ worker.stage = "running"
    /\ claim' = "there"
    /\ tail' = <<>>
    /\ worker' = [worker EXCEPT !.stage = "over"]
    /\ broker' = Handoff(broker)
    /\ UNCHANGED <<log, ended, created, deltas, failure, reader>>

-----------------------------------------------------------------------------
(* The reader. *)

\* Durable events i..j go to the consumer, which remembers the last number.
Deliver(r, i, j) ==
    [r EXCEPT !.delivered = @ \cup {log[k].id : k \in i..j}, !.acked = j, !.cursor = j]

AtEnd(r) == ended /\ r.cursor = Len(log)

\* _stream_with_live: subscribe, and remember what precedes the producer.
Attach(r) ==
    /\ broker' = Subscribe(broker)
    /\ reader' = [r EXCEPT !.phase = "prefix", !.after = r.cursor, !.base = broker.base,
                           !.provisional = 0]

\* stream: with the local producer if there is one, else with the log.
Connect(after) ==
    LET r == [reader EXCEPT !.phase = "durable", !.connections = @ + 1,
                            !.start = IF reader.connections = 0 THEN after ELSE @,
                            !.cursor = after, !.acked = after, !.skip = 0, !.late = TRUE]
    IN /\ reader.phase = "idle" /\ reader.connections < MaxConnections
       /\ after \in IF reader.connections = 0 THEN 0..Len(log) ELSE {reader.acked}
       /\ IF broker.base # -1 THEN Attach(r) ELSE reader' = r /\ UNCHANGED broker
       /\ UNCHANGED producerVars

\* The durable events that precede the producer.
Prefix ==
    /\ reader.phase = "prefix"
    /\ LET r == IF reader.cursor < reader.base
                THEN Deliver(reader, reader.cursor + 1, reader.base) ELSE reader
       IN reader' = [r EXCEPT !.phase = "live", !.aligning = reader.after > reader.base]
    /\ UNCHANGED <<producerVars, broker>>

\* The stream goes on with the broker, ends, or leaves the broker for the log,
\* where it will skip as many events as it has delivered provisionally.
GoOn(r, b) == reader' = [r EXCEPT !.phase = "live"] /\ broker' = b
Stop(r, b, phase) == reader' = [r EXCEPT !.phase = phase] /\ broker' = Close(b)
FallBack(r, b, skip) ==
    /\ reader' = [r EXCEPT !.phase = "durable", !.late = FALSE, !.skip = skip,
                           !.counted = @ \/ skip > 0]
    /\ broker' = Close(b)

\* _catch_up_live_gap: everything up to event e, whose number is seq.
CatchUp(r, b, e, seq) ==
    IF seq > Len(log) \/ log[seq].id # e THEN Stop(r, b, "corrupt")
    ELSE LET caught == [Deliver(r, r.cursor + 1, seq) EXCEPT
                            !.aligning = FALSE, !.provisional = 0]
         IN IF AtEnd(caught) THEN Stop(caught, b, "done") ELSE GoOn(caught, b)

\* An event with a number, while a resumed stream looks for its place.
Align(r, b, e, seq) ==
    IF seq > r.after THEN CatchUp(r, b, e, seq)
    ELSE IF ended /\ seq = Len(log) THEN Stop(r, b, "done")
    ELSE GoOn([r EXCEPT !.aligning = seq # r.after], b)

\* An event, in the order of the stream.  That the place of another runtime's
\* event was found by counting provisional ones is noted for the properties.
Placed(r, seq) ==
    IF seq # 0 /\ r.provisional > 0 /\ log[seq].by = "there" THEN [r EXCEPT !.counted = TRUE] ELSE r

Take(s, b, e, seq) ==
    LET expected == s.cursor + s.provisional + 1
        r == Placed(s, seq)
    IN CASE seq = 0 -> GoOn([r EXCEPT !.provisional = @ + 1, !.delivered = @ \cup {e}], b)
         [] seq # 0 /\ seq <= r.after ->
              IF ended /\ seq = Len(log) THEN Stop(r, b, "done") ELSE GoOn(r, b)
         [] seq > r.after /\ seq < expected -> Stop(r, b, "corrupt")
         [] seq > r.after /\ seq > expected -> CatchUp(r, b, e, seq)
         [] OTHER ->
              LET next == [Deliver(r, seq, seq) EXCEPT !.provisional = 0]
              IN IF AtEnd(next) THEN Stop(next, b, "done") ELSE GoOn(next, b)

\* The next item of the subscription.
NextItem ==
    /\ reader.phase = "live" /\ broker.sub.queue # <<>>
    /\ LET item == Head(broker.sub.queue)
           seq == broker.seqOf[item]
           b == [broker EXCEPT !.sub.queue = Tail(@)]
       IN CASE item = Discard -> FallBack(reader, b, 0)
            [] item = Replay -> FallBack(reader, b, reader.provisional)
            [] item = Delta -> GoOn(reader, b)
            [] item > 0 /\ reader.aligning ->
                 IF seq = 0 THEN /\ reader' = [reader EXCEPT !.phase = "held", !.held = item]
                                 /\ broker' = b
                 ELSE Align(reader, b, item, seq)
            [] OTHER -> Take(reader, b, item, seq)
    /\ UNCHANGED producerVars

\* A resumed stream waits for the number of the event it holds.
Held ==
    /\ reader.phase = "held"
    /\ LET seq == broker.seqOf[reader.held]
           r == [reader EXCEPT !.held = 0]
       IN \/ seq # 0 /\ Align(r, broker, reader.held, seq)
          \/ seq = 0 /\ (broker.sub.replay \/ broker.completed) /\ FallBack(r, broker, 0)
    /\ UNCHANGED producerVars

\* The queue is read and the producer has completed.
LiveEnds ==
    /\ reader.phase = "live" /\ broker.sub.queue = <<>> /\ broker.sub.completed
    /\ Stop(reader, broker, "settling")
    /\ UNCHANGED producerVars

Settle ==
    /\ reader.phase = "settling"
    /\ reader' = IF failure THEN [reader EXCEPT !.phase = "failed"]
                 ELSE IF ~ended THEN [reader EXCEPT !.phase = "unfinished"]
                 ELSE IF reader.cursor >= Len(log) THEN [reader EXCEPT !.phase = "done"]
                 ELSE [reader EXCEPT !.phase = "durable", !.late = FALSE,
                                     !.skip = reader.provisional,
                                     !.counted = @ \/ reader.provisional > 0]
    /\ UNCHANGED <<producerVars, broker>>

\* _stream_durable: a page; the first skip events of the stream are dropped.
Finished(r) == [r EXCEPT !.phase = IF r.skip = 0 THEN "done" ELSE "corrupt"]
Page ==
    /\ reader.phase = "durable"
    /\ IF reader.cursor = Len(log) THEN reader' = [reader EXCEPT !.phase = "status"]
       ELSE \E j \in (reader.cursor + 1)..Len(log) :
              LET dropped == Min({reader.skip, j - reader.cursor})
                  first == reader.cursor + dropped + 1
                  r == [IF first <= j THEN Deliver(reader, first, j)
                        ELSE [reader EXCEPT !.cursor = j]
                        EXCEPT !.skip = @ - dropped]
              IN reader' = IF AtEnd(r) THEN Finished(r) ELSE r
    /\ UNCHANGED <<producerVars, broker>>

\* An empty page: is the execution over, or is there a local producer now?
Status ==
    /\ reader.phase = "status"
    /\ IF failure THEN reader' = [reader EXCEPT !.phase = "failed"] /\ UNCHANGED broker
       ELSE IF ended /\ reader.cursor = Len(log) THEN reader' = Finished(reader) /\ UNCHANGED broker
       ELSE IF ~ended /\ broker.base # -1 /\ reader.late THEN Attach(reader)
       ELSE reader' = [reader EXCEPT !.phase = "durable"] /\ UNCHANGED broker
    /\ UNCHANGED producerVars

\* The consumer closes the stream, in whatever state it is.
Disconnect ==
    /\ reader.phase \notin {"idle", "done", "failed", "corrupt", "unfinished"}
    /\ Stop([reader EXCEPT !.held = 0], broker, "idle")
    /\ UNCHANGED producerVars

Next ==
    \/ \E early \in BOOLEAN : Register(early)
    \/ AppendEvent \/ StreamDelta \/ Promote \/ Acknowledge
    \/ \E published \in BOOLEAN : ReadBack(published)
    \/ WorkerLeaves \/ WorkerFails \/ LoseClaim
    \/ \E end \in BOOLEAN : Checkpoint(end)
    \/ \E end, taken \in BOOLEAN : CommitElsewhere(end, taken)
    \/ \E after \in 0..MaxEvents : Connect(after)
    \/ Prefix \/ NextItem \/ Held \/ LiveEnds \/ Settle \/ Page \/ Status \/ Disconnect

Spec == Init /\ [][Next]_vars

-----------------------------------------------------------------------------
TypeOK ==
    /\ \A i \in DOMAIN log : log[i].id \in 1..created /\ log[i].by \in {"here", "there"}
    /\ Len(broker.buffer) <= QueueLimit /\ Len(broker.sub.queue) <= QueueLimit
    /\ reader.acked <= reader.cursor /\ reader.cursor <= Len(log)

\* Delivery is at least once: the consumer has seen every durable event up to
\* the number it remembers, and all of them when the stream ends normally.
AtLeastOnce ==
    /\ \A i \in (reader.start + 1)..reader.acked : log[i].id \in reader.delivered
    /\ reader.phase = "done" =>
          \A i \in (reader.start + 1)..Len(log) : log[i].id \in reader.delivered

\* The stream never takes intact records for damaged ones.  It reports the
\* execution as unfinished, with the same error, only if its producer left it so.
NeverMistaken ==
    /\ reader.phase # "corrupt"
    /\ reader.phase = "unfinished" => worker.stage = "left"

\* A stream counts its provisional events to find its place: to skip durable
\* events it has delivered, or to place another runtime's event.  The count is
\* right only if no other runtime writes to the execution.
Miscounted == reader.counted /\ \E i \in DOMAIN log : i > 1 /\ log[i].by = "there"

\* A stream whose producer is gone is not left waiting for it.
Woken ==
    reader.phase = "live" /\ worker.stage \in {"over", "left"} =>
        broker.sub.queue # <<>> \/ broker.sub.completed

EventsInv == TypeOK /\ Woken /\ (Miscounted \/ (AtLeastOnce /\ NeverMistaken))

=============================================================================
