---------------------------- MODULE MCObservers ----------------------------
(***************************************************************************)
(* What readers see of work that goes on: observers of a session beside    *)
(* its turns, reads through a write buffer, the event stream of an         *)
(* execution.  The three modules share no state: the run explores one at a *)
(* time, and the variables of the others hold nothing.                     *)
(***************************************************************************)
EXTENDS MCSessionObserver, Integers

CONSTANTS
    Readers, NoReader, MaxAge, MaxClock, MaxValues,
    QueueLimit, MaxEvents, MaxDeltas, MaxConnections

\* max_age_seconds is checked to be positive.
ASSUME ReadsAssumption ==
    /\ NoReader \notin Readers
    /\ MaxAge \in Nat \ {0} /\ MaxClock \in Nat /\ MaxValues \in Nat \ {0}

\* Queues hold something: _QUEUE_LIMIT is a positive literal.
ASSUME StreamAssumption == QueueLimit \in Nat \ {0} /\ MaxEvents \in Nat \ {0}

VARIABLES
    subject,  \* the part that runs
    clock, last, own, stored, replaced, accepted, writing, failed, mutation,
    current, cleared, hot, lock, reads,
    log, ended, claim, created, deltas, worker, tail, recorded, broker, reader

Reads == INSTANCE BufferReads WITH pending <- accepted
Events == INSTANCE LiveEvents WITH failure <- recorded

sessionVars == <<vars, observerVars>>
readVars == <<clock, last, own, stored, replaced, accepted, writing, failed, mutation,
              current, cleared, hot, lock, reads>>
eventVars == <<log, ended, claim, created, deltas, worker, tail, recorded, broker, reader>>
allVars == <<subject, sessionVars, readVars, eventVars>>

NoSessions ==
    /\ attempt = 0 /\ owner = 0 /\ source = 0 /\ stage = 0 /\ scoped = 0 /\ expected = 0
    /\ listed = 0 /\ admitted = 0 /\ failure = 0 /\ uncertain = 0 /\ committing = 0
    /\ boundary = 0 /\ call = 0 /\ outstanding = 0 /\ error = 0 /\ tool = 0
    /\ moved = 0 /\ phase = 0 /\ session = 0 /\ row = 0 /\ pending = 0 /\ witness = 0

NoReads ==
    /\ clock = 0 /\ last = 0 /\ own = 0 /\ stored = 0 /\ replaced = 0 /\ accepted = 0
    /\ writing = 0 /\ failed = 0 /\ mutation = 0 /\ current = 0 /\ cleared = 0
    /\ hot = 0 /\ lock = 0 /\ reads = 0

NoEvents ==
    /\ log = 0 /\ ended = 0 /\ claim = 0 /\ created = 0 /\ deltas = 0
    /\ worker = 0 /\ tail = 0 /\ recorded = 0 /\ broker = 0 /\ reader = 0

ObserversInit ==
    \/ subject = "sessions" /\ MCInit /\ NoReads /\ NoEvents
    \/ subject = "reads" /\ Reads!Init /\ NoSessions /\ NoEvents
    \/ subject = "events" /\ Events!Init /\ NoSessions /\ NoReads

ObserversNext ==
    /\ UNCHANGED subject
    /\ \/ subject = "sessions" /\ MCNext /\ UNCHANGED <<readVars, eventVars>>
       \/ subject = "reads" /\ Reads!Next /\ UNCHANGED <<sessionVars, eventVars>>
       \/ subject = "events" /\ Events!Next /\ UNCHANGED <<sessionVars, readVars>>

ObserversSpec == ObserversInit /\ [][ObserversNext]_allVars

\* One request gives one durable execution, a reported failure is final, and a
\* session is active exactly while a promoted turn of it is unfinished.
OneExecution == subject = "sessions" => PendingInv

\* The history of a session is linear: each published turn was computed on
\* exactly the turns before it.
OneHistory == subject = "sessions" => LinearHistory

\* Once a turn is promoted the source has the outcome of its tool operation,
\* also one that came in while the promotion was uncertain.
ToolsKept == subject = "sessions" => ToolOutcomeKept

\* The negative answers of wait_inactive and lookup_session_admission were
\* true at one moment since they were asked.
NegativesTrue == subject = "sessions" => NegativesAtOnePoint

\* Reads through the buffer see their owner's writes, and one reader at a time
\* publishes to the cache.
OwnWritesRead == subject = "reads" => Reads!ReadsInv

\* A value that is not the buffer's own pending one was the value of the
\* source less than MaxAge before the read decided.
StalenessBounded == subject = "reads" => Reads!BoundedStaleness

\* An event stream delivers every durable event at least once, is not left
\* waiting for a producer that is gone, and takes nothing for damage, unless
\* it went by its count where another runtime wrote.
StreamComplete == subject = "events" => Events!EventsInv

=============================================================================
