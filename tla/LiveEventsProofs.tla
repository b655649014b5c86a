-------------------------- MODULE LiveEventsProofs --------------------------
(***************************************************************************)
(* The proof that a stream of LiveEvents delivers every durable event at   *)
(* least once, takes nothing for damage and is woken when its producer is  *)
(* gone.  The reader counts: a provisional event has no number, and the    *)
(* next number tells it whether what it counted is all there was in        *)
(* between.  The inductive invariant says what the counts stand for: the   *)
(* queue is the unread end of the buffer, the events the reader has        *)
(* counted are those it has read beyond its cursor, and in a log with one  *)
(* writer they are the next ones by number.                                *)
(*                                                                         *)
(* The invariant ends where a worker that has lost its claim publishes the *)
(* event with which another runtime finished the execution (Strayed): the  *)
(* buffer is then not what the worker wrote, and what a stream makes of it *)
(* is left to the model checker.                                           *)
(***************************************************************************)
EXTENDS LiveEvents, FiniteSetTheorems, FunctionTheorems, SequenceTheorems, WellFoundedInduction, TLAPS

\* What the proof asks of the constants.
Limits == QueueLimit \in Nat \ {0} /\ MaxEvents \in Nat \ {0}

-----------------------------------------------------------------------------
(* What the variables hold. *)

Stages == {"none", "running", "committed", "over", "left"}
Phases == {"idle", "prefix", "live", "held", "settling", "durable", "status",
           "done", "failed", "corrupt", "unfinished"}

Workers == [stage : Stages, count : Nat, extra : Nat, last : Nat, end : BOOLEAN]
Subscriptions == [open : BOOLEAN, queue : Seq(Int), replay : BOOLEAN, completed : BOOLEAN]
Brokers == [base : Int, buffer : Seq(Int), seqOf : [1..MaxEvents -> Nat], replay : BOOLEAN,
            completed : BOOLEAN, prepared : BOOLEAN, sub : Subscriptions]
Readers == [phase : Phases, connections : Nat, start : Nat, after : Nat, cursor : Nat,
            base : Int, aligning : BOOLEAN, held : Nat, provisional : Nat, skip : Nat,
            late : BOOLEAN, acked : Nat, delivered : SUBSET Nat, counted : BOOLEAN]

Types ==
    /\ log \in Seq([by : {"here", "there"}, id : Nat])
    /\ ended \in BOOLEAN /\ failure \in BOOLEAN
    /\ created \in 0..MaxEvents
    /\ worker \in Workers
    /\ tail \in Seq(Nat)
    /\ broker \in Brokers
    /\ reader \in Readers

-----------------------------------------------------------------------------
(* The source: the log and the tail of the local producer. *)

Committed == worker.stage = "committed"

\* The log has event e of the local producer at position i.
IsHere(e, i) == log[i].by = "here" /\ log[i].id = e

\* No other runtime has written after the first event.
Pure == \A i \in DOMAIN log : i > 1 => log[i].by = "here"

\* Event e comes after everything the local producer has in the log.
Later(e) == \A i \in DOMAIN log : log[i].by = "here" => log[i].id < e

\* The local producer's events are in the log in the order of their numbers.
LogSound ==
    /\ \A i \in DOMAIN log : log[i].id \in 1..created
    /\ \A i, j \in DOMAIN log :
          i < j /\ log[i].by = "here" /\ log[j].by = "here" => log[i].id < log[j].id

\* A commit that is not acknowledged: its own event, the position before it,
\* the events of the tail that have landed.
Own == IF worker.extra = 0 THEN 0 ELSE 1
From == worker.last - Own - worker.count
Landed == IF Committed THEN worker.count ELSE 0

TailSound ==
    /\ worker.stage = "none" => tail = <<>>
    /\ Working =>
         /\ \A k \in DOMAIN tail : tail[k] \in 1..created
         /\ \A k, l \in DOMAIN tail : k < l => tail[k] < tail[l]
         /\ \A k \in DOMAIN tail : k > Landed => Later(tail[k])

CommitSound ==
    Committed =>
      /\ worker.count <= Len(tail) /\ 0 <= From /\ worker.last <= Len(log)
      /\ \A k \in 1..worker.count : IsHere(tail[k], From + k)
      /\ worker.extra # 0 =>
           /\ worker.count = Len(tail) /\ worker.extra <= created
           /\ IsHere(worker.extra, worker.last)
      /\ worker.end => worker.extra # 0 /\ ended

\* With one writer the number of an event is its position.
Counted == Pure =>
    /\ \A i \in DOMAIN log : log[i].id = i
    /\ ended => created = Len(log)
    /\ worker.stage \in {"none", "running"} =>
         /\ created = Len(log) + Len(tail) /\ ~ended
         /\ \A k \in DOMAIN tail : tail[k] = Len(log) + k
    /\ Committed =>
         /\ worker.last = Len(log) /\ created = From + Len(tail) + Own
         /\ ended => worker.end
         /\ \A k \in DOMAIN tail : tail[k] = From + k

\* A local producer that goes on after the end was not the one that ended it,
\* or waits for the answer.
EndSound == Working /\ ended =>
    /\ log # <<>>
    /\ log[Len(log)].by = "there" \/ (Committed /\ worker.end /\ worker.last = Len(log))

SourceSound == LogSound /\ TailSound /\ CommitSound /\ Counted /\ EndSound

-----------------------------------------------------------------------------
(* The broker. *)

\* The events of a queue.
EventsOf(q) == {e \in 1..MaxEvents : \E i \in DOMAIN q : q[i] = e}
Increasing(q) == \A i, j \in DOMAIN q : i < j /\ q[i] > 0 /\ q[j] > 0 => q[i] < q[j]

Buffered == EventsOf(broker.buffer)

\* A number is the position of the event in the log.
Numbered == \A e \in 1..MaxEvents :
    broker.seqOf[e] # 0 => broker.seqOf[e] <= Len(log) /\ IsHere(e, broker.seqOf[e])

BufferSound ==
    /\ -1 <= broker.base /\ broker.base <= Len(log)
    /\ Len(broker.buffer) <= QueueLimit /\ Increasing(broker.buffer)
    /\ \A i \in DOMAIN broker.buffer : broker.buffer[i] \in 0..created
    /\ broker.base = -1 \/ broker.replay => broker.buffer = <<>>
    /\ \A e \in Buffered :
          (\E i \in DOMAIN log : i > broker.base /\ IsHere(e, i)) \/ Later(e)
    /\ Committed =>
          /\ broker.base <= From
          /\ worker.extra # 0 => \A e \in Buffered : e < worker.extra

\* What the buffer has without a number is the tail.
OpenSound == Working =>
    /\ \A e \in Buffered : broker.seqOf[e] = 0 => \E k \in DOMAIN tail : tail[k] = e
    /\ ~broker.replay => \A k \in DOMAIN tail : tail[k] \in Buffered /\ broker.seqOf[tail[k]] = 0

\* The last event that has been published.
Top == IF Committed THEN created - Own ELSE created

\* With one writer the buffer has every event since the base.
PureBuffer == Pure =>
    /\ \A e \in Buffered : e > broker.base /\ \A n \in (broker.base + 1)..e : n \in Buffered
    /\ Working /\ ~broker.replay => \A n \in (broker.base + 1)..Top : n \in Buffered

\* Whoever waits for the producer is told when it is over.
CompletionSound ==
    /\ worker.stage = "none" => broker.base = -1 /\ ~broker.replay /\ ~broker.sub.open
    /\ worker.stage \notin {"over", "left"} => ~broker.completed
    /\ Working => broker.base # -1
    /\ worker.stage \in {"over", "left"} /\ broker.base # -1 => broker.completed
    /\ worker.stage \in {"over", "left"} /\ broker.sub.open => broker.sub.completed
    /\ broker.completed => failure \/ ended \/ worker.stage = "left"
    /\ broker.sub.completed => failure \/ ended \/ worker.stage = "left" \/ broker.sub.queue = <<Discard>>

BrokerSound == Numbered /\ BufferSound /\ OpenSound /\ PureBuffer /\ CompletionSound

-----------------------------------------------------------------------------
(* The reader. *)

Queued == EventsOf(broker.sub.queue)
Read == Buffered \ Queued
Following == broker.sub.open /\ ~broker.sub.replay

\* What it has read and has not found in the log up to its cursor.
Ahead == {e \in Read : \A i \in 1..reader.cursor : ~IsHere(e, i)}

QueueSound ==
    /\ broker.sub.open <=> reader.phase \in {"prefix", "live", "held"}
    /\ Len(broker.sub.queue) <= QueueLimit
    /\ broker.sub.replay => broker.sub.queue \in {<<Replay>>, <<Discard>>}
    /\ ~broker.sub.replay =>
          \A i \in DOMAIN broker.sub.queue : broker.sub.queue[i] \in 0..created

ReaderSound ==
    /\ reader.acked <= reader.cursor /\ reader.cursor <= Len(log)
    /\ reader.phase = "prefix" =>
          reader.base \in 0..Len(log) /\ reader.cursor = reader.after /\ reader.provisional = 0
    /\ reader.phase \in {"live", "held"} => reader.after <= reader.cursor
    /\ reader.phase \in {"live", "held"} /\ reader.aligning =>
          reader.cursor = reader.after /\ reader.provisional = 0
    /\ reader.phase = "held" => reader.aligning /\ reader.held \in 1..MaxEvents
    /\ reader.phase = "settling" => failure \/ ended \/ worker.stage = "left"
    /\ reader.phase = "unfinished" => worker.stage = "left"
    /\ reader.phase = "done" => ended /\ reader.cursor = Len(log)
    /\ reader.phase \in {"durable", "status"} /\ reader.skip > 0 => reader.counted /\ ~reader.late

\* The queue is the unread end of the buffer, and everything the reader has
\* passed lies before what is in it.
FollowSound == Following =>
    /\ broker.base # -1 /\ ~broker.replay /\ reader.base = broker.base
    /\ Increasing(broker.sub.queue) /\ Queued \subseteq Buffered
    /\ \A e \in Read, f \in Queued : e < f
    /\ reader.phase = "prefix" => Queued = Buffered
    /\ reader.phase = "held" => reader.held \in Read /\ \A e \in Read : e <= reader.held
    /\ reader.phase = "live" /\ ~reader.aligning =>
         /\ \/ reader.cursor = broker.base
            \/ reader.cursor > 0 /\ \E e \in Read : IsHere(e, reader.cursor)
         /\ Ahead \subseteq reader.delivered /\ Cardinality(Ahead) = reader.provisional

\* Where the reader stands, with what it has got provisionally.
Stand == reader.cursor + reader.provisional

PureFollow == Pure /\ Following /\ reader.phase = "live" /\ ~reader.aligning =>
    /\ Queued = {e \in Buffered : e > Stand}
    /\ Stand = broker.base \/ Stand \in Buffered

\* With one writer it has got the next events by number.
PureSeen == Pure =>
    /\ reader.phase \in {"prefix", "live", "held", "settling"} =>
         /\ \A n \in (reader.cursor + 1)..Stand : n \in reader.delivered
         /\ Stand <= created
    /\ reader.phase \in {"durable", "status"} =>
         /\ \A n \in (reader.cursor + 1)..(reader.cursor + reader.skip) : n \in reader.delivered
         /\ reader.cursor + reader.skip <= created

DeliverySound == Miscounted \/
    /\ reader.phase # "corrupt"
    /\ \A i \in (reader.start + 1)..reader.cursor : log[i].id \in reader.delivered

ReaderInv == QueueSound /\ ReaderSound /\ FollowSound /\ PureFollow /\ PureSeen /\ DeliverySound

StreamInv == Types /\ SourceSound /\ BrokerSound /\ ReaderInv

\* The broker has published an event that another runtime wrote.
Strayed == \E e \in 1..MaxEvents : broker.seqOf[e] # 0 /\ log[broker.seqOf[e]].by = "there"

\* Only the worker that finds it does so, and it is the last thing it does.
StraySound == Strayed /\ ended /\ worker.stage = "over" /\ broker \in Brokers

-----------------------------------------------------------------------------
(* Queues. *)

\* A set of numbers has a least one: the oldest delta of a queue exists.
LEMMA LeastNumber == ASSUME NEW T \in SUBSET Nat, T # {} PROVE \E x \in T : \A y \in T : x <= y
<1>. DEFINE R == OpToRel(<, Nat)
<1>1. IsWellFoundedOn(R, Nat)
  BY NatLessThanWellFounded
<1>2. \A x \in Nat, y \in Nat : y < x => <<y, x>> \in R
  BY DEF OpToRel
<1>. HIDE DEF R
<1>3. PICK x \in T : \A y \in T : <<y, x>> \notin R
  BY <1>1, WFMin
<1>4. \A y \in T : ~(y < x)
  BY <1>2, <1>3
<1>5. x \in Nat /\ \A y \in T : y \in Nat
  OBVIOUS
<1>. QED
  BY <1>4, <1>5

\* DropOldestDelta takes one delta out and keeps the order of the rest.
LEMMA DeltaDropped ==
    ASSUME NEW q \in Seq(Int), HasDelta(q)
    PROVE  /\ DropOldestDelta(q) \in Seq(Int)
           /\ Len(DropOldestDelta(q)) = Len(q) - 1
           /\ \E k \in DOMAIN q : q[k] = Delta /\ \A i \in 1..(Len(q) - 1) :
                 DropOldestDelta(q)[i] = IF i < k THEN q[i] ELSE q[i + 1]
<1>. DEFINE T == {i \in DOMAIN q : q[i] = Delta}
            k == CHOOSE i \in DOMAIN q : q[i] = Delta /\ \A j \in 1..(i - 1) : q[j] # Delta
            s == SubSeq(q, 1, k - 1)
            t == SubSeq(q, k + 1, Len(q))
<1>1. PICK x \in T : \A y \in T : x <= y
  <2>1. T # {} /\ T \in SUBSET Nat
    BY DEF HasDelta
  <2>. HIDE DEF T
  <2>. QED
    BY <2>1, LeastNumber
<1>2. k \in DOMAIN q /\ q[k] = Delta
  <2>1. \A j \in 1..(x - 1) : q[j] # Delta
    BY <1>1
  <2>. QED
    BY <1>1, <2>1
<1>. HIDE DEF k
<1>. DEFINE n == Len(q)
<1>n. n \in Nat /\ k \in 1..n /\ DOMAIN q = 1..n /\ (\A i \in 1..n : q[i] \in Int)
  BY <1>2
<1>. HIDE DEF n
<1>3. s \in Seq(Int) /\ Len(s) = k - 1 /\ \A i \in 1..(k - 1) : s[i] = q[i]
  BY <1>2, SubSeqProperties
<1>4. t \in Seq(Int) /\ Len(t) = n - k /\ \A i \in 1..(n - k) : t[i] = q[k + i]
  <2>1. k + 1 \in Int /\ n \in Int /\ (\A i \in (k + 1)..n : q[i] \in Int)
    BY <1>n
  <2>2. /\ t \in Seq(Int)
        /\ Len(t) = IF k + 1 <= n THEN n - (k + 1) + 1 ELSE 0
        /\ \A i \in 1..(n - (k + 1) + 1) : t[i] = q[(k + 1) + i - 1]
    BY <2>1, SubSeqProperties DEF n
  <2>. HIDE DEF t
  <2>3. n - (k + 1) + 1 = n - k /\ (k + 1 > n => n - k = 0)
    BY <1>n
  <2>4. Len(t) = n - k
    BY <1>n, <2>2, <2>3
  <2>5. ASSUME NEW i \in 1..(n - k) PROVE t[i] = q[k + i]
    <3>1. (k + 1) + i - 1 = k + i
      BY <1>n
    <3>. QED
      BY <2>2, <2>3, <3>1
  <2>. QED
    BY <2>2, <2>4, <2>5
<1>5. DropOldestDelta(q) = s \o t
  BY DEF DropOldestDelta, RemoveAt, k, n
<1>. HIDE DEF s, t
<1>6. /\ s \o t \in Seq(Int) /\ Len(s \o t) = n - 1
      /\ \A i \in 1..(n - 1) : (s \o t)[i] = IF i <= Len(s) THEN s[i] ELSE t[i - Len(s)]
  <2>1. /\ s \o t \in Seq(Int) /\ Len(s \o t) = Len(s) + Len(t)
        /\ \A i \in 1..(Len(s) + Len(t)) : (s \o t)[i] = IF i <= Len(s) THEN s[i] ELSE t[i - Len(s)]
    BY <1>3, <1>4, ConcatProperties
  <2>2. Len(s) + Len(t) = n - 1
    BY <1>n, <1>3, <1>4 DEF n
  <2>. QED
    BY <2>1, <2>2
<1>7. \A i \in 1..(n - 1) : (s \o t)[i] = IF i < k THEN q[i] ELSE q[i + 1]
  <2>. SUFFICES ASSUME NEW i \in 1..(n - 1)
                PROVE  (s \o t)[i] = IF i < k THEN q[i] ELSE q[i + 1]
    OBVIOUS
  <2>1. CASE i < k
    <3>1. i \in 1..(k - 1) /\ i <= k - 1
      BY <1>n, <2>1
    <3>. QED
      BY <1>3, <1>6, <2>1, <3>1
  <2>2. CASE ~(i < k)
    <3>1. i - (k - 1) \in 1..(n - k) /\ ~(i <= k - 1) /\ k + (i - (k - 1)) = i + 1
      BY <1>n, <2>2
    <3>2. (s \o t)[i] = t[i - (k - 1)]
      BY <1>3, <1>6, <3>1
    <3>3. t[i - (k - 1)] = q[i + 1]
      BY <1>4, <3>1
    <3>. QED
      BY <2>2, <3>2, <3>3
  <2>. QED
    BY <2>1, <2>2
<1>. QED
  BY <1>2, <1>5, <1>6, <1>7 DEF n

\* Making room loses no event and no order.
LEMMA RoomMade ==
    ASSUME NEW q \in Seq(Int), Fits(q)
    PROVE  LET r == IF Len(q) < QueueLimit THEN q ELSE DropOldestDelta(q)
           IN /\ r \in Seq(Int) /\ Len(r) <= Len(q) /\ (Len(q) <= QueueLimit => Len(r) < QueueLimit \/ QueueLimit \notin Nat)
              /\ \A i \in DOMAIN r : \E j \in DOMAIN q : r[i] = q[j]
              /\ EventsOf(r) = EventsOf(q)
              /\ Increasing(q) => Increasing(r)
<1>1. CASE Len(q) < QueueLimit
  BY <1>1
<1>2. CASE ~(Len(q) < QueueLimit)
  <2>. DEFINE r == DropOldestDelta(q)
  <2>0. HasDelta(q)
    BY <1>2 DEF Fits
  <2>1. r \in Seq(Int) /\ Len(r) = Len(q) - 1
    BY <2>0, DeltaDropped
  <2>2. PICK k \in DOMAIN q : q[k] = Delta /\ \A i \in 1..(Len(q) - 1) :
                 r[i] = IF i < k THEN q[i] ELSE q[i + 1]
    BY <2>0, DeltaDropped
  <2>. HIDE DEF r
  <2>3. DOMAIN r = 1..(Len(q) - 1) /\ DOMAIN q = 1..Len(q) /\ Len(q) \in Nat /\ k \in Nat
    BY <2>1, <2>2
  <2>4. \A i \in DOMAIN r : \E j \in DOMAIN q : r[i] = q[j]
    <3>. TAKE i \in DOMAIN r
    <3>1. i \in DOMAIN q /\ i + 1 \in DOMAIN q /\ (r[i] = q[i] \/ r[i] = q[i + 1])
      BY <2>2, <2>3
    <3>. QED
      BY <3>1
  <2>5. \A j \in DOMAIN q : q[j] = Delta \/ \E i \in DOMAIN r : r[i] = q[j]
    <3>. SUFFICES ASSUME NEW j \in DOMAIN q, q[j] # Delta PROVE \E i \in DOMAIN r : r[i] = q[j]
      OBVIOUS
    <3>1. CASE j < k
      BY <2>2, <2>3, <3>1
    <3>2. CASE j > k
      <4>1. j - 1 \in DOMAIN r /\ r[j - 1] = q[j]
        BY <2>2, <2>3, <3>2
      <4>. QED
        BY <4>1
    <3>. QED
      BY <2>2, <2>3, <3>1, <3>2
  <2>6. EventsOf(r) = EventsOf(q)
    BY <2>4, <2>5 DEF EventsOf, Delta
  <2>7. Increasing(q) => Increasing(r)
    <3>. SUFFICES ASSUME Increasing(q), NEW i \in DOMAIN r, NEW j \in DOMAIN r,
                         i < j, r[i] > 0, r[j] > 0
                  PROVE  r[i] < r[j]
      BY DEF Increasing
    <3>1. PICK a \in DOMAIN q : r[i] = q[a] /\ a = IF i < k THEN i ELSE i + 1
      BY SMTT(30), <2>2, <2>3
    <3>2. PICK b \in DOMAIN q : r[j] = q[b] /\ b = IF j < k THEN j ELSE j + 1
      BY SMTT(30), <2>2, <2>3
    <3>3. a < b
      BY <2>3, <3>1, <3>2
    <3>. QED
      BY <3>1, <3>2, <3>3 DEF Increasing
  <2>8. Len(r) <= Len(q) /\ (Len(q) <= QueueLimit => Len(r) < QueueLimit \/ QueueLimit \notin Nat)
    BY <2>1, <2>3
  <2>. QED
    BY <1>2, <2>1, <2>4, <2>6, <2>7, <2>8 DEF r
<1>. QED
  BY <1>1, <1>2

\* An item that fits goes to the end of a queue.
LEMMA ItemAdded ==
    ASSUME Limits, NEW q \in Seq(Int), Fits(q), Len(q) <= QueueLimit, NEW item \in Int
    PROVE  /\ Added(q, item) \in Seq(Int) /\ Len(Added(q, item)) <= QueueLimit
           /\ Added(q, item) # <<>>
           /\ \A i \in DOMAIN Added(q, item) :
                 Added(q, item)[i] = item \/ \E j \in DOMAIN q : Added(q, item)[i] = q[j]
           /\ EventsOf(Added(q, item)) = EventsOf(q) \cup ({item} \cap 1..MaxEvents)
           /\ Increasing(q) /\ (item > 0 => \A j \in DOMAIN q : q[j] < item)
                 => Increasing(Added(q, item))
<1>. DEFINE r == IF Len(q) < QueueLimit THEN q ELSE DropOldestDelta(q)
            a == Append(r, item)
<1>1. /\ r \in Seq(Int) /\ Len(r) < QueueLimit
      /\ \A i \in DOMAIN r : \E j \in DOMAIN q : r[i] = q[j]
      /\ EventsOf(r) = EventsOf(q)
      /\ Increasing(q) => Increasing(r)
  BY RoomMade DEF Limits
<1>2. Added(q, item) = a
  BY DEF Added
<1>. HIDE DEF r
<1>3. /\ a \in Seq(Int) /\ Len(a) = Len(r) + 1 /\ Len(r) \in Nat /\ a # <<>>
      /\ \A i \in 1..Len(r) : a[i] = r[i]
      /\ a[Len(r) + 1] = item
  <2>1. Len(r) \in Nat
    BY <1>1
  <2>. QED
    BY SMTT(30), <1>1, <2>1, AppendProperties
<1>. HIDE DEF a
<1>4. DOMAIN a = 1..(Len(r) + 1) /\ DOMAIN r = 1..Len(r)
  BY <1>1, <1>3
<1>5. \A i \in DOMAIN a : (i \in DOMAIN r /\ a[i] = r[i]) \/ (i = Len(r) + 1 /\ a[i] = item)
  BY <1>3, <1>4
<1>6. \A i \in DOMAIN a : a[i] = item \/ \E j \in DOMAIN q : a[i] = q[j]
  BY <1>1, <1>5
<1>7. \A i \in DOMAIN r : i \in DOMAIN a /\ a[i] = r[i]
  BY <1>3, <1>4
<1>8. EventsOf(a) = EventsOf(r) \cup ({item} \cap 1..MaxEvents)
  <2>1. Len(r) + 1 \in DOMAIN a /\ a[Len(r) + 1] = item
    BY <1>3, <1>4
  <2>. QED
    BY <1>5, <1>7, <2>1 DEF EventsOf
<1>9. ASSUME Increasing(q), item > 0 => \A j \in DOMAIN q : q[j] < item
      PROVE  Increasing(a)
  <2>. SUFFICES ASSUME NEW i \in DOMAIN a, NEW j \in DOMAIN a, i < j, a[i] > 0, a[j] > 0
                PROVE  a[i] < a[j]
    BY DEF Increasing
  <2>1. i \in DOMAIN r /\ a[i] = r[i]
    BY <1>4, <1>5
  <2>2. CASE j \in DOMAIN r /\ a[j] = r[j]
    BY <1>1, <1>9, <2>1, <2>2 DEF Increasing
  <2>3. CASE a[j] = item
    <3>1. PICK k \in DOMAIN q : r[i] = q[k]
      BY <1>1, <2>1
    <3>. QED
      BY <1>9, <2>1, <2>3, <3>1
  <2>. QED
    BY <1>5, <2>2, <2>3
<1>10. Len(a) <= QueueLimit
  BY <1>1, <1>3 DEF Limits
<1>. QED
  BY <1>1, <1>2, <1>3, <1>6, <1>8, <1>9, <1>10

\* The head of an increasing queue is before all the rest.
LEMMA HeadTaken ==
    ASSUME NEW q \in Seq(Int), q # <<>>
    PROVE  /\ Head(q) \in Int /\ Head(q) = q[1] /\ 1 \in DOMAIN q
           /\ Tail(q) \in Seq(Int) /\ Len(Tail(q)) = Len(q) - 1
           /\ \A i \in DOMAIN Tail(q) : \E j \in DOMAIN q : Tail(q)[i] = q[j]
           /\ EventsOf(q) = EventsOf(Tail(q)) \cup ({Head(q)} \cap 1..MaxEvents)
           /\ Increasing(q) => Increasing(Tail(q))
           /\ Increasing(q) /\ Head(q) > 0 => \A e \in EventsOf(Tail(q)) : Head(q) < e
<1>. DEFINE t == Tail(q)
<1>1. /\ Head(q) \in Int /\ t \in Seq(Int) /\ Len(t) = Len(q) - 1
      /\ \A i \in 1..Len(t) : t[i] = q[i + 1]
  BY HeadTailProperties
<1>2. Head(q) = q[1] /\ 1 \in DOMAIN q /\ Len(q) \in Nat
  OBVIOUS
<1>. HIDE DEF t
<1>3. DOMAIN t = 1..(Len(q) - 1) /\ DOMAIN q = 1..Len(q)
  BY <1>1
<1>4. \A i \in DOMAIN t : i + 1 \in DOMAIN q /\ t[i] = q[i + 1]
  BY SMTT(30), <1>1, <1>2, <1>3
<1>5. \A j \in DOMAIN q : j = 1 \/ (j - 1 \in DOMAIN t /\ t[j - 1] = q[j])
  <2>. SUFFICES ASSUME NEW j \in DOMAIN q, j # 1 PROVE j - 1 \in DOMAIN t /\ t[j - 1] = q[j]
    OBVIOUS
  <2>1. j - 1 \in 1..(Len(q) - 1) /\ (j - 1) + 1 = j
    BY <1>2, <1>3
  <2>2. j - 1 \in 1..Len(t)
    BY <1>1, <2>1
  <2>. QED
    BY <1>1, <1>3, <2>1, <2>2
<1>6. EventsOf(q) = EventsOf(t) \cup ({Head(q)} \cap 1..MaxEvents)
  <2>1. \A i \in DOMAIN t : \E j \in DOMAIN q : t[i] = q[j]
    BY <1>4
  <2>2. \A j \in DOMAIN q : q[j] = Head(q) \/ \E i \in DOMAIN t : t[i] = q[j]
    BY <1>2, <1>5
  <2>. QED
    BY <1>2, <2>1, <2>2 DEF EventsOf
<1>7. Increasing(q) => Increasing(t)
  BY <1>3, <1>4 DEF Increasing
<1>8. Increasing(q) /\ Head(q) > 0 => \A e \in EventsOf(t) : Head(q) < e
  <2>. SUFFICES ASSUME Increasing(q), q[1] > 0, NEW e \in 1..MaxEvents, NEW i \in DOMAIN t, t[i] = e
                PROVE  q[1] < e
    BY <1>2 DEF EventsOf
  <2>1. i + 1 \in DOMAIN q /\ q[i + 1] = e /\ 1 < i + 1
    BY <1>3, <1>4
  <2>2. q[i + 1] > 0
    BY <2>1
  <2>. QED
    BY <1>2, <2>1, <2>2 DEF Increasing
<1>9. \A i \in DOMAIN t : \E j \in DOMAIN q : t[i] = q[j]
  BY <1>4
<1>. QED
  BY <1>1, <1>2, <1>6, <1>7, <1>8, <1>9 DEF t

-----------------------------------------------------------------------------
(* The calls of the broker, field by field. *)

\* Put adds the item, or leaves a replay marker where it does not fit.
LEMMA PutFields ==
    ASSUME Limits, NEW s \in Subscriptions, Len(s.queue) <= QueueLimit, NEW item \in Int
    PROVE  /\ Put(s, item) \in Subscriptions
           /\ Put(s, item).open = s.open /\ Put(s, item).completed = s.completed
           /\ ~s.open \/ s.replay => Put(s, item) = s
           /\ s.open /\ ~s.replay =>
                \/ Fits(s.queue) /\ Put(s, item).replay = FALSE /\ Put(s, item).queue = Added(s.queue, item)
                \/ Put(s, item).replay = TRUE /\ Put(s, item).queue = <<Replay>>
<1>1. CASE ~s.open \/ s.replay
  BY <1>1 DEF Put
<1>2. CASE s.open /\ ~s.replay /\ Fits(s.queue)
  <2>1. Put(s, item) = [s EXCEPT !.queue = Added(@, item)]
    BY <1>2 DEF Put
  <2>2. Added(s.queue, item) \in Seq(Int)
    BY <1>2, ItemAdded DEF Subscriptions
  <2>. QED
    BY <1>2, <2>1, <2>2 DEF Subscriptions
<1>3. CASE s.open /\ ~s.replay /\ ~Fits(s.queue)
  <2>1. Put(s, item) = [s EXCEPT !.queue = <<Replay>>, !.replay = TRUE]
    BY <1>3 DEF Put
  <2>2. <<Replay>> \in Seq(Int)
    BY DEF Replay
  <2>. QED
    BY <1>3, <2>1, <2>2 DEF Subscriptions
<1>. QED
  BY <1>1, <1>2, <1>3

\* RequireReplay leaves nothing in the queue but the marker.
LEMMA ReplayFields ==
    ASSUME NEW s \in Subscriptions, NEW marker \in {Replay, Discard}
    PROVE  /\ RequireReplay(s, marker) \in Subscriptions
           /\ RequireReplay(s, marker).open = s.open
           /\ RequireReplay(s, marker).completed = s.completed
           /\ ~s.open => RequireReplay(s, marker) = s
           /\ s.open => /\ RequireReplay(s, marker).replay
                        /\ RequireReplay(s, marker) = s \/ RequireReplay(s, marker).queue = <<marker>>
           /\ s.open /\ marker = Discard => RequireReplay(s, marker).queue = <<Discard>>
           /\ s.replay /\ marker = Replay => RequireReplay(s, marker) = s
<1>1. <<marker>> \in Seq(Int)
  BY DEF Replay, Discard
<1>2. CASE ~s.open \/ (s.replay /\ marker = Replay)
  BY <1>2 DEF RequireReplay, Replay, Discard
<1>3. CASE ~(~s.open \/ (s.replay /\ marker = Replay))
  <2>1. RequireReplay(s, marker) = [s EXCEPT !.queue = <<marker>>, !.replay = TRUE]
    BY <1>3 DEF RequireReplay
  <2>. QED
    BY <1>1, <1>3, <2>1 DEF Subscriptions
<1>. QED
  BY <1>2, <1>3

\* What PublishEvent leaves alone.
LEMMA PublishFrame ==
    ASSUME Limits, NEW b \in Brokers, NEW e \in 1..MaxEvents, NEW seq \in Nat,
           Len(b.buffer) <= QueueLimit, Len(b.sub.queue) <= QueueLimit
    PROVE  /\ PublishEvent(b, e, seq) \in Brokers
           /\ PublishEvent(b, e, seq).base = b.base
           /\ PublishEvent(b, e, seq).completed = b.completed
           /\ PublishEvent(b, e, seq).sub.open = b.sub.open
           /\ PublishEvent(b, e, seq).sub.completed = b.sub.completed
           /\ PublishEvent(b, e, seq).seqOf \in {b.seqOf, [b.seqOf EXCEPT ![e] = seq]}
           /\ b.base = -1 \/ b.replay => PublishEvent(b, e, seq) = b
           /\ b.base # -1 /\ ~b.replay =>
                \/ /\ Fits(b.buffer) /\ ~PublishEvent(b, e, seq).replay
                   /\ PublishEvent(b, e, seq).buffer = Added(b.buffer, e)
                   /\ PublishEvent(b, e, seq).seqOf = [b.seqOf EXCEPT ![e] = seq]
                   /\ PublishEvent(b, e, seq).sub = Put(b.sub, e)
                \/ /\ PublishEvent(b, e, seq).replay /\ PublishEvent(b, e, seq).buffer = <<>>
                   /\ PublishEvent(b, e, seq).sub = RequireReplay(b.sub, Replay)
<1>0. b.sub \in Subscriptions
  BY DEF Brokers
<1>1. CASE b.base = -1 \/ b.replay
  BY <1>1 DEF PublishEvent
<1>2. CASE b.base # -1 /\ ~b.replay /\ Fits(b.buffer)
  <2>1. PublishEvent(b, e, seq) =
            [b EXCEPT !.buffer = Added(@, e), !.seqOf[e] = seq, !.sub = Put(@, e)]
    BY <1>2 DEF PublishEvent
  <2>2. /\ Added(b.buffer, e) \in Seq(Int) /\ Put(b.sub, e) \in Subscriptions
        /\ Put(b.sub, e).open = b.sub.open /\ Put(b.sub, e).completed = b.sub.completed
    <3>1. b.buffer \in Seq(Int) /\ e \in Int
      BY DEF Brokers
    <3>2. Added(b.buffer, e) \in Seq(Int)
      BY <1>2, <3>1, ItemAdded
    <3>. QED
      BY <1>0, <3>1, <3>2, PutFields
  <2>3. [b.seqOf EXCEPT ![e] = seq] \in [1..MaxEvents -> Nat]
    BY DEF Brokers
  <2>. QED
    BY <1>2, <2>1, <2>2, <2>3 DEF Brokers
<1>3. CASE b.base # -1 /\ ~b.replay /\ ~Fits(b.buffer)
  <2>1. PublishEvent(b, e, seq) =
            [b EXCEPT !.replay = TRUE, !.buffer = <<>>, !.sub = RequireReplay(@, Replay)]
    BY <1>3 DEF PublishEvent
  <2>2. /\ RequireReplay(b.sub, Replay) \in Subscriptions
        /\ RequireReplay(b.sub, Replay).open = b.sub.open
        /\ RequireReplay(b.sub, Replay).completed = b.sub.completed
    BY <1>0, ReplayFields
  <2>. DEFINE s == RequireReplay(b.sub, Replay)
  <2>3. s \in Subscriptions /\ <<>> \in Seq(Int) /\ TRUE \in BOOLEAN
    BY <2>2
  <2>. HIDE DEF s
  <2>4. [b EXCEPT !.replay = TRUE, !.buffer = <<>>, !.sub = s] \in Brokers
    BY <2>3 DEF Brokers
  <2>5. PublishEvent(b, e, seq) = [b EXCEPT !.replay = TRUE, !.buffer = <<>>, !.sub = s]
    BY <2>1 DEF s
  <2>6. /\ PublishEvent(b, e, seq).base = b.base /\ PublishEvent(b, e, seq).completed = b.completed
        /\ PublishEvent(b, e, seq).sub = s /\ PublishEvent(b, e, seq).seqOf = b.seqOf
        /\ PublishEvent(b, e, seq).replay /\ PublishEvent(b, e, seq).buffer = <<>>
    BY <2>5 DEF Brokers
  <2>. QED
    BY <1>3, <2>2, <2>4, <2>5, <2>6 DEF s
<1>. QED
  BY <1>1, <1>2, <1>3

\* What PublishDelta leaves alone.
LEMMA DeltaFrame ==
    ASSUME Limits, NEW b \in Brokers, NEW merged \in BOOLEAN,
           Len(b.buffer) <= QueueLimit, Len(b.sub.queue) <= QueueLimit
    PROVE  /\ PublishDelta(b, merged) \in Brokers
           /\ PublishDelta(b, merged).base = b.base
           /\ PublishDelta(b, merged).completed = b.completed
           /\ PublishDelta(b, merged).replay = b.replay
           /\ PublishDelta(b, merged).seqOf = b.seqOf
           /\ PublishDelta(b, merged).sub \in {b.sub, Put(b.sub, Delta)}
           /\ b.replay => PublishDelta(b, merged) = b
           /\ \/ PublishDelta(b, merged).buffer = b.buffer
              \/ Fits(b.buffer) /\ PublishDelta(b, merged).buffer = Added(b.buffer, Delta)
<1>0. b.sub \in Subscriptions /\ Delta \in Int
  BY DEF Brokers, Delta
<1>1. CASE b.replay
  BY <1>1 DEF PublishDelta
<1>2. CASE ~b.replay
  <2>. DEFINE q == IF merged THEN b.buffer
                   ELSE IF Fits(b.buffer) THEN Added(b.buffer, Delta) ELSE b.buffer
  <2>1. PublishDelta(b, merged) = [b EXCEPT !.buffer = q, !.sub = Put(@, Delta)]
    BY <1>2 DEF PublishDelta
  <2>2. q \in Seq(Int)
    BY <1>0, ItemAdded DEF Brokers
  <2>3. Put(b.sub, Delta) \in Subscriptions
    BY <1>0, PutFields
  <2>4. q = b.buffer \/ (Fits(b.buffer) /\ q = Added(b.buffer, Delta))
    OBVIOUS
  <2>. HIDE DEF q
  <2>. QED
    BY <1>2, <2>1, <2>2, <2>3, <2>4 DEF Brokers
<1>. QED
  BY <1>1, <1>2

\* Released forgets everything but the subscription and the numbers.
LEMMA ReleasedFields ==
    ASSUME NEW b \in Brokers
    PROVE  /\ Released(b) \in Brokers
           /\ Released(b).base = -1 /\ Released(b).buffer = <<>> /\ ~Released(b).replay
           /\ ~Released(b).completed /\ Released(b).seqOf = b.seqOf /\ Released(b).sub = b.sub
<1>1. <<>> \in Seq(Int) /\ -1 \in Int
  OBVIOUS
<1>2. Released(b) \in Brokers
  BY <1>1 DEF Released, Brokers
<1>. QED
  BY <1>2 DEF Released, Brokers

\* Complete ends the subscription, or releases the buffer if there is none.
LEMMA CompleteFields ==
    ASSUME NEW b \in Brokers
    PROVE  /\ Complete(b) \in Brokers
           /\ Complete(b).seqOf = b.seqOf
           /\ Complete(b).sub.open = b.sub.open /\ Complete(b).sub.queue = b.sub.queue
           /\ Complete(b).sub.replay = b.sub.replay
           /\ \/ /\ Complete(b).base = b.base /\ Complete(b).buffer = b.buffer
                 /\ Complete(b).replay = b.replay /\ Complete(b).completed
                 /\ b.sub.open => Complete(b).sub.completed
                 /\ ~b.sub.open => Complete(b).sub = b.sub
              \/ /\ ~b.sub.open /\ Complete(b).sub = b.sub /\ Complete(b).base = -1
                 /\ Complete(b).buffer = <<>> /\ ~Complete(b).replay /\ ~Complete(b).completed
<1>1. CASE b.sub.open \/ b.prepared
  <2>1. Complete(b) = [b EXCEPT !.completed = TRUE, !.sub = Finish(@)]
    BY <1>1 DEF Complete
  <2>2. /\ Finish(b.sub) \in Subscriptions
        /\ Finish(b.sub).open = b.sub.open /\ Finish(b.sub).queue = b.sub.queue
        /\ Finish(b.sub).replay = b.sub.replay
        /\ b.sub.open => Finish(b.sub).completed
        /\ ~b.sub.open => Finish(b.sub) = b.sub
    BY DEF Finish, Brokers, Subscriptions
  <2>. QED
    BY <1>1, <2>1, <2>2 DEF Brokers
<1>2. CASE ~(b.sub.open \/ b.prepared)
  <2>1. Complete(b) = Released(b)
    BY <1>2 DEF Complete
  <2>. QED
    BY <1>2, <2>1, ReleasedFields
<1>. QED
  BY <1>1, <1>2

\* Handoff releases the buffer and sends a reader to the log.
LEMMA HandoffFields ==
    ASSUME NEW b \in Brokers
    PROVE  /\ Handoff(b) \in Brokers
           /\ Handoff(b).base = -1 /\ Handoff(b).buffer = <<>> /\ ~Handoff(b).replay
           /\ ~Handoff(b).completed /\ Handoff(b).seqOf = b.seqOf
           /\ Handoff(b).sub.open = b.sub.open
           /\ b.sub.open => /\ Handoff(b).sub.replay /\ Handoff(b).sub.completed
                            /\ Handoff(b).sub.queue = <<Discard>>
           /\ ~b.sub.open => Handoff(b).sub = b.sub
<1>. DEFINE s == RequireReplay(b.sub, Discard)
            c == [b EXCEPT !.sub = Finish(s)]
<1>1. /\ s \in Subscriptions /\ s.open = b.sub.open
      /\ b.sub.open => s.replay /\ s.queue = <<Discard>>
      /\ ~b.sub.open => s = b.sub
  BY ReplayFields DEF Brokers
<1>. HIDE DEF s
<1>2. /\ Finish(s) \in Subscriptions /\ Finish(s).open = s.open /\ Finish(s).replay = s.replay
      /\ Finish(s).queue = s.queue /\ (s.open => Finish(s).completed) /\ (~s.open => Finish(s) = s)
  BY <1>1 DEF Finish, Subscriptions
<1>3. c \in Brokers /\ c.sub = Finish(s) /\ c.seqOf = b.seqOf
  BY <1>2 DEF Brokers
<1>4. Handoff(b) = Released(c)
  BY DEF Handoff, s
<1>. HIDE DEF c
<1>5. Released(c).sub = c.sub /\ Released(c).seqOf = c.seqOf
  BY <1>3, ReleasedFields
<1>. QED
  BY <1>1, <1>2, <1>3, <1>4, <1>5, ReleasedFields

\* Subscribe hands out the buffer.
LEMMA SubscribeFields ==
    ASSUME NEW b \in Brokers
    PROVE  /\ Subscribe(b) \in Brokers
           /\ Subscribe(b).base = b.base /\ Subscribe(b).buffer = b.buffer
           /\ Subscribe(b).replay = b.replay /\ Subscribe(b).completed = b.completed
           /\ Subscribe(b).seqOf = b.seqOf
           /\ Subscribe(b).sub.open
           /\ Subscribe(b).sub.queue = (IF b.replay THEN <<Replay>> ELSE b.buffer)
           /\ Subscribe(b).sub.replay = b.replay /\ Subscribe(b).sub.completed = b.completed
<1>1. <<Replay>> \in Seq(Int)
  BY DEF Replay
<1>2. (IF b.replay THEN <<Replay>> ELSE b.buffer) \in Seq(Int)
  BY <1>1 DEF Brokers
<1>3. [open |-> TRUE, queue |-> IF b.replay THEN <<Replay>> ELSE b.buffer,
       replay |-> b.replay, completed |-> b.completed] \in Subscriptions
  BY <1>2 DEF Brokers, Subscriptions
<1>. QED
  BY <1>3 DEF Subscribe, Brokers

\* Close ends the subscription; a completed producer's buffer goes with it.
LEMMA CloseFields ==
    ASSUME NEW b \in Brokers
    PROVE  /\ Close(b) \in Brokers
           /\ Close(b).seqOf = b.seqOf
           /\ ~Close(b).sub.open /\ Close(b).sub.queue = <<>>
           /\ ~Close(b).sub.replay /\ ~Close(b).sub.completed
           /\ \/ /\ ~b.completed /\ Close(b).base = b.base /\ Close(b).buffer = b.buffer
                 /\ Close(b).replay = b.replay /\ ~Close(b).completed
              \/ /\ b.completed /\ Close(b).base = -1 /\ Close(b).buffer = <<>>
                 /\ ~Close(b).replay /\ ~Close(b).completed
<1>. DEFINE c == [b EXCEPT !.sub = Closed]
<1>1. Closed \in Subscriptions
  <2>1. <<>> \in Seq(Int)
    OBVIOUS
  <2>. QED
    BY <2>1 DEF Closed, Subscriptions
<1>2. /\ c \in Brokers /\ c.sub = Closed /\ c.seqOf = b.seqOf /\ c.base = b.base
      /\ c.buffer = b.buffer /\ c.replay = b.replay /\ c.completed = b.completed
  BY <1>1 DEF Brokers
<1>3. Close(b) = IF b.completed THEN Released(c) ELSE c
  BY DEF Close
<1>. HIDE DEF c
<1>4. ~Closed.open /\ Closed.queue = <<>> /\ ~Closed.replay /\ ~Closed.completed
  BY DEF Closed
<1>5. CASE b.completed
  <2>1. /\ Released(c).sub = c.sub /\ Released(c).seqOf = c.seqOf /\ Released(c) \in Brokers
        /\ Released(c).base = -1 /\ Released(c).buffer = <<>> /\ ~Released(c).replay
        /\ ~Released(c).completed
    BY <1>2, ReleasedFields
  <2>. QED
    BY <1>2, <1>3, <1>4, <1>5, <2>1
<1>6. CASE ~b.completed
  BY <1>2, <1>3, <1>4, <1>6
<1>. QED
  BY <1>5, <1>6

-----------------------------------------------------------------------------
(* The steps of the source. *)

SourceTypes ==
    /\ log \in Seq([by : {"here", "there"}, id : Nat])
    /\ ended \in BOOLEAN /\ failure \in BOOLEAN
    /\ created \in 0..MaxEvents
    /\ worker \in Workers
    /\ tail \in Seq(Nat)

\* What is in the log stays there, and a producer that is gone stays away.
LogGrows ==
    /\ Len(log) <= Len(log') /\ \A i \in 1..Len(log) : log'[i] = log[i]
    /\ worker.stage = "left" => worker'.stage = "left"
    /\ created <= created'
    /\ ended => ended' /\ log' = log

\* What a commit appends: the first events of the tail, and perhaps one of its own.
Lands(count, extra) ==
    /\ worker.stage = "running" /\ ~ended
    /\ tail' = tail /\ failure' = failure /\ ended' \in BOOLEAN /\ (ended' => extra = 1)
    /\ log' \in Seq([by : {"here", "there"}, id : Nat])
    /\ Len(log') = Len(log) + count + extra
    /\ \A i \in 1..Len(log) : log'[i] = log[i]
    /\ \A i \in 1..count : log'[Len(log) + i] = Event("here", tail[i])
    /\ extra = 1 => log'[Len(log')] = Event("here", created + 1)
    /\ created' = created + extra /\ created' \in 0..MaxEvents
    /\ worker' \in Workers /\ worker'.stage = "committed" /\ worker'.count = count
    /\ worker'.last = Len(log') /\ worker'.end = ended'
    /\ worker'.extra = IF extra = 1 THEN created' ELSE 0

\* Land does that.
LEMMA Landing ==
    ASSUME Limits, SourceTypes, NEW count \in 0..Len(tail), NEW extra \in 0..1, NEW end \in BOOLEAN,
           end => extra = 1, Land(count, extra = 1, end)
    PROVE  Lands(count, extra)
<1>. DEFINE s == SubSeq(tail, 1, count)
            t == IF extra = 1 THEN <<created + 1>> ELSE <<>>
            events == s \o t
            new == [i \in DOMAIN events |-> Event("here", events[i])]
            n == Len(log)
            m == count + extra
<1>0. n \in Nat /\ count \in Nat /\ extra \in Nat /\ created \in Nat /\ Len(tail) \in Nat
  BY DEF SourceTypes
<1>1. s \in Seq(Nat) /\ Len(s) = count /\ \A i \in 1..count : s[i] = tail[i]
  BY SubSeqProperties DEF SourceTypes
<1>2. t \in Seq(Nat) /\ Len(t) = extra /\ (extra = 1 => t[1] = created + 1)
  <2>1. CASE extra = 1
    BY <1>0, <2>1
  <2>2. CASE extra = 0
    BY <2>2
  <2>. QED
    BY <2>1, <2>2
<1>3. log' = log \o new
  BY DEF Land
<1>. HIDE DEF s, t
<1>4. /\ events \in Seq(Nat) /\ Len(events) = m
      /\ \A i \in 1..m : events[i] = IF i <= count THEN s[i] ELSE t[i - count]
  BY <1>1, <1>2, ConcatProperties
<1>. HIDE DEF events, m
<1>5. DOMAIN events = 1..m /\ m \in Nat /\ \A i \in 1..m : events[i] \in Nat
  BY <1>0, <1>4 DEF m
<1>6. new \in Seq([by : {"here", "there"}, id : Nat]) /\ Len(new) = m
      /\ \A i \in 1..m : new[i] = Event("here", events[i])
  <2>1. \A i \in 1..m : Event("here", events[i]) \in [by : {"here", "there"}, id : Nat]
    BY <1>5 DEF Event
  <2>2. new = [i \in 1..m |-> Event("here", events[i])]
    BY <1>5
  <2>. HIDE DEF new
  <2>3. new \in [1..m -> [by : {"here", "there"}, id : Nat]]
    BY <2>1, <2>2
  <2>. QED
    BY <1>5, <2>2, <2>3
<1>. HIDE DEF new
<1>7. /\ log' \in Seq([by : {"here", "there"}, id : Nat]) /\ Len(log') = n + m
      /\ \A i \in 1..(n + m) : log'[i] = IF i <= n THEN log[i] ELSE new[i - n]
  <2>1. log \in Seq([by : {"here", "there"}, id : Nat])
    BY DEF SourceTypes
  <2>. QED
    BY <1>3, <1>6, <2>1, ConcatProperties
<1>. HIDE DEF n
<1>8. \A i \in 1..n : log'[i] = log[i]
  BY <1>0, <1>5, <1>7
<1>9. ASSUME NEW i \in 1..count PROVE log'[n + i] = Event("here", tail[i])
  <2>1. n + i \in 1..(n + m) /\ ~(n + i <= n) /\ (n + i) - n = i /\ i \in 1..m /\ i <= count
    BY <1>0, <1>5 DEF m
  <2>2. log'[n + i] = new[i] /\ new[i] = Event("here", events[i]) /\ events[i] = s[i]
    BY <1>4, <1>6, <1>7, <2>1
  <2>. QED
    BY <1>1, <2>2
<1>10. ASSUME extra = 1 PROVE log'[Len(log')] = Event("here", created + 1)
  <2>1. /\ m \in 1..m /\ ~(m <= count) /\ m - count = 1 /\ n + m \in 1..(n + m)
        /\ ~(n + m <= n) /\ (n + m) - n = m
    BY <1>0, <1>10 DEF m
  <2>2. log'[n + m] = new[m] /\ new[m] = Event("here", events[m]) /\ events[m] = t[1]
    BY <1>4, <1>6, <1>7, <2>1
  <2>. QED
    BY <1>2, <1>7, <1>10, <2>2
<1>11. created' = created + extra /\ created' \in 0..MaxEvents
  <2>1. created' = (IF extra = 1 THEN created + 1 ELSE created) /\ (extra = 1 => created < MaxEvents)
    BY DEF Land, More
  <2>2. created \in 0..MaxEvents /\ MaxEvents \in Nat
    BY DEF SourceTypes, Limits
  <2>3. CASE extra = 1
    BY <2>1, <2>2, <2>3
  <2>4. CASE extra = 0
    BY <2>1, <2>2, <2>4
  <2>. QED
    BY <2>3, <2>4
<1>12. worker' = [stage |-> "committed", count |-> count, last |-> Len(log'), end |-> end,
                  extra |-> IF extra = 1 THEN created' ELSE 0]
  BY DEF Land
<1>13. worker' \in Workers
  <2>1. Len(log') \in Nat /\ (IF extra = 1 THEN created' ELSE 0) \in Nat
    BY <1>0, <1>5, <1>7, <1>11
  <2>. QED
    BY <1>0, <1>12, <2>1 DEF Workers, Stages
<1>14. n + m = n + count + extra
  BY <1>0 DEF m
<1>15. /\ worker.stage = "running" /\ ~ended /\ ended' = end
       /\ tail' = tail /\ failure' = failure
  BY Zenon DEF Land
<1>16. ended' \in BOOLEAN /\ (ended' => extra = 1)
  BY <1>15, Zenon
<1>17. worker'.end = ended' /\ worker'.stage = "committed" /\ worker'.count = count
       /\ worker'.last = Len(log') /\ worker'.extra = IF extra = 1 THEN created' ELSE 0
  BY <1>12, <1>15
<1>. QED
  BY <1>7, <1>8, <1>9, <1>10, <1>11, <1>13, <1>14, <1>15, <1>16, <1>17 DEF n, Lands

\* A commit keeps the source sound.
LEMMA LandSound ==
    ASSUME Limits, SourceTypes, SourceSound, NEW count \in 0..Len(tail), NEW extra \in 0..1,
           extra = 1 => Len(tail) <= count, Lands(count, extra)
    PROVE  SourceTypes' /\ SourceSound' /\ LogGrows
<1>. DEFINE n == Len(log)
<1>1. /\ log' \in Seq([by : {"here", "there"}, id : Nat])
      /\ Len(log') = n + count + extra
      /\ \A i \in 1..n : log'[i] = log[i]
      /\ \A i \in 1..count : log'[n + i] = Event("here", tail[i])
      /\ extra = 1 => log'[Len(log')] = Event("here", created + 1)
      /\ created' = created + extra /\ created' \in 0..MaxEvents
      /\ worker' \in Workers /\ worker'.stage = "committed" /\ worker'.count = count
      /\ worker'.last = Len(log') /\ worker'.end = ended'
      /\ worker'.extra = IF extra = 1 THEN created' ELSE 0
  BY DEF Lands
<1>2. /\ worker.stage = "running" /\ ~ended /\ tail' = tail /\ failure' = failure
      /\ ended' \in BOOLEAN /\ (ended' => extra = 1)
  BY DEF Lands
<1>3. /\ n \in Nat /\ count \in Nat /\ extra \in Nat /\ created \in Nat /\ created' \in Nat
      /\ Len(tail) \in Nat /\ count <= Len(tail) /\ DOMAIN log = 1..n /\ DOMAIN tail = 1..Len(tail)
      /\ tail \in Seq(Nat) /\ MaxEvents \in Nat
  BY <1>1 DEF SourceTypes, Limits
<1>4. DOMAIN log' = 1..(n + count + extra)
  BY <1>1
<1>. HIDE DEF n
<1>5. SourceTypes'
  BY <1>1, <1>2, <1>3 DEF SourceTypes
<1>6. LogGrows
  BY <1>1, <1>2, <1>3 DEF LogGrows, n
<1>11. /\ \A k \in 1..count : log'[n + k].by = "here" /\ log'[n + k].id = tail[k]
       /\ extra = 1 => log'[Len(log')].by = "here" /\ log'[Len(log')].id = created + 1
  <2>1. \A e \in Int : Event("here", e).by = "here" /\ Event("here", e).id = e
    BY DEF Event
  <2>2. \A k \in 1..count : tail[k] \in Int
    BY <1>3
  <2>3. created + 1 \in Int
    BY <1>3
  <2>. QED
    BY <1>1, <2>1, <2>2, <2>3
<1>12. \A k \in 1..count : k \in DOMAIN tail /\ tail[k] \in Nat
  BY <1>3
\* A position of the new log is an old one, one of the tail or the last.
<1>7. ASSUME NEW i \in DOMAIN log'
      PROVE  \/ i \in DOMAIN log /\ log'[i] = log[i]
             \/ \E k \in 1..count : i = n + k /\ log'[i].by = "here" /\ log'[i].id = tail[k]
             \/ extra = 1 /\ i = n + count + 1 /\ log'[i].by = "here" /\ log'[i].id = created + 1
  <2>1. i \in 1..n \/ (i - n) \in 1..count \/ (extra = 1 /\ i = n + count + 1)
    BY <1>3, <1>4
  <2>2. CASE (i - n) \in 1..count
    <3>1. n + (i - n) = i
      BY <1>3, <1>4
    <3>. QED
      BY <1>11, <2>2, <3>1
  <2>3. CASE extra = 1 /\ i = n + count + 1
    BY <1>1, <1>3, <1>11, <2>3
  <2>. QED
    BY <1>1, <1>3, <2>1, <2>2, <2>3
<1>8. \A k \in DOMAIN tail : tail[k] \in 1..created /\ Later(tail[k])
  BY <1>2, <1>3 DEF SourceSound, TailSound, Working, Landed, Committed
<1>9. \A k, l \in DOMAIN tail : k < l => tail[k] < tail[l]
  BY <1>2 DEF SourceSound, TailSound, Working
<1>10. /\ \A i \in DOMAIN log : log[i].id \in 1..created
       /\ \A i, j \in DOMAIN log :
          i < j /\ log[i].by = "here" /\ log[j].by = "here" => log[i].id < log[j].id
  BY DEF SourceSound, LogSound
<1>13. LogSound'
  <2>1. \A i \in DOMAIN log' : log'[i].id \in 1..created'
    <3>. TAKE i \in DOMAIN log'
    <3>1. CASE i \in DOMAIN log /\ log'[i] = log[i]
      BY SMTT(30), <1>1, <1>3, <1>10, <3>1
    <3>2. CASE \E k \in 1..count : i = n + k /\ log'[i].by = "here" /\ log'[i].id = tail[k]
      <4>1. PICK k \in 1..count : log'[i].id = tail[k]
        BY <3>2
      <4>2. tail[k] \in 1..created
        BY <1>8, <1>12
      <4>. QED
        BY SMTT(30), <1>1, <1>3, <4>1, <4>2
    <3>3. CASE extra = 1 /\ i = n + count + 1 /\ log'[i].by = "here" /\ log'[i].id = created + 1
      BY <1>1, <1>3, <1>11, <3>3
    <3>. QED
      BY <1>7, <3>1, <3>2, <3>3
  <2>2. ASSUME NEW i \in DOMAIN log', NEW j \in DOMAIN log', i < j,
               log'[i].by = "here", log'[j].by = "here"
        PROVE  log'[i].id < log'[j].id
    <3>1. CASE j \in DOMAIN log /\ log'[j] = log[j]
      <4>1. i \in DOMAIN log /\ log'[i] = log[i]
        BY <1>1, <1>3, <1>4, <2>2, <3>1
      <4>. QED
        BY <1>10, <2>2, <3>1, <4>1
    <3>2. ASSUME NEW l \in 1..count, j = n + l, log'[j].id = tail[l]
          PROVE  log'[i].id < log'[j].id
      <4>1. log'[j].id = tail[l] /\ l \in DOMAIN tail
        BY <1>11, <1>12, <3>2
      <4>2. CASE i \in DOMAIN log /\ log'[i] = log[i]
        BY <1>8, <2>2, <4>1, <4>2 DEF Later
      <4>3. CASE \E k \in 1..count : i = n + k /\ log'[i].by = "here" /\ log'[i].id = tail[k]
        <5>1. PICK k \in 1..count : i = n + k /\ log'[i].id = tail[k]
          BY <4>3
        <5>2. k < l /\ k \in DOMAIN tail
          BY <1>3, <1>12, <2>2, <3>2, <5>1
        <5>. QED
          BY <1>9, <4>1, <5>1, <5>2
      <4>4. ~(i = n + count + 1)
        BY <1>3, <2>2, <3>2
      <4>. QED
        BY <1>7, <4>2, <4>3, <4>4
    <3>3. CASE extra = 1 /\ j = n + count + 1 /\ log'[j].by = "here" /\ log'[j].id = created + 1
      <4>1. log'[j].id = created + 1
        BY <1>3, <1>11, <3>3
      <4>2. CASE i \in DOMAIN log /\ log'[i] = log[i]
        BY <1>3, <1>10, <4>1, <4>2
      <4>3. CASE \E k \in 1..count : i = n + k /\ log'[i].by = "here" /\ log'[i].id = tail[k]
        <5>1. PICK k \in 1..count : log'[i].id = tail[k]
          BY <4>3
        <5>2. tail[k] \in 1..created
          BY <1>8, <1>12
        <5>. QED
          BY <1>3, <4>1, <5>1, <5>2
      <4>4. ~(i = n + count + 1)
        BY <1>3, <1>4, <2>2, <3>3
      <4>. QED
        BY <1>7, <4>2, <4>3, <4>4
    <3>. QED
      BY <1>7, <3>1, <3>2, <3>3
  <2>. QED
    BY <2>1, <2>2 DEF LogSound
<1>14. TailSound'
  <2>1. ASSUME NEW k \in DOMAIN tail, k > count, NEW i \in DOMAIN log', log'[i].by = "here"
        PROVE  log'[i].id < tail[k]
    <3>1. CASE i \in DOMAIN log /\ log'[i] = log[i]
      BY <1>8, <2>1, <3>1 DEF Later
    <3>2. CASE \E l \in 1..count : i = n + l /\ log'[i].by = "here" /\ log'[i].id = tail[l]
      <4>1. PICK l \in 1..count : log'[i].id = tail[l]
        BY <3>2
      <4>2. l < k /\ l \in DOMAIN tail
        BY <1>3, <1>12, <2>1
      <4>. QED
        BY <1>9, <2>1, <4>1, <4>2
    <3>3. extra = 0
      BY <1>3, <2>1
    <3>. QED
      BY <1>7, <3>1, <3>2, <3>3
  <2>2. \A k \in DOMAIN tail : tail[k] \in 1..created'
    BY <1>1, <1>3, <1>8
  <2>3. \A k \in DOMAIN tail : k > count => Later(tail[k])'
    BY <2>1, <1>2 DEF Later
  <2>. QED
    BY <1>1, <1>2, <1>9, <2>2, <2>3 DEF TailSound, Landed, Committed
<1>15. Own' = extra /\ From' = n
  <2>1. created' # 0 \/ extra = 0
    BY <1>1, <1>3
  <2>2. Own' = extra
    BY <1>1, <1>3, <2>1 DEF Own
  <2>. QED
    BY <1>1, <1>3, <2>2 DEF From
<1>16. CommitSound'
  <2>1. \A k \in 1..worker'.count : IsHere(tail[k], From + k)'
    BY <1>1, <1>2, <1>11, <1>15 DEF IsHere
  <2>2. ASSUME worker'.extra # 0
        PROVE  /\ count = Len(tail) /\ worker'.extra <= created'
               /\ IsHere(worker.extra, worker.last)'
    <3>1. extra = 1
      BY <1>1, <2>2
    <3>2. worker'.extra = created + 1 /\ created' = created + 1
      BY <1>1, <3>1
    <3>3. count = Len(tail)
      <4>1. Len(tail) <= count
        BY <3>1
      <4>2. \A a, b \in Nat : a <= b /\ b <= a => a = b
        OBVIOUS
      <4>. QED
        BY <1>3, <4>1, <4>2, Zenon
    <3>4. worker'.extra <= created'
      BY <1>3, <3>2
    <3>. QED
      BY <1>1, <1>11, <3>1, <3>2, <3>3, <3>4 DEF IsHere
  <2>3. ended' => worker'.extra # 0
    BY <1>1, <1>2, <1>3
  <2>. QED
    <3>1. count <= Len(tail) /\ 0 <= n
      BY <1>3
    <3>. QED
      BY <1>1, <1>2, <1>15, <2>1, <2>2, <2>3, <3>1 DEF CommitSound
<1>17. Counted'
  <2>. SUFFICES ASSUME Pure'
                PROVE  /\ \A i \in DOMAIN log' : log'[i].id = i
                       /\ ended' => created' = Len(log')
                       /\ worker'.last = Len(log') /\ created' = From' + Len(tail) + Own'
                       /\ \A k \in DOMAIN tail : tail[k] = From' + k
                       /\ ended' => worker'.end
    BY <1>1, <1>2 DEF Counted, Committed
  <2>1. Pure
    <3>1. \A i \in DOMAIN log : i \in DOMAIN log' /\ log'[i] = log[i]
      BY <1>1, <1>3, <1>4
    <3>. QED
      BY <3>1 DEF Pure
  <2>2. /\ \A i \in DOMAIN log : log[i].id = i
        /\ created = n + Len(tail) /\ \A k \in DOMAIN tail : tail[k] = n + k
    BY <1>2, <2>1 DEF SourceSound, Counted, n
  <2>3. ASSUME NEW i \in DOMAIN log' PROVE log'[i].id = i
    <3>1. CASE i \in DOMAIN log /\ log'[i] = log[i]
      BY <2>2, <3>1
    <3>2. CASE \E k \in 1..count : i = n + k /\ log'[i].by = "here" /\ log'[i].id = tail[k]
      BY <1>11, <1>12, <2>2, <3>2
    <3>3. CASE extra = 1 /\ i = n + count + 1 /\ log'[i].by = "here" /\ log'[i].id = created + 1
      <4>0. count <= Len(tail) /\ Len(tail) <= count /\ Len(tail) \in Nat /\ count \in Nat
        BY Zenon, <1>3, <3>3
      <4>1. count = Len(tail) /\ created = n + Len(tail)
        <5>1. \A x, y \in Nat : x <= y /\ y <= x => x = y
          OBVIOUS
        <5>. QED
          BY Zenon, <4>0, <5>1, <2>2
      <4>. QED
        BY <1>3, <3>3, <4>1
    <3>. QED
      BY <1>7, <3>1, <3>2, <3>3
  <2>4. ASSUME ended' PROVE created' = Len(log')
    <3>1. extra = 1
      BY <1>2, <2>4
    <3>2. count = Len(tail)
      <4>1. Len(tail) <= count
        BY <3>1
      <4>2. \A a, b \in Nat : a <= b /\ b <= a => a = b
        OBVIOUS
      <4>. QED
        BY <1>3, <4>1, <4>2, Zenon
    <3>. QED
      BY <1>1, <1>3, <2>2, <3>1, <3>2
  <2>5. created' = n + Len(tail) + extra
    BY <1>1, <1>3, <2>2
  <2>. QED
    BY <1>1, <1>15, <2>2, <2>3, <2>4, <2>5
<1>18. EndSound'
  <2>1. ended' => Len(log') # 0 /\ log' # <<>>
    BY <1>1, <1>2, <1>3
  <2>. QED
    BY <1>1, <2>1 DEF EndSound, Committed
<1>. QED
  BY <1>5, <1>6, <1>13, <1>14, <1>16, <1>17, <1>18 DEF SourceSound

\* promote_pending_execution is a commit of one event of the tail.
LEMMA PromoteSound ==
    ASSUME Limits, SourceTypes, SourceSound, Promote
    PROVE  /\ SourceTypes' /\ SourceSound' /\ LogGrows
           /\ \E count \in 0..Len(tail), extra \in 0..1 :
                Lands(count, extra) /\ (extra = 1 => Len(tail) <= count)
<1>1. 1 \in 0..Len(tail)
  BY DEF Promote, SourceTypes
<1>2. Land(1, 0 = 1, FALSE)
  BY DEF Promote, Land
<1>3. Lands(1, 0)
  <2>1. 0 \in 0..1 /\ FALSE \in BOOLEAN
    OBVIOUS
  <2>. QED
    BY <1>1, <1>2, <2>1, Landing, Zenon
<1>4. 0 \in 0..1 /\ 0 # 1
  OBVIOUS
<1>. QED
  BY <1>1, <1>3, <1>4, LandSound, Zenon

\* A checkpoint is a commit of the whole tail and one event more.
LEMMA CheckpointSound ==
    ASSUME Limits, SourceTypes, SourceSound, NEW end \in BOOLEAN, Checkpoint(end)
    PROVE  /\ SourceTypes' /\ SourceSound' /\ LogGrows
           /\ \E count \in 0..Len(tail), extra \in 0..1 :
                Lands(count, extra) /\ (extra = 1 => Len(tail) <= count)
<1>1. Len(tail) \in 0..Len(tail) /\ Len(tail) <= Len(tail)
  BY DEF SourceTypes
<1>2. Land(Len(tail), 1 = 1, end)
  BY Zenon DEF Checkpoint, Land
<1>3. Lands(Len(tail), 1)
  <2>1. 1 \in 0..1
    OBVIOUS
  <2>. QED
    BY <1>1, <1>2, <2>1, Landing, Zenon
<1>4. 1 \in 0..1
  OBVIOUS
<1>. QED
  BY <1>1, <1>3, <1>4, LandSound, Zenon

\* The steps that leave the log alone and the producer running or over.
LEMMA ProducerSound ==
    ASSUME Limits, SourceTypes, SourceSound, UNCHANGED <<log, ended, created>>,
           \/ \E early \in BOOLEAN : Register(early)
           \/ StreamDelta \/ (\E published \in BOOLEAN : ReadBack(published))
           \/ WorkerLeaves \/ WorkerFails \/ LoseClaim
    PROVE  SourceTypes' /\ SourceSound' /\ LogGrows
<1>. USE DEF SourceTypes, SourceSound
<1>1. LogGrows
  <2>1. worker.stage # "left" \/ worker' = worker
    BY DEF Register, StreamDelta, ReadBack, WorkerLeaves, WorkerFails, LoseClaim, Working
  <2>. QED
    BY <2>1 DEF LogGrows
<1>2. LogSound'
  BY DEF LogSound
<1>3. (SourceTypes' /\ worker'.stage \in {"running", "over", "left"}) \/ StreamDelta
  <2>1. CASE \E early \in BOOLEAN : Register(early)
    BY <2>1 DEF Register, Workers, Stages, sourceVars
  <2>2. CASE \E published \in BOOLEAN : ReadBack(published)
    <3>1. <<>> \in Seq(Nat)
      OBVIOUS
    <3>. QED
      BY <2>2, <3>1 DEF ReadBack, Workers, Stages, sourceVars
  <2>3. CASE WorkerFails
    BY <2>3 DEF WorkerFails, Workers, Stages, sourceVars
  <2>4. CASE LoseClaim
    <3>1. <<>> \in Seq(Nat)
      OBVIOUS
    <3>. QED
      BY <2>4, <3>1 DEF LoseClaim, Workers, Stages
  <2>5. CASE WorkerLeaves
    BY <2>5 DEF WorkerLeaves, Workers, Stages, sourceVars
  <2>. QED
    BY <2>1, <2>2, <2>3, <2>4, <2>5
<1>4. CASE StreamDelta
  <2>1. UNCHANGED <<worker, tail, failure>>
    BY <1>4 DEF StreamDelta
  <2>. QED
    BY <1>1, <1>2, <2>1 DEF TailSound, CommitSound, Counted, Pure, Later, IsHere, Own, From,
                         Landed, Working, Committed, EndSound
<1>5. CASE \E early \in BOOLEAN : Register(early)
  <2>1. /\ worker.stage = "none" /\ worker'.stage = "running"
        /\ tail' = tail /\ tail = <<>>
    BY <1>5 DEF Register, Workers, TailSound
  <2>2. ~StreamDelta
    BY <2>1 DEF StreamDelta
  <2>3. TailSound' /\ CommitSound'
    BY <2>1 DEF TailSound, CommitSound, Committed, Working
  <2>4. Counted'
    BY <2>1 DEF Counted, Pure, Committed
  <2>5. EndSound'
    BY <1>5 DEF EndSound, Register
  <2>. QED
    BY <1>1, <1>2, <1>3, <2>2, <2>3, <2>4, <2>5
<1>6. CASE (\E published \in BOOLEAN : ReadBack(published)) \/ WorkerLeaves \/ WorkerFails \/ LoseClaim
  <2>1. worker'.stage \in {"over", "left"}
    BY <1>6 DEF ReadBack, WorkerLeaves, WorkerFails, LoseClaim, Workers
  <2>2. SourceTypes'
    BY <1>3, <1>4, <1>6
  <2>3. TailSound' /\ CommitSound'
    BY <2>1 DEF TailSound, CommitSound, Committed, Working
  <2>4. Counted'
    BY <2>1 DEF Counted, Pure, Committed
  <2>5. EndSound'
    BY <2>1 DEF EndSound, Working
  <2>. QED
    BY <1>1, <1>2, <2>2, <2>3, <2>4, <2>5
<1>. QED
  BY <1>4, <1>5, <1>6

\* The next event goes to the end of the tail.
LEMMA AppendSound ==
    ASSUME Limits, SourceTypes, SourceSound, AppendEvent
    PROVE  SourceTypes' /\ SourceSound' /\ LogGrows
<1>1. /\ worker.stage = "running" /\ worker' = worker /\ log' = log /\ ended' = ended
      /\ failure' = failure /\ created' = created + 1 /\ created < MaxEvents
      /\ tail' = Append(tail, created')
  BY DEF AppendEvent, More
<1>2. /\ created \in Nat /\ created' \in 0..MaxEvents /\ created' \in Nat /\ tail \in Seq(Nat)
      /\ log \in Seq([by : {"here", "there"}, id : Nat])
  BY <1>1 DEF SourceTypes, Limits
<1>. DEFINE n == Len(tail)
<1>3. /\ tail' \in Seq(Nat) /\ Len(tail') = n + 1 /\ n \in Nat /\ DOMAIN tail = 1..n
      /\ DOMAIN tail' = 1..(n + 1)
      /\ \A i \in 1..n : tail'[i] = tail[i]
      /\ tail'[n + 1] = created + 1
  BY <1>1, <1>2, AppendProperties
<1>4. SourceTypes'
  BY <1>1, <1>2, <1>3 DEF SourceTypes
<1>5. LogGrows
  BY <1>1, <1>2 DEF LogGrows
<1>6. /\ \A k \in DOMAIN tail : tail[k] \in 1..created /\ Later(tail[k])
      /\ \A k, l \in DOMAIN tail : k < l => tail[k] < tail[l]
      /\ \A i \in DOMAIN log : log[i].id \in 1..created
  BY <1>1, <1>3 DEF SourceSound, LogSound, TailSound, Working, Landed, Committed
<1>. HIDE DEF n
<1>7. LogSound'
  BY <1>1, <1>2 DEF SourceSound, LogSound
<1>8. TailSound'
  <2>1. ASSUME NEW k \in DOMAIN tail' PROVE tail'[k] \in 1..created' /\ Later(tail'[k])
    <3>1. CASE k \in 1..n
      <4>1. tail'[k] = tail[k] /\ tail[k] \in 1..created /\ Later(tail[k])
        BY <1>3, <1>6, <3>1
      <4>. QED
        BY <1>1, <1>2, <4>1
    <3>2. CASE k = n + 1
      <4>1. Later(created + 1)
        BY <1>2, <1>6 DEF Later
      <4>2. created + 1 \in 1..created'
        BY <1>1, <1>2
      <4>. QED
        BY <1>3, <3>2, <4>1, <4>2
    <3>. QED
      BY <1>3, <3>1, <3>2
  <2>2. ASSUME NEW k \in DOMAIN tail', NEW l \in DOMAIN tail', k < l PROVE tail'[k] < tail'[l]
    <3>1. k \in 1..n /\ tail'[k] = tail[k]
      BY <1>3, <2>2
    <3>2. CASE l \in 1..n
      BY <1>3, <1>6, <2>2, <3>1, <3>2
    <3>3. CASE l = n + 1
      BY <1>2, <1>3, <1>6, <3>1, <3>3
    <3>. QED
      BY <1>3, <3>2, <3>3
  <2>3. \A k \in DOMAIN tail' : Later(tail[k])'
    BY <1>1, <2>1 DEF Later
  <2>. QED
    BY <1>1, <2>1, <2>2, <2>3 DEF TailSound
<1>9. CommitSound'
  BY <1>1 DEF CommitSound, Committed
<1>10. Counted'
  <2>. SUFFICES ASSUME Pure
                PROVE  /\ \A i \in DOMAIN log : log[i].id = i
                       /\ ~ended /\ created' = Len(log) + Len(tail')
                       /\ \A k \in DOMAIN tail' : tail'[k] = Len(log) + k
    BY <1>1 DEF Counted, Pure, Committed
  <2>1. /\ \A i \in DOMAIN log : log[i].id = i
        /\ ~ended /\ created = Len(log) + n
        /\ \A k \in DOMAIN tail : tail[k] = Len(log) + k
    BY <1>1 DEF SourceSound, Counted, n
  <2>2. Len(log) \in Nat
    BY <1>2
  <2>3. created' = Len(log) + Len(tail')
    BY SMTT(30), <1>1, <1>3, <2>1, <2>2
  <2>4. \A k \in DOMAIN tail' : tail'[k] = Len(log) + k
    BY SMTT(30), <1>3, <2>1, <2>2
  <2>. QED
    BY <2>1, <2>3, <2>4
<1>11. EndSound'
  BY <1>1 DEF SourceSound, EndSound, Working, Committed
<1>. QED
  BY <1>4, <1>5, <1>7, <1>8, <1>9, <1>10, <1>11 DEF SourceSound

\* The answer of a commit.
LEMMA AcknowledgeSound ==
    ASSUME Limits, SourceTypes, SourceSound, Acknowledge
    PROVE  SourceTypes' /\ SourceSound' /\ LogGrows
<1>. DEFINE c == worker.count
            n == Len(tail)
<1>1. /\ worker.stage = "committed" /\ worker \in Workers
      /\ UNCHANGED <<log, ended, created, failure>>
      /\ tail' = SubSeq(tail, c + 1, n)
      /\ worker' = [worker EXCEPT !.stage = IF worker.end THEN "over" ELSE "running"]
  BY DEF Acknowledge, sourceVars, SourceTypes
<1>2. /\ worker' \in Workers /\ worker'.stage \in {"running", "over"}
      /\ worker'.stage = "running" => ~worker.end
  BY <1>1 DEF Workers, Stages
<1>3. /\ c \in Nat /\ c <= n /\ n \in Nat /\ tail \in Seq(Nat) /\ DOMAIN tail = 1..n
      /\ Len(log) \in Nat /\ created \in Nat /\ worker.last \in Nat /\ worker.extra \in Nat
  BY <1>1 DEF SourceSound, CommitSound, Committed, SourceTypes, Workers
<1>4. worker.extra # 0 => n <= c
  <2>1. worker.extra # 0 => worker.count = Len(tail)
    BY <1>1 DEF SourceSound, CommitSound, Committed
  <2>. QED
    BY <1>3, <2>1
<1>5. /\ tail' \in Seq(Nat) /\ Len(tail') = n - c
      /\ \A i \in 1..(n - c) : tail'[i] = tail[c + i]
  <2>1. c + 1 \in Int /\ n \in Int /\ (\A i \in (c + 1)..n : tail[i] \in Nat)
    BY <1>3
  <2>2. /\ tail' \in Seq(Nat)
        /\ Len(tail') = IF c + 1 <= n THEN n - (c + 1) + 1 ELSE 0
        /\ \A i \in 1..(n - (c + 1) + 1) : tail'[i] = tail[(c + 1) + i - 1]
    BY <1>1, <2>1, SubSeqProperties
  <2>3. n - (c + 1) + 1 = n - c /\ (c + 1 > n => n - c = 0)
    BY <1>3
  <2>4. Len(tail') = n - c
    BY <1>3, <2>2, <2>3
  <2>5. ASSUME NEW i \in 1..(n - c) PROVE tail'[i] = tail[c + i]
    <3>1. (c + 1) + i - 1 = c + i
      BY <1>3
    <3>. QED
      BY <2>2, <2>3, <3>1
  <2>. QED
    BY <2>2, <2>4, <2>5
<1>. HIDE DEF c, n
<1>6. \A i \in DOMAIN tail' : i \in Nat /\ c + i \in 1..n /\ c + i > c /\ tail'[i] = tail[c + i]
  <2>1. DOMAIN tail' = 1..(n - c)
    BY <1>3, <1>5
  <2>2. ASSUME NEW i \in 1..(n - c) PROVE i \in Nat /\ c + i \in 1..n /\ c + i > c
    BY <1>3
  <2>. QED
    BY <1>5, <2>1, <2>2
<1>7. SourceTypes'
  BY <1>1, <1>2, <1>5 DEF SourceTypes
<1>8. LogGrows /\ LogSound'
  <2>1. LogGrows
    BY <1>1, <1>3 DEF LogGrows
  <2>2. LogSound'
    BY <1>1 DEF SourceSound, LogSound
  <2>. QED
    BY <2>1, <2>2
<1>9. CommitSound'
  BY <1>2 DEF CommitSound, Committed
<1>10. TailSound'
  <2>1. /\ \A k \in 1..n : tail[k] \in 1..created
        /\ \A k, l \in 1..n : k < l => tail[k] < tail[l]
        /\ \A k \in 1..n : k > c => Later(tail[k])
    BY <1>1, <1>3 DEF SourceSound, TailSound, Working, Landed, Committed, c
  <2>2. \A k \in DOMAIN tail' : tail'[k] \in 1..created /\ Later(tail'[k])
    BY <1>6, <2>1
  <2>3. ASSUME NEW k \in DOMAIN tail', NEW l \in DOMAIN tail', k < l PROVE tail'[k] < tail'[l]
    <3>1. c + k < c + l
      BY <1>3, <1>6, <2>3
    <3>. QED
      BY <1>6, <2>1, <3>1
  <2>4. \A k \in DOMAIN tail' : Later(tail[k])'
    BY <1>1, <2>2 DEF Later
  <2>. QED
    BY <1>1, <1>2, <2>2, <2>3, <2>4 DEF TailSound, Working
<1>11. Counted'
  <2>. SUFFICES ASSUME Pure
                PROVE  /\ \A i \in DOMAIN log : log[i].id = i
                       /\ ended => created = Len(log)
                       /\ worker'.stage = "running" =>
                            /\ created = Len(log) + Len(tail') /\ ~ended
                            /\ \A k \in DOMAIN tail' : tail'[k] = Len(log) + k
    BY <1>1, <1>2 DEF Counted, Pure, Committed
  <2>1. /\ \A i \in DOMAIN log : log[i].id = i
        /\ ended => created = Len(log)
        /\ worker.last = Len(log) /\ created = From + Len(tail) + Own
        /\ \A k \in DOMAIN tail : tail[k] = From + k
        /\ ended => worker.end
    BY <1>1 DEF SourceSound, Counted, Committed
  <2>2. From = Len(log) - Own - c /\ Own \in 0..1 /\ (Own = 1 => n <= c)
    BY <1>3, <1>4, <2>1 DEF From, Own, c
  <2>3. created = Len(log) + Len(tail')
    <3>1. created = From + n + Own
      BY <2>1 DEF n
    <3>. QED
      BY <1>3, <1>5, <2>2, <3>1
  <2>4. ASSUME NEW k \in DOMAIN tail' PROVE tail'[k] = Len(log) + k
    <3>1. k \in Nat /\ c + k \in 1..n /\ c + k > c /\ tail'[k] = tail[c + k]
      BY <1>6
    <3>2. tail'[k] = From + (c + k)
      BY <1>3, <2>1, <3>1
    <3>3. Own = 0
      BY <1>3, <2>2, <3>1
    <3>4. From = Len(log) - c
      BY <1>3, <2>2, <3>3
    <3>5. \A a, b, d \in Nat : (a - b) + (b + d) = a + d
      OBVIOUS
    <3>. QED
      <4>1. tail'[k] = (Len(log) - c) + (c + k)
        BY <3>2, <3>4, Zenon
      <4>2. (Len(log) - c) + (c + k) = Len(log) + k
        BY ZenonT(60), <1>3, <3>1, <3>5
      <4>. QED
        BY <4>1, <4>2, Zenon
  <2>. QED
    BY <1>2, <2>1, <2>3, <2>4
<1>12. EndSound'
  BY <1>1, <1>2 DEF SourceSound, EndSound, Working, Committed
<1>. QED
  BY <1>7, <1>8, <1>9, <1>10, <1>11, <1>12 DEF SourceSound

\* Another runtime's commit comes after everything that is in the log.
LEMMA ElsewhereSound ==
    ASSUME Limits, SourceTypes, SourceSound,
           \E end, taken \in BOOLEAN : CommitElsewhere(end, taken)
    PROVE  /\ SourceTypes' /\ SourceSound' /\ LogGrows /\ ~Pure'
           /\ \A e : Later(e) => Later(e)'
<1>1. /\ log # <<>> /\ ~ended /\ created < MaxEvents /\ created' = created + 1
      /\ log' = Append(log, Event("there", created')) /\ ended' \in BOOLEAN
      /\ worker' = worker /\ tail' = tail /\ failure' = failure
  <2>1. PICK end \in BOOLEAN, taken \in BOOLEAN : CommitElsewhere(end, taken)
    OBVIOUS
  <2>2. ended' = end /\ end \in BOOLEAN
    BY <2>1 DEF CommitElsewhere
  <2>3. ended' \in BOOLEAN
    BY <2>2
  <2>. QED
    BY <2>1, <2>3 DEF CommitElsewhere, More
<1>2. /\ created \in Nat /\ created' \in 0..MaxEvents /\ created' \in Nat
      /\ log \in Seq([by : {"here", "there"}, id : Nat])
  BY <1>1 DEF SourceTypes, Limits
<1>. DEFINE n == Len(log)
            new == Event("there", created')
<1>3. new.by = "there" /\ new.id = created' /\ new \in [by : {"here", "there"}, id : Nat]
  BY <1>2 DEF Event
<1>. HIDE DEF new
<1>4. /\ log' \in Seq([by : {"here", "there"}, id : Nat]) /\ Len(log') = n + 1 /\ n \in Nat
      /\ DOMAIN log = 1..n /\ DOMAIN log' = 1..(n + 1)
      /\ \A i \in 1..n : log'[i] = log[i]
      /\ log'[n + 1] = new
  <2>1. log' = Append(log, new)
    BY <1>1 DEF new
  <2>. QED
    BY <1>2, <1>3, <2>1, AppendProperties
<1>5. n >= 1
  BY <1>1, <1>2
<1>. HIDE DEF n
<1>6. \A i \in DOMAIN log' :
         \/ i \in DOMAIN log /\ log'[i] = log[i]
         \/ i = n + 1 /\ log'[i].by = "there" /\ log'[i].id = created'
  BY <1>3, <1>4
<1>7. LogGrows
  <2>1. n <= Len(log') /\ created <= created'
    BY <1>1, <1>2, <1>4
  <2>. QED
    BY <1>1, <1>4, <2>1 DEF LogGrows, n
<1>8. LogSound'
  <2>1. /\ \A i \in DOMAIN log : log[i].id \in 1..created
        /\ \A i, j \in DOMAIN log :
          i < j /\ log[i].by = "here" /\ log[j].by = "here" => log[i].id < log[j].id
    BY DEF SourceSound, LogSound
  <2>2. \A i \in DOMAIN log' : log'[i].id \in 1..created'
    BY <1>1, <1>2, <1>6, <2>1
  <2>3. \A i \in DOMAIN log' : log'[i].by = "here" => i \in DOMAIN log /\ log'[i] = log[i]
    BY <1>6
  <2>. QED
    BY <2>1, <2>2, <2>3 DEF LogSound
<1>9. ~Pure'
  <2>1. n + 1 \in DOMAIN log' /\ n + 1 > 1 /\ log'[n + 1].by # "here"
    BY <1>3, <1>4, <1>5
  <2>. QED
    BY <2>1 DEF Pure
<1>10. Counted'
  BY <1>9 DEF Counted
<1>11. \A e : Later(e) => Later(e)'
  <2>1. \A i \in DOMAIN log' : log'[i].by = "here" => i \in DOMAIN log /\ log'[i] = log[i]
    BY <1>6
  <2>. QED
    BY <2>1 DEF Later
<1>12. TailSound'
  <2>1. ASSUME Working, NEW k \in DOMAIN tail PROVE tail[k] \in 1..created'
    <3>1. tail[k] \in 1..created
      BY <2>1 DEF SourceSound, TailSound
    <3>. QED
      BY <1>1, <1>2, <3>1
  <2>2. ASSUME Working, NEW k \in DOMAIN tail, k > Landed PROVE Later(tail[k])'
    <3>1. Later(tail[k])
      BY <2>2 DEF SourceSound, TailSound
    <3>. QED
      BY <1>1, <1>11, <3>1
  <2>. QED
    BY <1>1, <2>1, <2>2 DEF SourceSound, TailSound, Working, Landed, Committed
<1>13. CommitSound'
  <2>. SUFFICES ASSUME Committed PROVE CommitSound'
    BY <1>1 DEF CommitSound, Committed
  <2>0. /\ Committed' /\ Own' = Own /\ From' = From
    BY <1>1 DEF Committed, Own, From
  <2>1. /\ worker.count <= Len(tail) /\ 0 <= From /\ worker.last <= n
        /\ \A k \in 1..worker.count : IsHere(tail[k], From + k)
        /\ worker.extra # 0 =>
             /\ worker.count = Len(tail) /\ worker.extra <= created
             /\ IsHere(worker.extra, worker.last)
        /\ worker.end => worker.extra # 0 /\ ended
    BY DEF SourceSound, CommitSound, n
  <2>2. worker \in Workers /\ worker.last \in Nat /\ worker.extra \in Nat /\ worker.count \in Nat
    BY DEF SourceTypes, Workers
  <2>3. Own \in 0..1 /\ From = worker.last - Own - worker.count /\ (worker.extra # 0 => Own = 1)
    BY <2>2 DEF Own, From
  <2>4. ASSUME NEW k \in 1..worker.count PROVE From + k \in 1..n
    <3>1. From + k <= worker.last - Own /\ From + k >= 1 /\ From + k \in Int
      BY SMTT(30), <2>1, <2>2, <2>3
    <3>. QED
      BY <1>4, <2>1, <2>2, <2>3, <3>1
  <2>5. worker.extra # 0 => worker.last \in 1..n
    BY <1>4, <2>1, <2>2, <2>3
  <2>6. \A k \in 1..worker.count : log'[From + k].by = "here" /\ log'[From + k].id = tail[k]
    BY <1>4, <2>1, <2>4 DEF IsHere
  <2>7. worker.extra # 0 =>
            log'[worker.last].by = "here" /\ log'[worker.last].id = worker.extra
    BY <1>4, <2>1, <2>5 DEF IsHere
  <2>8. worker.last <= Len(log') /\ (worker.extra # 0 => worker.extra <= created')
    BY <1>1, <1>2, <1>4, <2>1, <2>2
  <2>. QED
    BY <1>1, <2>0, <2>1, <2>6, <2>7, <2>8 DEF CommitSound, IsHere
<1>14. SourceTypes'
  BY <1>1, <1>2, <1>4 DEF SourceTypes
<1>15. EndSound'
  <2>1. log'[Len(log')].by = "there" /\ log' # <<>>
    BY <1>3, <1>4
  <2>. QED
    BY <2>1 DEF EndSound
<1>. QED
  BY <1>7, <1>8, <1>9, <1>10, <1>11, <1>12, <1>13, <1>14, <1>15 DEF SourceSound

-----------------------------------------------------------------------------
(* What the producer does to a reader: nothing but feed it. *)

\* Types in parts.
LEMMA TypesParts == Types <=> SourceTypes /\ broker \in Brokers /\ reader \in Readers
BY DEF Types, SourceTypes

\* What a reader has of the log is not touched by what is appended to it.
LEMMA ReaderKeeps ==
    ASSUME SourceTypes, SourceTypes', reader \in Readers, reader' = reader, LogGrows,
           failure => failure', ReaderSound, PureSeen, DeliverySound
    PROVE  ReaderSound' /\ PureSeen' /\ DeliverySound'
<1>. DEFINE n == Len(log)
<1>1. /\ n \in Nat /\ DOMAIN log = 1..n /\ Len(log') \in Nat /\ DOMAIN log' = 1..Len(log')
      /\ created \in Nat /\ created' \in Int
  BY DEF SourceTypes
<1>2. /\ n <= Len(log') /\ \A i \in 1..n : log'[i] = log[i]
      /\ created <= created' /\ (ended => ended' /\ log' = log)
      /\ worker.stage = "left" => worker'.stage = "left"
  BY DEF LogGrows
<1>3. \A i \in DOMAIN log : i \in DOMAIN log' /\ log'[i] = log[i]
  BY <1>1, <1>2
<1>4. Pure' => Pure
  BY <1>3 DEF Pure
<1>5. Miscounted => Miscounted'
  BY <1>3 DEF Miscounted
<1>6. /\ reader.cursor \in Nat /\ reader.cursor <= n /\ reader.start \in Nat
      /\ reader.provisional \in Nat /\ reader.skip \in Nat /\ reader.base \in Int
  BY DEF ReaderSound, Readers
<1>7. ReaderSound'
  <2>1. reader.cursor <= Len(log')
    BY <1>1, <1>2, <1>6
  <2>2. reader.base \in 0..n => reader.base \in 0..Len(log')
    BY <1>1, <1>2
  <2>. QED
    BY <1>2, <2>1, <2>2 DEF ReaderSound
<1>8. PureSeen'
  <2>1. Stand' = Stand /\ Stand \in Nat
    BY <1>6 DEF Stand
  <2>2. Stand <= created => Stand <= created'
    BY <1>1, <1>2, <2>1
  <2>3. reader.cursor + reader.skip <= created => reader.cursor + reader.skip <= created'
    BY <1>1, <1>2, <1>6
  <2>. QED
    BY <1>4, <2>1, <2>2, <2>3 DEF PureSeen
<1>9. DeliverySound'
  <2>1. \A i \in (reader.start + 1)..reader.cursor : log'[i] = log[i]
    BY <1>1, <1>2, <1>6
  <2>. QED
    BY <1>5, <2>1 DEF DeliverySound
<1>. QED
  BY <1>7, <1>8, <1>9

\* A reader that follows goes on doing so if what is published goes to the
\* buffer and to its queue.
LEMMA FollowKeeps ==
    ASSUME SourceTypes, SourceTypes', broker \in Brokers, broker' \in Brokers,
           reader \in Readers, reader' = reader, LogGrows,
           ReaderSound, FollowSound, PureFollow, NEW X \in SUBSET (1..MaxEvents),
           Following' => /\ Following /\ broker'.base = broker.base /\ ~broker'.replay
                         /\ Buffered' = Buffered \cup X /\ Queued' = Queued \cup X
                         /\ Increasing(broker'.sub.queue)
                         /\ \A x \in X : (Pure => broker.base < x) /\ \A e \in Buffered : e < x
    PROVE  FollowSound' /\ PureFollow'
<1>. SUFFICES ASSUME Following' PROVE FollowSound' /\ PureFollow'
  BY DEF FollowSound, PureFollow
<1>1. /\ Following /\ broker'.base = broker.base /\ ~broker'.replay
      /\ Buffered' = Buffered \cup X /\ Queued' = Queued \cup X
      /\ Increasing(broker'.sub.queue)
      /\ \A x \in X : (Pure => broker.base < x) /\ \A e \in Buffered : e < x
  OBVIOUS
<1>2. /\ broker.base # -1 /\ ~broker.replay /\ reader.base = broker.base
      /\ Increasing(broker.sub.queue) /\ Queued \subseteq Buffered
      /\ \A e \in Read, f \in Queued : e < f
      /\ reader.phase = "prefix" => Queued = Buffered
      /\ reader.phase = "held" => reader.held \in Read /\ \A e \in Read : e <= reader.held
  BY <1>1 DEF FollowSound
<1>3. Buffered \subseteq 1..MaxEvents
  BY DEF Buffered, EventsOf
<1>4. \A e \in Buffered : e \notin X
  <2>1. \A e \in Buffered : ~(e < e)
    BY <1>3
  <2>. QED
    BY <1>1, <2>1
<1>5. Read' = Read
  BY <1>1, <1>2, <1>4 DEF Read
<1>6. \A e \in Read, f \in Queued' : e < f
  BY <1>1, <1>2 DEF Read
<1>7. /\ Len(log) \in Nat /\ Len(log) <= Len(log') /\ \A i \in 1..Len(log) : log'[i] = log[i]
      /\ reader.cursor \in Nat /\ reader.cursor <= Len(log) /\ reader.provisional \in Nat
  BY DEF SourceTypes, LogGrows, ReaderSound, Readers
<1>8. \A i \in 1..reader.cursor : log'[i] = log[i]
  BY <1>7
<1>9. Ahead' = Ahead
  <2>1. \A e : \A i \in 1..reader.cursor : IsHere(e, i)' <=> IsHere(e, i)
    BY <1>8 DEF IsHere
  <2>. QED
    BY <1>5, <2>1 DEF Ahead
<1>10. ASSUME reader.phase = "live", ~reader.aligning
       PROVE  /\ \/ reader.cursor = broker.base
                 \/ reader.cursor > 0 /\ \E e \in Read : IsHere(e, reader.cursor)'
              /\ Ahead \subseteq reader.delivered /\ Cardinality(Ahead) = reader.provisional
  <2>1. /\ \/ reader.cursor = broker.base
           \/ reader.cursor > 0 /\ \E e \in Read : IsHere(e, reader.cursor)
        /\ Ahead \subseteq reader.delivered /\ Cardinality(Ahead) = reader.provisional
    BY <1>1, <1>10 DEF FollowSound
  <2>2. reader.cursor > 0 => log'[reader.cursor] = log[reader.cursor]
    BY <1>7, <1>8
  <2>. QED
    BY <2>1, <2>2 DEF IsHere
<1>11. FollowSound'
  <2>1. Queued' \subseteq Buffered' /\ (reader.phase = "prefix" => Queued' = Buffered')
    BY <1>1, <1>2
  <2>. QED
    BY <1>1, <1>2, <1>5, <1>6, <1>9, <1>10, <2>1 DEF FollowSound
<1>12. PureFollow'
  <2>. SUFFICES ASSUME Pure', reader.phase = "live", ~reader.aligning
                PROVE  /\ Queued' = {e \in Buffered' : e > Stand}
                       /\ Stand = broker.base \/ Stand \in Buffered'
    BY <1>1 DEF PureFollow, Stand
  <2>1. Pure
    <3>1. DOMAIN log = 1..Len(log) /\ DOMAIN log' = 1..Len(log') /\ Len(log') \in Nat
      BY DEF SourceTypes
    <3>2. \A i \in DOMAIN log : i \in DOMAIN log' /\ log'[i] = log[i]
      BY <1>7, <3>1
    <3>. QED
      BY <3>2 DEF Pure
  <2>2. /\ Queued = {e \in Buffered : e > Stand}
        /\ Stand = broker.base \/ Stand \in Buffered
    BY <1>1, <2>1 DEF PureFollow
  <2>3. \A x \in X : x > Stand
    BY <1>1, <1>3, <1>7, <2>1, <2>2 DEF Stand, Brokers
  <2>. QED
    BY <1>1, <2>2, <2>3
<1>. QED
  BY <1>11, <1>12

-----------------------------------------------------------------------------
(* Steps that append to the log and leave the broker alone. *)

\* What a commit of either side must respect for the broker to stay right.
LEMMA BrokerKeeps ==
    ASSUME SourceTypes, SourceTypes', broker \in Brokers, broker' = broker,
           BrokerSound, QueueSound, LogGrows, failure' = failure, tail' = tail, reader' = reader,
           \/ worker' = worker
           \/ worker.stage = "running" /\ worker'.stage = "committed",
           \A e \in Buffered : Later(e) =>
                Later(e)' \/ \E i \in DOMAIN log' : i > Len(log) /\ IsHere(e, i)',
           Committed' => /\ broker.base <= From'
                         /\ worker'.extra # 0 => \A e \in Buffered : e < worker'.extra,
           Pure' => Pure /\ Top' = Top
    PROVE  BrokerSound' /\ QueueSound'
<1>. DEFINE n == Len(log)
<1>1. /\ n \in Nat /\ DOMAIN log = 1..n /\ Len(log') \in Nat /\ DOMAIN log' = 1..Len(log')
      /\ created \in Nat /\ created' \in Int
  BY DEF SourceTypes
<1>2. /\ n <= Len(log') /\ (\A i \in 1..n : log'[i] = log[i])
      /\ created <= created' /\ (ended => ended')
  BY DEF LogGrows
<1>3. \A i \in DOMAIN log : i \in DOMAIN log' /\ log'[i] = log[i]
  BY <1>1, <1>2
<1>4. Buffered' = Buffered /\ Buffered \subseteq 1..MaxEvents
  BY DEF Buffered, EventsOf
<1>5. /\ broker.seqOf \in [1..MaxEvents -> Nat] /\ broker.base \in Int
  BY DEF Brokers
<1>6. Numbered'
  <2>. SUFFICES ASSUME NEW e \in 1..MaxEvents, broker.seqOf[e] # 0
                PROVE  broker.seqOf[e] <= Len(log') /\ IsHere(e, broker.seqOf[e])'
    BY DEF Numbered
  <2>1. broker.seqOf[e] <= n /\ IsHere(e, broker.seqOf[e]) /\ broker.seqOf[e] \in Nat
    BY <1>5 DEF BrokerSound, Numbered
  <2>2. broker.seqOf[e] \in 1..n
    BY <1>1, <2>1
  <2>3. log'[broker.seqOf[e]] = log[broker.seqOf[e]]
    BY <1>2, <2>2
  <2>. QED
    BY <1>1, <1>2, <2>1, <2>3 DEF IsHere
<1>7. BufferSound'
  <2>1. /\ -1 <= broker.base /\ broker.base <= n
        /\ Len(broker.buffer) <= QueueLimit /\ Increasing(broker.buffer)
        /\ \A i \in DOMAIN broker.buffer : broker.buffer[i] \in 0..created
        /\ broker.base = -1 \/ broker.replay => broker.buffer = <<>>
        /\ \A e \in Buffered : (\E i \in DOMAIN log : i > broker.base /\ IsHere(e, i)) \/ Later(e)
    BY DEF BrokerSound, BufferSound
  <2>2. broker.base <= Len(log')
    BY <1>1, <1>2, <1>5, <2>1
  <2>3. \A i \in DOMAIN broker.buffer : broker.buffer[i] \in 0..created'
    BY <1>1, <1>2, <2>1
  <2>4. ASSUME NEW e \in Buffered
        PROVE  (\E i \in DOMAIN log' : i > broker.base /\ IsHere(e, i)') \/ Later(e)'
    <3>1. CASE \E i \in DOMAIN log : i > broker.base /\ IsHere(e, i)
      BY <1>3, <3>1 DEF IsHere
    <3>2. CASE Later(e)
      <4>1. \A i \in DOMAIN log' : i > n => i > broker.base
        BY <1>1, <1>5, <2>1
      <4>. QED
        BY <3>2, <4>1
    <3>. QED
      BY <2>1, <3>1, <3>2
  <2>. QED
    BY <1>4, <2>1, <2>2, <2>3, <2>4 DEF BufferSound
<1>8. OpenSound'
  BY <1>4 DEF BrokerSound, OpenSound, Working
<1>9. PureBuffer'
  BY <1>4 DEF BrokerSound, PureBuffer, Working
<1>10. CompletionSound'
  BY <1>2 DEF BrokerSound, CompletionSound, Working
<1>11. QueueSound'
  <2>1. ASSUME ~broker.sub.replay, NEW i \in DOMAIN broker.sub.queue
        PROVE  broker.sub.queue[i] \in 0..created'
    <3>1. broker.sub.queue[i] \in 0..created
      BY <2>1 DEF QueueSound
    <3>. QED
      BY <1>1, <1>2, <3>1
  <2>. QED
    BY <2>1 DEF QueueSound
<1>. QED
  BY <1>6, <1>7, <1>8, <1>9, <1>10, <1>11 DEF BrokerSound

\* The reader is served as before when only the log grows.
LEMMA GrowthServes ==
    ASSUME SourceTypes, SourceTypes', broker \in Brokers, broker' = broker,
           reader \in Readers, reader' = reader, failure' = failure, LogGrows, ReaderInv
    PROVE  ReaderSound' /\ PureSeen' /\ DeliverySound' /\ FollowSound' /\ PureFollow'
<1>1. ReaderSound' /\ PureSeen' /\ DeliverySound'
  BY ReaderKeeps DEF ReaderInv
<1>2. {} \in SUBSET (1..MaxEvents) /\ broker' \in Brokers
  OBVIOUS
<1>3. Following' => /\ Following /\ broker'.base = broker.base /\ ~broker'.replay
                    /\ Buffered' = Buffered \cup {} /\ Queued' = Queued \cup {}
                    /\ Increasing(broker'.sub.queue)
                    /\ \A x \in {} : (Pure => broker.base < x) /\ \A e \in Buffered : e < x
  BY DEF Following, Buffered, Queued, EventsOf, ReaderInv, FollowSound
<1>4. ReaderSound /\ FollowSound /\ PureFollow
  BY DEF ReaderInv
<1>5. FollowSound' /\ PureFollow'
  BY <1>2, <1>3, <1>4, FollowKeeps
<1>. QED
  BY <1>1, <1>5

\* The local producer's commit.
LEMMA LandKeeps ==
    ASSUME Limits, StreamInv, NEW count \in 0..Len(tail), NEW extra \in 0..1, Lands(count, extra),
           extra = 1 => Len(tail) <= count, UNCHANGED <<broker, reader>>,
           SourceTypes', SourceSound', LogGrows
    PROVE  StreamInv'
<1>1. /\ SourceTypes /\ broker \in Brokers /\ reader \in Readers
      /\ SourceSound /\ BrokerSound /\ ReaderInv /\ QueueSound
  BY TypesParts DEF StreamInv, ReaderInv
<1>2. /\ worker.stage = "running" /\ tail' = tail /\ failure' = failure
      /\ Len(log') = Len(log) + count + extra
      /\ \A i \in 1..count : log'[Len(log) + i] = Event("here", tail[i])
      /\ created' = created + extra
      /\ worker'.stage = "committed" /\ worker'.count = count /\ worker'.last = Len(log')
      /\ worker'.extra = IF extra = 1 THEN created' ELSE 0
  BY DEF Lands
<1>. DEFINE n == Len(log)
<1>3. /\ n \in Nat /\ DOMAIN log = 1..n /\ DOMAIN log' = 1..(n + count + extra)
      /\ count \in Nat /\ extra \in Nat /\ created \in Nat /\ created' \in Nat /\ DOMAIN tail = 1..Len(tail)
      /\ Len(tail) \in Nat
  <2>1. DOMAIN log' = 1..Len(log') /\ n \in Nat /\ DOMAIN log = 1..n /\ created \in Nat
        /\ DOMAIN tail = 1..Len(tail) /\ Len(tail) \in Nat
    BY <1>1 DEF SourceTypes
  <2>. QED
    BY <1>2, <2>1
<1>. HIDE DEF n
<1>4. Own' = extra
  <2>1. extra = 1 => created' # 0
    BY <1>2, <1>3
  <2>. QED
    BY <1>2, <2>1 DEF Own
<1>5. From' = n
  BY <1>2, <1>3, <1>4 DEF From, n
<1>6. Buffered \subseteq 1..created
  <2>1. \A e \in Buffered : e \in 1..MaxEvents /\ \E i \in DOMAIN broker.buffer : broker.buffer[i] = e
    BY DEF Buffered, EventsOf
  <2>2. \A i \in DOMAIN broker.buffer : broker.buffer[i] \in 0..created
    BY <1>1 DEF BrokerSound, BufferSound
  <2>. QED
    BY <1>3, <2>1, <2>2
<1>7. ASSUME NEW e \in Buffered, Later(e)
      PROVE  Later(e)' \/ \E i \in DOMAIN log' : i > Len(log) /\ IsHere(e, i)'
  <2>1. broker.seqOf[e] = 0
    <3>. SUFFICES ASSUME broker.seqOf[e] # 0 PROVE FALSE
      OBVIOUS
    <3>1. e \in 1..MaxEvents /\ broker.seqOf \in [1..MaxEvents -> Nat]
      BY <1>1 DEF Buffered, EventsOf, Brokers
    <3>2. broker.seqOf[e] <= n /\ IsHere(e, broker.seqOf[e]) /\ broker.seqOf[e] \in Nat \ {0}
      BY <1>1, <3>1 DEF BrokerSound, Numbered, n
    <3>3. broker.seqOf[e] \in DOMAIN log
      BY <1>3, <3>2
    <3>4. e < e
      BY <1>7, <3>2, <3>3 DEF Later, IsHere
    <3>. QED
      BY <3>1, <3>4
  <2>2. PICK k \in DOMAIN tail : tail[k] = e
    BY <1>1, <1>2, <2>1 DEF BrokerSound, OpenSound, Working
  <2>3. CASE k <= count
    <3>1. k \in 1..count /\ n + k \in DOMAIN log' /\ n + k > n
      BY <1>3, <2>3
    <3>2. log'[n + k] = Event("here", e)
      BY <1>2, <2>2, <3>1 DEF n
    <3>3. \E i \in DOMAIN log' : i > n /\ log'[i].by = "here" /\ log'[i].id = e
      BY <3>1, <3>2 DEF Event
    <3>. QED
      BY <3>3 DEF IsHere, n
  <2>4. CASE ~(k <= count)
    <3>1. k > Landed'
      BY <1>2, <1>3, <2>4 DEF Landed, Committed
    <3>2. Later(tail[k])'
      BY <1>2, <2>2, <3>1 DEF SourceSound, TailSound, Working
    <3>. QED
      BY <1>2, <2>2, <3>2 DEF Later
  <2>. QED
    BY <2>3, <2>4
<1>8. Committed' => /\ broker.base <= From'
                    /\ worker'.extra # 0 => \A e \in Buffered : e < worker'.extra
  <2>1. broker.base <= n
    BY <1>1 DEF BrokerSound, BufferSound, n
  <2>2. worker'.extra # 0 => worker'.extra = created + 1
    BY <1>2, <1>3
  <2>. QED
    BY <1>3, <1>5, <1>6, <2>1, <2>2
<1>9. Pure' => Pure /\ Top' = Top
  <2>1. \A i \in DOMAIN log : i \in DOMAIN log' /\ log'[i] = log[i]
    BY <1>3 DEF LogGrows, n
  <2>2. Top' = Top
    BY <1>2, <1>3, <1>4 DEF Top, Committed
  <2>. QED
    BY <2>1, <2>2 DEF Pure
<1>10. broker' = broker /\ reader' = reader
  OBVIOUS
<1>11. BrokerSound' /\ QueueSound'
  BY <1>1, <1>2, <1>7, <1>8, <1>9, <1>10, BrokerKeeps
<1>12. ReaderSound' /\ PureSeen' /\ DeliverySound' /\ FollowSound' /\ PureFollow'
  BY <1>1, <1>2, <1>10, GrowthServes
<1>13. Types'
  BY <1>1, <1>10 DEF SourceTypes, Types
<1>. QED
  BY <1>11, <1>12, <1>13 DEF StreamInv, ReaderInv

\* Another runtime's commit.
LEMMA ElsewhereKeeps ==
    ASSUME Limits, StreamInv, \E end, taken \in BOOLEAN : CommitElsewhere(end, taken)
    PROVE  StreamInv'
<1>1. /\ SourceTypes /\ broker \in Brokers /\ reader \in Readers
      /\ SourceSound /\ BrokerSound /\ ReaderInv /\ QueueSound
  BY TypesParts DEF StreamInv, ReaderInv
<1>2. SourceTypes' /\ SourceSound' /\ LogGrows /\ ~Pure' /\ \A e : Later(e) => Later(e)'
  BY <1>1, ElsewhereSound
<1>3. worker' = worker /\ tail' = tail /\ failure' = failure /\ broker' = broker /\ reader' = reader
  BY DEF CommitElsewhere
<1>4. Committed' => /\ broker.base <= From'
                    /\ worker'.extra # 0 => \A e \in Buffered : e < worker'.extra
  BY <1>1, <1>3 DEF BrokerSound, BufferSound, Committed, From, Own
<1>5. \A e \in Buffered : Later(e) =>
            Later(e)' \/ \E i \in DOMAIN log' : i > Len(log) /\ IsHere(e, i)'
  BY <1>2
<1>6. Pure' => Pure /\ Top' = Top
  BY <1>2
<1>7. BrokerSound' /\ QueueSound'
  BY <1>1, <1>2, <1>3, <1>4, <1>5, <1>6, BrokerKeeps
<1>8. ReaderSound' /\ PureSeen' /\ DeliverySound' /\ FollowSound' /\ PureFollow'
  BY <1>1, <1>2, <1>3, GrowthServes
<1>9. Types'
  BY <1>1, <1>2, <1>3 DEF SourceTypes, Types
<1>. QED
  BY <1>2, <1>7, <1>8, <1>9 DEF StreamInv, ReaderInv


-----------------------------------------------------------------------------
(* What the producer publishes. *)

\* Broker c has what b has and the events of X besides, unless it has had to
\* let go of its buffer; a subscription that it still feeds gets the same.
Feeds(b, c, X) ==
    /\ c \in Brokers /\ c.base \in {b.base, -1}
    /\ Len(c.buffer) <= QueueLimit /\ Len(c.sub.queue) <= QueueLimit /\ Increasing(c.buffer)
    /\ c.base = -1 \/ c.replay => c.buffer = <<>>
    /\ \A i \in DOMAIN c.buffer : c.buffer[i] = Delta \/ c.buffer[i] \in X
                                  \/ \E j \in DOMAIN b.buffer : c.buffer[i] = b.buffer[j]
    /\ c.base # -1 /\ ~c.replay => ~b.replay /\ EventsOf(c.buffer) = EventsOf(b.buffer) \cup X
    /\ c.sub.open = b.sub.open
    /\ b.sub.replay => c.sub.replay /\ c.sub.queue = b.sub.queue
    /\ c.sub.replay => b.sub.replay \/ c.sub.queue = <<Replay>>
    /\ c.sub.open /\ ~c.sub.replay =>
         /\ ~c.replay /\ c.base # -1
         /\ EventsOf(c.sub.queue) = EventsOf(b.sub.queue) \cup X /\ Increasing(c.sub.queue)
    /\ ~c.sub.replay =>
         \A i \in DOMAIN c.sub.queue : c.sub.queue[i] = Delta \/ c.sub.queue[i] \in X
                                  \/ \E j \in DOMAIN b.sub.queue : c.sub.queue[i] = b.sub.queue[j]

\* What a broker must be for that.
Feedable(b) ==
    /\ b \in Brokers
    /\ Len(b.buffer) <= QueueLimit /\ Len(b.sub.queue) <= QueueLimit /\ Increasing(b.buffer)
    /\ b.base = -1 \/ b.replay => b.buffer = <<>>
    /\ b.sub.open /\ ~b.sub.replay => ~b.replay /\ b.base # -1 /\ Increasing(b.sub.queue)

\* A replay marker takes the place of a queue.
LEMMA Marked == /\ <<Replay>> \in Seq(Int) /\ Len(<<Replay>>) = 1 /\ EventsOf(<<Replay>>) = {}
                /\ EventsOf(<<>>) = {} /\ Increasing(<<>>)
                /\ \A i \in DOMAIN <<Replay>> : <<Replay>>[i] = Replay
BY DEF Replay, EventsOf, Increasing

\* Put feeds a subscription.
LEMMA PutFeeds ==
    ASSUME Limits, NEW s \in Subscriptions, Len(s.queue) <= QueueLimit, NEW item \in Nat,
           s.open /\ ~s.replay => Increasing(s.queue),
           s.open /\ ~s.replay /\ item > 0 => \A i \in DOMAIN s.queue : s.queue[i] < item
    PROVE  /\ Put(s, item) \in Subscriptions
           /\ Put(s, item).open = s.open /\ Put(s, item).completed = s.completed
           /\ Len(Put(s, item).queue) <= QueueLimit
           /\ s.replay => Put(s, item).replay /\ Put(s, item).queue = s.queue
           /\ Put(s, item).replay => s.replay \/ Put(s, item).queue = <<Replay>>
           /\ s.open /\ ~Put(s, item).replay =>
                /\ EventsOf(Put(s, item).queue) = EventsOf(s.queue) \cup ({item} \cap 1..MaxEvents)
                /\ Increasing(Put(s, item).queue)
           /\ ~Put(s, item).replay =>
                \A i \in DOMAIN Put(s, item).queue : Put(s, item).queue[i] = item
                          \/ \E j \in DOMAIN s.queue : Put(s, item).queue[i] = s.queue[j]
<1>. DEFINE p == Put(s, item)
<1>1. /\ p \in Subscriptions
      /\ p.open = s.open /\ p.completed = s.completed
      /\ ~s.open \/ s.replay => p = s
      /\ s.open /\ ~s.replay =>
           \/ Fits(s.queue) /\ p.replay = FALSE /\ p.queue = Added(s.queue, item)
           \/ p.replay = TRUE /\ p.queue = <<Replay>>
  <2>1. item \in Int
    OBVIOUS
  <2>. QED
    BY <2>1, PutFields, Zenon
<1>. HIDE DEF p
<1>2. s.queue \in Seq(Int) /\ item \in Int /\ s.open \in BOOLEAN /\ s.replay \in BOOLEAN
  BY DEF Subscriptions
<1>3. CASE ~s.open \/ s.replay
  BY <1>1, <1>3 DEF p
<1>4. CASE s.open /\ ~s.replay /\ Fits(s.queue) /\ p.replay = FALSE /\ p.queue = Added(s.queue, item)
  BY <1>1, <1>2, <1>4, ItemAdded DEF p
<1>5. CASE s.open /\ ~s.replay /\ p.replay = TRUE /\ p.queue = <<Replay>>
  <2>1. Len(p.queue) <= QueueLimit
    BY <1>5, Marked DEF Limits
  <2>. QED
    BY <1>1, <1>5, <2>1 DEF p
<1>. QED
  BY <1>1, <1>2, <1>3, <1>4, <1>5

\* PublishEvent feeds the next event.
LEMMA PublishFeeds ==
    ASSUME Limits, NEW b, Feedable(b), NEW e \in 1..MaxEvents, NEW seq \in Nat,
           \A i \in DOMAIN b.buffer : b.buffer[i] < e,
           b.sub.open /\ ~b.sub.replay => \A i \in DOMAIN b.sub.queue : b.sub.queue[i] < e,
           b.base # -1
    PROVE  Feeds(b, PublishEvent(b, e, seq), {e})
<1>. DEFINE c == PublishEvent(b, e, seq)
            s == b.sub
<1>1. /\ b \in Brokers
      /\ Len(b.buffer) <= QueueLimit /\ Len(b.sub.queue) <= QueueLimit /\ Increasing(b.buffer)
      /\ b.base = -1 \/ b.replay => b.buffer = <<>>
      /\ b.sub.open /\ ~b.sub.replay => ~b.replay /\ b.base # -1 /\ Increasing(b.sub.queue)
  BY DEF Feedable
<1>2. /\ c \in Brokers /\ c.base = b.base /\ c.sub.open = b.sub.open
      /\ b.replay => c = b
      /\ ~b.replay =>
           \/ /\ Fits(b.buffer) /\ ~c.replay /\ c.buffer = Added(b.buffer, e) /\ c.sub = Put(b.sub, e)
           \/ /\ c.replay /\ c.buffer = <<>> /\ c.sub = RequireReplay(b.sub, Replay)
  <2>1. /\ c \in Brokers /\ c.base = b.base /\ c.sub.open = b.sub.open
        /\ b.base = -1 \/ b.replay => c = b
        /\ b.base # -1 /\ ~b.replay =>
             \/ /\ Fits(b.buffer) /\ ~c.replay /\ c.buffer = Added(b.buffer, e)
                /\ c.seqOf = [b.seqOf EXCEPT ![e] = seq] /\ c.sub = Put(b.sub, e)
             \/ /\ c.replay /\ c.buffer = <<>> /\ c.sub = RequireReplay(b.sub, Replay)
    BY <1>1, PublishFrame
  <2>. HIDE DEF c
  <2>. QED
    BY <2>1
<1>. HIDE DEF c
<1>3. s \in Subscriptions /\ b.buffer \in Seq(Int) /\ e \in Int /\ e \in Nat /\ {e} \cap 1..MaxEvents = {e}
  BY <1>1 DEF Brokers
<1>4. CASE b.replay
  <2>1. c = b /\ (b.sub.open => b.sub.replay)
    BY <1>1, <1>2, <1>4
  <2>. QED
    BY <1>1, <1>4, <2>1 DEF Feeds, c
<1>5. CASE /\ ~b.replay /\ Fits(b.buffer) /\ ~c.replay /\ c.buffer = Added(b.buffer, e)
           /\ c.sub = Put(b.sub, e)
  <2>1. /\ Len(c.buffer) <= QueueLimit /\ Increasing(c.buffer)
        /\ \A i \in DOMAIN c.buffer : c.buffer[i] = e \/ \E j \in DOMAIN b.buffer : c.buffer[i] = b.buffer[j]
        /\ EventsOf(c.buffer) = EventsOf(b.buffer) \cup {e}
    BY <1>1, <1>3, <1>5, ItemAdded
  <2>2. CASE s.replay
    <3>1. c.sub = s
      BY <1>3, <1>5, <2>2, PutFields, <1>1
    <3>. QED
      BY <1>1, <1>2, <1>5, <2>1, <2>2, <3>1 DEF Feeds, c
  <2>3. CASE ~s.replay
    <3>1. /\ Len(c.sub.queue) <= QueueLimit
          /\ c.sub.replay => c.sub.queue = <<Replay>>
          /\ s.open /\ ~c.sub.replay =>
               EventsOf(c.sub.queue) = EventsOf(s.queue) \cup {e} /\ Increasing(c.sub.queue)
          /\ ~c.sub.replay =>
               \A i \in DOMAIN c.sub.queue : c.sub.queue[i] = e
                         \/ \E j \in DOMAIN s.queue : c.sub.queue[i] = s.queue[j]
      <4>1. /\ Len(s.queue) <= QueueLimit
            /\ s.open /\ ~s.replay => Increasing(s.queue)
            /\ s.open /\ ~s.replay /\ e > 0 => \A i \in DOMAIN s.queue : s.queue[i] < e
        BY <1>1, <2>3
      <4>2. /\ Len(Put(s, e).queue) <= QueueLimit
            /\ Put(s, e).replay => s.replay \/ Put(s, e).queue = <<Replay>>
            /\ s.open /\ ~Put(s, e).replay =>
                 /\ EventsOf(Put(s, e).queue) = EventsOf(s.queue) \cup ({e} \cap 1..MaxEvents)
                 /\ Increasing(Put(s, e).queue)
            /\ ~Put(s, e).replay =>
                 \A i \in DOMAIN Put(s, e).queue : Put(s, e).queue[i] = e
                           \/ \E j \in DOMAIN s.queue : Put(s, e).queue[i] = s.queue[j]
        BY <1>3, <4>1, PutFeeds, Zenon
      <4>. QED
        BY <1>3, <1>5, <2>3, <4>2
    <3>. QED
      BY <1>1, <1>2, <1>5, <2>1, <2>3, <3>1 DEF Feeds, c
  <2>. QED
    BY <2>2, <2>3
<1>6. CASE ~b.replay /\ c.replay /\ c.buffer = <<>> /\ c.sub = RequireReplay(b.sub, Replay)
  <2>1. /\ ~s.open => c.sub = s
        /\ s.open => c.sub.replay /\ (c.sub = s \/ c.sub.queue = <<Replay>>)
        /\ s.replay => c.sub = s
    BY <1>3, <1>6, ReplayFields
  <2>0. Len(<<Replay>>) <= QueueLimit
    BY Marked DEF Limits
  <2>2. Len(c.sub.queue) <= QueueLimit
    <3>1. c.sub.queue = s.queue \/ c.sub.queue = <<Replay>>
      BY <2>1
    <3>. QED
      BY <1>1, <2>0, <3>1
  <2>3. Len(c.buffer) <= QueueLimit /\ Increasing(c.buffer) /\ DOMAIN c.buffer = {}
    BY <1>6, Marked DEF Limits
  <2>. QED
    BY <1>1, <1>2, <1>6, <2>1, <2>2, <2>3 DEF Feeds, c
<1>. QED
  BY <1>2, <1>4, <1>5, <1>6

\* PublishDelta feeds no event.
LEMMA DeltaFeeds ==
    ASSUME Limits, NEW b, Feedable(b), NEW merged \in BOOLEAN, b.base # -1
    PROVE  Feeds(b, PublishDelta(b, merged), {})
<1>. DEFINE c == PublishDelta(b, merged)
            s == b.sub
<1>1. /\ b \in Brokers
      /\ Len(b.buffer) <= QueueLimit /\ Len(b.sub.queue) <= QueueLimit /\ Increasing(b.buffer)
      /\ b.base = -1 \/ b.replay => b.buffer = <<>>
      /\ b.sub.open /\ ~b.sub.replay => ~b.replay /\ b.base # -1 /\ Increasing(b.sub.queue)
  BY DEF Feedable
<1>2. /\ c \in Brokers /\ c.base = b.base /\ c.replay = b.replay
      /\ c.sub \in {b.sub, Put(b.sub, Delta)}
      /\ b.replay => c = b
      /\ \/ c.buffer = b.buffer
         \/ Fits(b.buffer) /\ c.buffer = Added(b.buffer, Delta)
  BY <1>1, DeltaFrame
<1>. HIDE DEF c
<1>3. s \in Subscriptions /\ b.buffer \in Seq(Int) /\ Delta \in Nat /\ Delta \in Int
      /\ ~(Delta > 0) /\ {Delta} \cap 1..MaxEvents = {}
  BY <1>1 DEF Brokers, Delta
<1>4. CASE b.replay
  <2>1. c = b /\ (b.sub.open => b.sub.replay)
    BY <1>1, <1>2, <1>4
  <2>. QED
    BY <1>1, <1>4, <2>1 DEF Feeds, c
<1>5. CASE ~b.replay
  <2>1. /\ Len(c.buffer) <= QueueLimit /\ Increasing(c.buffer)
        /\ \A i \in DOMAIN c.buffer : c.buffer[i] = Delta \/ \E j \in DOMAIN b.buffer : c.buffer[i] = b.buffer[j]
        /\ EventsOf(c.buffer) = EventsOf(b.buffer)
    <3>1. CASE c.buffer = b.buffer
      BY <1>1, <3>1
    <3>2. CASE Fits(b.buffer) /\ c.buffer = Added(b.buffer, Delta)
      <4>1. /\ Fits(b.buffer) /\ Len(b.buffer) <= QueueLimit
            /\ Increasing(b.buffer) /\ (Delta > 0 => \A j \in DOMAIN b.buffer : b.buffer[j] < Delta)
        BY <1>1, <1>3, <3>2
      <4>2. /\ Len(Added(b.buffer, Delta)) <= QueueLimit /\ Increasing(Added(b.buffer, Delta))
            /\ \A i \in DOMAIN Added(b.buffer, Delta) : Added(b.buffer, Delta)[i] = Delta
                     \/ \E j \in DOMAIN b.buffer : Added(b.buffer, Delta)[i] = b.buffer[j]
            /\ EventsOf(Added(b.buffer, Delta)) = EventsOf(b.buffer) \cup ({Delta} \cap 1..MaxEvents)
        BY <1>3, <4>1, ItemAdded, Zenon
      <4>. QED
        BY <1>3, <3>2, <4>2
    <3>. QED
      BY <1>2, <3>1, <3>2
  <2>2. /\ Len(c.sub.queue) <= QueueLimit /\ c.sub.open = s.open
        /\ s.replay => c.sub.replay /\ c.sub.queue = s.queue
        /\ c.sub.replay => s.replay \/ c.sub.queue = <<Replay>>
        /\ s.open /\ ~c.sub.replay =>
             EventsOf(c.sub.queue) = EventsOf(s.queue) /\ Increasing(c.sub.queue)
        /\ ~c.sub.replay =>
             \A i \in DOMAIN c.sub.queue : c.sub.queue[i] = Delta
                       \/ \E j \in DOMAIN s.queue : c.sub.queue[i] = s.queue[j]
    <3>1. CASE c.sub = s
      BY <1>1, <3>1
    <3>2. CASE c.sub = Put(s, Delta)
      <4>1. /\ Len(s.queue) <= QueueLimit
            /\ s.open /\ ~s.replay => Increasing(s.queue)
            /\ s.open /\ ~s.replay /\ Delta > 0 => \A i \in DOMAIN s.queue : s.queue[i] < Delta
        BY <1>1, <1>3
      <4>2. /\ Len(Put(s, Delta).queue) <= QueueLimit /\ Put(s, Delta).open = s.open
            /\ s.replay => Put(s, Delta).replay /\ Put(s, Delta).queue = s.queue
            /\ Put(s, Delta).replay => s.replay \/ Put(s, Delta).queue = <<Replay>>
            /\ s.open /\ ~Put(s, Delta).replay =>
                 /\ EventsOf(Put(s, Delta).queue) = EventsOf(s.queue) \cup ({Delta} \cap 1..MaxEvents)
                 /\ Increasing(Put(s, Delta).queue)
            /\ ~Put(s, Delta).replay =>
                 \A i \in DOMAIN Put(s, Delta).queue : Put(s, Delta).queue[i] = Delta
                           \/ \E j \in DOMAIN s.queue : Put(s, Delta).queue[i] = s.queue[j]
        BY <1>3, <4>1, PutFeeds, Zenon
      <4>. QED
        BY <1>3, <3>2, <4>2
    <3>. QED
      BY <1>2, <3>1, <3>2
  <2>. QED
    BY <1>1, <1>2, <1>5, <2>1, <2>2 DEF Feeds, c
<1>. QED
  BY <1>4, <1>5

\* Complete feeds no event.
LEMMA CompleteFeeds ==
    ASSUME Limits, NEW b, Feedable(b)
    PROVE  Feeds(b, Complete(b), {})
<1>. DEFINE c == Complete(b)
<1>1. /\ b \in Brokers
      /\ Len(b.buffer) <= QueueLimit /\ Len(b.sub.queue) <= QueueLimit /\ Increasing(b.buffer)
      /\ b.base = -1 \/ b.replay => b.buffer = <<>>
      /\ b.sub.open /\ ~b.sub.replay => ~b.replay /\ b.base # -1 /\ Increasing(b.sub.queue)
  BY DEF Feedable
<1>2. /\ c \in Brokers
      /\ c.sub.open = b.sub.open /\ c.sub.queue = b.sub.queue /\ c.sub.replay = b.sub.replay
      /\ \/ c.base = b.base /\ c.buffer = b.buffer /\ c.replay = b.replay
         \/ ~b.sub.open /\ c.base = -1 /\ c.buffer = <<>> /\ ~c.replay
  BY <1>1, CompleteFields
<1>. HIDE DEF c
<1>3. Len(<<>>) <= QueueLimit /\ DOMAIN <<>> = {}
  BY DEF Limits
<1>4. Feeds(b, c, {})
  <2>1. CASE c.base = b.base /\ c.buffer = b.buffer /\ c.replay = b.replay
    BY <1>1, <1>2, <2>1 DEF Feeds
  <2>2. CASE ~b.sub.open /\ c.base = -1 /\ c.buffer = <<>> /\ ~c.replay
    BY <1>1, <1>2, <1>3, <2>2, Marked DEF Feeds
  <2>. QED
    BY <1>2, <2>1, <2>2
<1>. QED
  BY <1>4 DEF c

\* What has been fed can be fed on.
LEMMA FeedsOn ==
    ASSUME NEW b, NEW c, NEW X, Feeds(b, c, X)
    PROVE  Feedable(c)
BY DEF Feeds, Feedable

\* Two calls in a row.
LEMMA FeedsChain ==
    ASSUME NEW b, NEW c, NEW d, NEW X, NEW Y, Feeds(b, c, X), Feeds(c, d, Y)
    PROVE  Feeds(b, d, X \cup Y)
<1>1. /\ c.base \in {b.base, -1} /\ d.base \in {c.base, -1}
      /\ c.base = -1 => c.buffer = <<>>
  BY DEF Feeds
<1>2. /\ d \in Brokers
      /\ Len(d.buffer) <= QueueLimit /\ Len(d.sub.queue) <= QueueLimit /\ Increasing(d.buffer)
      /\ d.base = -1 \/ d.replay => d.buffer = <<>>
      /\ d.sub.open = b.sub.open
  BY DEF Feeds
<1>3. \A i \in DOMAIN d.buffer : d.buffer[i] = Delta \/ d.buffer[i] \in X \cup Y
                                  \/ \E j \in DOMAIN b.buffer : d.buffer[i] = b.buffer[j]
  <2>1. /\ \A i \in DOMAIN d.buffer : d.buffer[i] = Delta \/ d.buffer[i] \in Y
                                  \/ \E j \in DOMAIN c.buffer : d.buffer[i] = c.buffer[j]
        /\ \A i \in DOMAIN c.buffer : c.buffer[i] = Delta \/ c.buffer[i] \in X
                                  \/ \E j \in DOMAIN b.buffer : c.buffer[i] = b.buffer[j]
    BY DEF Feeds
  <2>. QED
    BY <2>1
<1>4. d.base # -1 /\ ~d.replay => ~b.replay /\ EventsOf(d.buffer) = EventsOf(b.buffer) \cup (X \cup Y)
  <2>1. /\ d.base # -1 /\ ~d.replay => ~c.replay /\ EventsOf(d.buffer) = EventsOf(c.buffer) \cup Y
        /\ c.base # -1 /\ ~c.replay => ~b.replay /\ EventsOf(c.buffer) = EventsOf(b.buffer) \cup X
    BY DEF Feeds
  <2>. QED
    BY <1>1, <2>1
<1>5. /\ b.sub.replay => d.sub.replay /\ d.sub.queue = b.sub.queue
      /\ d.sub.replay => b.sub.replay \/ d.sub.queue = <<Replay>>
  BY DEF Feeds
<1>6. d.sub.open /\ ~d.sub.replay =>
         /\ ~d.replay /\ d.base # -1
         /\ EventsOf(d.sub.queue) = EventsOf(b.sub.queue) \cup (X \cup Y) /\ Increasing(d.sub.queue)
  <2>1. /\ d.sub.open /\ ~d.sub.replay =>
             /\ ~d.replay /\ d.base # -1
             /\ EventsOf(d.sub.queue) = EventsOf(c.sub.queue) \cup Y /\ Increasing(d.sub.queue)
        /\ c.sub.open /\ ~c.sub.replay => EventsOf(c.sub.queue) = EventsOf(b.sub.queue) \cup X
        /\ c.sub.replay => d.sub.replay
        /\ d.sub.open = c.sub.open
    BY DEF Feeds
  <2>. QED
    BY <2>1
<1>7. ~d.sub.replay =>
         \A i \in DOMAIN d.sub.queue : d.sub.queue[i] = Delta \/ d.sub.queue[i] \in X \cup Y
                                  \/ \E j \in DOMAIN b.sub.queue : d.sub.queue[i] = b.sub.queue[j]
  <2>1. /\ ~d.sub.replay =>
             \A i \in DOMAIN d.sub.queue : d.sub.queue[i] = Delta \/ d.sub.queue[i] \in Y
                                      \/ \E j \in DOMAIN c.sub.queue : d.sub.queue[i] = c.sub.queue[j]
        /\ ~c.sub.replay =>
             \A i \in DOMAIN c.sub.queue : c.sub.queue[i] = Delta \/ c.sub.queue[i] \in X
                                      \/ \E j \in DOMAIN b.sub.queue : c.sub.queue[i] = b.sub.queue[j]
        /\ c.sub.replay => d.sub.replay
    BY DEF Feeds
  <2>. QED
    BY <2>1
<1>. QED
  BY <1>1, <1>2, <1>3, <1>4, <1>5, <1>6, <1>7 DEF Feeds

\* The broker of a sound state can be fed.
LEMMA BrokerFeedable ==
    ASSUME StreamInv
    PROVE  /\ Feedable(broker)
           /\ Buffered \subseteq 1..created
           /\ \A i \in DOMAIN broker.buffer : broker.buffer[i] \in 0..created
           /\ ~broker.sub.replay =>
                 \A i \in DOMAIN broker.sub.queue : broker.sub.queue[i] \in 0..created
<1>1. /\ BufferSound /\ QueueSound /\ FollowSound /\ broker \in Brokers /\ created \in Nat
  BY DEF StreamInv, BrokerSound, ReaderInv, Types
<1>2. Feedable(broker)
  BY <1>1 DEF Feedable, BufferSound, QueueSound, FollowSound, Following
<1>3. /\ \A i \in DOMAIN broker.buffer : broker.buffer[i] \in 0..created
      /\ ~broker.sub.replay =>
            \A i \in DOMAIN broker.sub.queue : broker.sub.queue[i] \in 0..created
  BY <1>1 DEF BufferSound, QueueSound
<1>4. Buffered \subseteq 1..created
  BY <1>1, <1>3 DEF Buffered, EventsOf
<1>. QED
  BY <1>2, <1>3, <1>4

\* A reader is served by what feeds its broker.
LEMMA FeedsServes ==
    ASSUME Limits, StreamInv, SourceTypes', LogGrows, reader' = reader, failure => failure',
           NEW X \in SUBSET (1..MaxEvents), Feeds(broker, broker', X),
           \A x \in X : x <= created' /\ (Pure => broker.base < x) /\ \A e \in Buffered : e < x
    PROVE  /\ broker' \in Brokers /\ ReaderInv'
           /\ Buffered' \subseteq Buffered \cup X
           /\ Len(broker'.buffer) <= QueueLimit /\ Increasing(broker'.buffer)
           /\ \A i \in DOMAIN broker'.buffer : broker'.buffer[i] \in 0..created'
           /\ broker'.base = -1 \/ broker'.replay => broker'.buffer = <<>>
           /\ broker'.base # -1 /\ ~broker'.replay => ~broker.replay /\ Buffered' = Buffered \cup X
<1>. USE DEF Feeds
<1>1. /\ SourceTypes /\ broker \in Brokers /\ reader \in Readers
      /\ ReaderInv /\ ReaderSound /\ PureSeen /\ DeliverySound /\ FollowSound /\ PureFollow /\ QueueSound
  BY TypesParts DEF StreamInv, ReaderInv
<1>2. created \in Nat /\ created' \in Nat /\ created <= created'
  BY <1>1 DEF SourceTypes, LogGrows
<1>3. ReaderSound' /\ PureSeen' /\ DeliverySound'
  BY <1>1, ReaderKeeps
<1>4. /\ \A x \in X : x \in 0..created'
      /\ \A x \in 0..created : x \in 0..created'
      /\ Delta \in 0..created'
  BY <1>2 DEF Delta
<1>5. \A i \in DOMAIN broker'.buffer : broker'.buffer[i] \in 0..created'
  <2>1. \A i \in DOMAIN broker'.buffer : broker'.buffer[i] = Delta \/ broker'.buffer[i] \in X
                                  \/ \E j \in DOMAIN broker.buffer : broker'.buffer[i] = broker.buffer[j]
    OBVIOUS
  <2>. QED
    BY <1>4, <2>1, BrokerFeedable
<1>6. QueueSound'
  <2>1. ~broker'.sub.replay =>
          \A i \in DOMAIN broker'.sub.queue : broker'.sub.queue[i] = Delta \/ broker'.sub.queue[i] \in X
                     \/ \E j \in DOMAIN broker.sub.queue : broker'.sub.queue[i] = broker.sub.queue[j]
    OBVIOUS
  <2>2. broker.sub.replay => broker'.sub.replay
    OBVIOUS
  <2>3. ~broker'.sub.replay =>
          \A i \in DOMAIN broker'.sub.queue : broker'.sub.queue[i] \in 0..created'
    BY <1>4, <2>1, <2>2, BrokerFeedable
  <2>. QED
    BY <1>1, <2>3 DEF QueueSound
<1>7. Following' => /\ Following /\ broker'.base = broker.base /\ ~broker'.replay
                    /\ Buffered' = Buffered \cup X /\ Queued' = Queued \cup X
                    /\ Increasing(broker'.sub.queue)
                    /\ \A x \in X : (Pure => broker.base < x) /\ \A e \in Buffered : e < x
  BY DEF Following, Buffered, Queued
<1>8. FollowSound' /\ PureFollow'
  BY <1>1, <1>7, FollowKeeps
<1>9. Buffered' \subseteq Buffered \cup X
  <2>1. broker'.base = -1 \/ broker'.replay => Buffered' = {}
    BY Marked DEF Buffered
  <2>. QED
    BY <2>1 DEF Buffered
<1>10. broker'.base # -1 /\ ~broker'.replay => ~broker.replay /\ Buffered' = Buffered \cup X
  BY DEF Buffered
<1>. QED
  BY <1>3, <1>5, <1>6, <1>8, <1>9, <1>10 DEF ReaderInv

-----------------------------------------------------------------------------
(* The steps of the producer that publish or end. *)

\* What is published is in the log behind the base, or after all of it.
LEMMA BufferFed ==
    ASSUME Limits, StreamInv, SourceTypes', LogGrows, log' = log, reader' = reader,
           failure => failure', ~Committed', NEW X \in SUBSET (1..MaxEvents),
           Feeds(broker, broker', X),
           \A x \in X : x <= created' /\ (Pure => broker.base < x) /\ \A e \in Buffered : e < x,
           \A x \in X : Later(x) \/ \E i \in DOMAIN log : i > broker.base /\ IsHere(x, i)
    PROVE  BufferSound'
<1>1. /\ BufferSound /\ broker \in Brokers /\ log \in Seq([by : {"here", "there"}, id : Nat])
  BY DEF StreamInv, BrokerSound, Types
<1>2. /\ Buffered' \subseteq Buffered \cup X
      /\ Len(broker'.buffer) <= QueueLimit /\ Increasing(broker'.buffer)
      /\ \A i \in DOMAIN broker'.buffer : broker'.buffer[i] \in 0..created'
      /\ broker'.base = -1 \/ broker'.replay => broker'.buffer = <<>>
  BY FeedsServes
<1>3. broker'.base \in {broker.base, -1}
  BY DEF Feeds
<1>4. broker.base \in Int /\ -1 <= broker.base /\ broker.base <= Len(log) /\ Len(log) \in Nat
  BY <1>1 DEF BufferSound, Brokers
<1>5. -1 <= broker'.base /\ broker'.base <= broker.base /\ broker'.base <= Len(log) /\ broker'.base \in Int
  BY <1>3, <1>4
<1>6. ASSUME NEW e \in Buffered'
      PROVE  (\E i \in DOMAIN log : i > broker'.base /\ IsHere(e, i)) \/ Later(e)
  <2>1. (\E i \in DOMAIN log : i > broker.base /\ IsHere(e, i)) \/ Later(e)
    BY <1>1, <1>2 DEF BufferSound
  <2>2. \A i \in DOMAIN log : i > broker.base => i > broker'.base
    BY <1>4, <1>5
  <2>. QED
    BY <2>1, <2>2
<1>7. \A e \in Buffered' : (\E i \in DOMAIN log' : i > broker'.base /\ IsHere(e, i)') \/ Later(e)'
  BY <1>6 DEF IsHere, Later
<1>. QED
  BY <1>2, <1>5, <1>7 DEF BufferSound

\* With one writer the next event closes up.
LEMMA PureFed ==
    ASSUME Limits, StreamInv, SourceTypes', LogGrows, log' = log, reader' = reader,
           failure => failure', NEW X \in SUBSET (1..MaxEvents),
           Feeds(broker, broker', X),
           \A x \in X : x <= created' /\ (Pure => broker.base < x) /\ \A e \in Buffered : e < x,
           \A x \in X : Working /\ (Pure => x = Top + 1),
           Working' => Working /\ broker'.base # -1,
           Working' /\ Pure => Top' <= Top \/ Top' \in X
    PROVE  PureBuffer'
<1>1. /\ BrokerSound /\ PureBuffer /\ broker.base \in Int
      /\ Top \in Int /\ Top' \in Int
  BY DEF StreamInv, BrokerSound, Types, Brokers, SourceTypes, Top, Own
<1>2. /\ broker'.base = -1 \/ broker'.replay => broker'.buffer = <<>>
      /\ broker'.base # -1 /\ ~broker'.replay => ~broker.replay /\ Buffered' = Buffered \cup X
  BY FeedsServes
<1>3. broker'.base = -1 \/ broker'.replay => Buffered' = {}
  BY <1>2, Marked DEF Buffered
<1>4. broker'.base # -1 => broker'.base = broker.base
  BY DEF Feeds
<1>. SUFFICES ASSUME Pure
              PROVE  /\ \A e \in Buffered' : e > broker'.base /\ \A n \in (broker'.base + 1)..e : n \in Buffered'
                     /\ Working' /\ ~broker'.replay => \A n \in (broker'.base + 1)..Top' : n \in Buffered'
  BY DEF PureBuffer, Pure
<1>5. /\ \A e \in Buffered : e > broker.base /\ \A n \in (broker.base + 1)..e : n \in Buffered
      /\ Working /\ ~broker.replay => \A n \in (broker.base + 1)..Top : n \in Buffered
  BY <1>1 DEF PureBuffer
<1>6. \A x \in X : broker.base < x /\ x = Top + 1 /\ Working
  OBVIOUS
<1>7. CASE broker'.base # -1 /\ ~broker'.replay
  <2>1. broker'.base = broker.base /\ ~broker.replay /\ Buffered' = Buffered \cup X
    BY <1>2, <1>4, <1>7
  <2>2. ASSUME NEW x \in X, NEW n \in (broker.base + 1)..x PROVE n \in Buffered \cup X
    <3>1. n = x \/ n \in (broker.base + 1)..Top
      BY <1>1, <1>6
    <3>. QED
      BY <1>5, <1>6, <2>1, <3>1
  <2>3. ASSUME NEW e \in Buffered'
        PROVE  e > broker'.base /\ \A n \in (broker'.base + 1)..e : n \in Buffered'
    BY <1>5, <1>6, <2>1, <2>2
  <2>4. ASSUME Working', NEW n \in (broker.base + 1)..Top' PROVE n \in Buffered'
    <3>1. Working
      BY <2>4
    <3>2. CASE Top' <= Top
      <4>1. n \in (broker.base + 1)..Top
        BY <1>1, <3>2
      <4>. QED
        BY <1>5, <2>1, <3>1, <4>1
    <3>3. CASE Top' \in X
      BY <2>1, <2>2, <3>3
    <3>. QED
      BY <2>4, <3>2, <3>3
  <2>. QED
    BY <2>1, <2>3, <2>4
<1>8. CASE broker'.replay \/ broker'.base = -1
  BY <1>3, <1>8
<1>. QED
  BY <1>7, <1>8

\* With the rest of the source and the broker, that is the whole invariant.
LEMMA FedSound ==
    ASSUME Limits, StreamInv, SourceTypes', SourceSound', LogGrows, log' = log, reader' = reader,
           failure => failure', ~Committed', NEW X \in SUBSET (1..MaxEvents),
           Feeds(broker, broker', X),
           \A x \in X : x <= created' /\ (Pure => broker.base < x) /\ \A e \in Buffered : e < x,
           \A x \in X : Later(x) \/ \E i \in DOMAIN log : i > broker.base /\ IsHere(x, i),
           \A x \in X : Working /\ (Pure => x = Top + 1),
           Working' => Working /\ broker'.base # -1,
           Working' /\ Pure => Top' <= Top \/ Top' \in X,
           Numbered', OpenSound', CompletionSound'
    PROVE  StreamInv'
<1>1. BufferSound'
  BY BufferFed
<1>2. PureBuffer'
  BY PureFed
<1>3. broker' \in Brokers /\ ReaderInv'
  BY FeedsServes
<1>4. Types'
  BY <1>3 DEF StreamInv, SourceTypes, Types
<1>. QED
  BY <1>1, <1>2, <1>3, <1>4 DEF StreamInv, BrokerSound

\* What the invariant says of the parts, for the steps that follow.
LEMMA Parts ==
    ASSUME StreamInv
    PROVE  /\ SourceTypes /\ broker \in Brokers /\ reader \in Readers /\ SourceSound
           /\ LogSound /\ TailSound /\ CommitSound /\ Counted /\ EndSound
           /\ BrokerSound /\ Numbered /\ BufferSound /\ OpenSound /\ PureBuffer /\ CompletionSound
           /\ ReaderInv /\ QueueSound /\ ReaderSound /\ FollowSound /\ PureFollow
           /\ PureSeen /\ DeliverySound
BY TypesParts DEF StreamInv, SourceSound, BrokerSound, ReaderInv

\* A discard marker is in no queue that is fed.
LEMMA MarkerReplays ==
    ASSUME StreamInv, broker.sub.queue = <<Discard>>
    PROVE  broker.sub.replay
<1>1. 1 \in DOMAIN broker.sub.queue /\ broker.sub.queue[1] = -2
  BY DEF Discard
<1>2. created \in Nat
  BY Parts DEF SourceTypes
<1>3. ~(-2 \in 0..created)
  BY <1>2
<1>. QED
  BY <1>1, <1>3, Parts DEF QueueSound

\* The producer registers at the end of the log.
LEMMA RegisterKeeps ==
    ASSUME Limits, StreamInv, NEW early \in BOOLEAN, Register(early)
    PROVE  StreamInv'
<1>. DEFINE n == Len(log)
<1>1. /\ worker.stage = "none" /\ claim = "here" /\ ~ended
      /\ worker' = [worker EXCEPT !.stage = "running"]
      /\ broker' = [broker EXCEPT !.base = n, !.prepared = early]
      /\ log' = log /\ ended' = ended /\ created' = created /\ tail' = tail
      /\ failure' = failure /\ reader' = reader
  BY DEF Register, sourceVars
<1>2. SourceTypes' /\ SourceSound' /\ LogGrows
  <2>1. UNCHANGED <<log, ended, created>>
    BY <1>1
  <2>. QED
    BY <2>1, Parts, ProducerSound
<1>3. n \in Nat /\ created \in Nat /\ worker'.stage = "running"
  BY <1>1, Parts DEF SourceTypes, Workers
<1>4. /\ broker.base = -1 /\ broker.buffer = <<>> /\ ~broker.replay /\ ~broker.sub.open
      /\ ~broker.completed /\ tail = <<>>
  BY <1>1, Parts DEF CompletionSound, BufferSound, TailSound
<1>. HIDE DEF n
<1>5. /\ broker' \in Brokers /\ broker'.base = n /\ broker'.buffer = <<>> /\ ~broker'.replay
      /\ broker'.sub = broker.sub /\ ~broker'.completed /\ broker'.seqOf = broker.seqOf
  <2>1. broker \in Brokers /\ n \in Int
    BY <1>3, Parts
  <2>2. [broker EXCEPT !.base = n, !.prepared = early] \in Brokers
    BY <2>1 DEF Brokers
  <2>3. /\ broker'.base = n /\ broker'.buffer = broker.buffer /\ broker'.replay = broker.replay
        /\ broker'.sub = broker.sub /\ broker'.completed = broker.completed
        /\ broker'.seqOf = broker.seqOf
    BY <1>1, <2>1 DEF Brokers
  <2>. QED
    BY <1>1, <1>4, <2>2, <2>3
<1>6. Buffered' = {} /\ DOMAIN broker'.buffer = {} /\ Increasing(broker'.buffer)
      /\ Len(broker'.buffer) <= QueueLimit
  BY <1>5, Marked DEF Buffered, Limits
<1>7. Numbered'
  BY <1>1, <1>5, Parts DEF Numbered, IsHere
<1>8. BufferSound'
  BY <1>1, <1>3, <1>5, <1>6 DEF BufferSound, Committed, n
<1>9. OpenSound'
  BY <1>1, <1>4, <1>6 DEF OpenSound
<1>10. PureBuffer'
  <2>1. Pure => created <= n
    <3>1. Pure => created = Len(log) + Len(tail)
      BY <1>1, Parts DEF Counted
    <3>2. Len(tail) = 0
      BY <1>4
    <3>. QED
      BY <1>3, <3>1, <3>2 DEF n
  <2>2. Top' = created /\ (Pure' => Pure)
    BY <1>1, <1>3 DEF Top, Committed, Pure
  <2>3. Pure => (n + 1)..created = {}
    BY <1>3, <2>1
  <2>. QED
    BY <1>5, <1>6, <2>2, <2>3 DEF PureBuffer
<1>11. CompletionSound'
  BY <1>1, <1>3, <1>5, Parts DEF CompletionSound
<1>12. QueueSound'
  BY <1>1, <1>5, Parts DEF QueueSound
<1>13. ReaderSound' /\ PureSeen' /\ DeliverySound'
  BY <1>1, <1>2, Parts, ReaderKeeps
<1>14. FollowSound' /\ PureFollow'
  BY <1>4, <1>5 DEF FollowSound, PureFollow, Following
<1>15. Types'
  BY <1>1, <1>2, <1>5, Parts DEF SourceTypes, Types
<1>. QED
  BY <1>2, <1>7, <1>8, <1>9, <1>10, <1>11, <1>12, <1>13, <1>14, <1>15
     DEF StreamInv, BrokerSound, ReaderInv

\* A text delta disturbs no event.
LEMMA DeltaKeeps ==
    ASSUME Limits, StreamInv, StreamDelta
    PROVE  StreamInv'
<1>1. /\ worker.stage = "running" /\ worker' = worker
      /\ log' = log /\ ended' = ended /\ created' = created /\ tail' = tail
      /\ failure' = failure /\ reader' = reader
  BY DEF StreamDelta, sourceVars
<1>2. PICK merged \in BOOLEAN : broker' = PublishDelta(broker, merged)
  BY DEF StreamDelta
<1>3. SourceTypes' /\ SourceSound' /\ LogGrows
  <2>1. UNCHANGED <<log, ended, created>>
    BY <1>1
  <2>. QED
    BY <2>1, Parts, ProducerSound
<1>4. Working /\ Working' /\ ~Committed' /\ broker.base # -1 /\ Top' = Top /\ created \in Nat
  BY <1>1, Parts DEF Working, Committed, CompletionSound, Top, Own, SourceTypes
<1>5. Feeds(broker, broker', {})
  BY <1>2, <1>4, BrokerFeedable, DeltaFeeds
<1>6. /\ broker'.base = broker.base /\ broker'.completed = broker.completed
      /\ broker'.replay = broker.replay /\ broker'.seqOf = broker.seqOf
      /\ broker'.sub \in {broker.sub, Put(broker.sub, Delta)}
  BY <1>2, BrokerFeedable, DeltaFrame DEF Feedable
<1>7. Buffered' \subseteq Buffered /\ (~broker'.replay => Buffered' = Buffered)
  <2>1. EventsOf(broker'.buffer) = EventsOf(broker.buffer) \/ broker'.buffer = <<>>
    BY <1>4, <1>5, <1>6 DEF Feeds
  <2>. QED
    BY <1>4, <1>5, <1>6, <2>1, Marked DEF Feeds, Buffered
<1>8. Numbered'
  BY <1>1, <1>6, Parts DEF Numbered, IsHere
<1>9. OpenSound'
  BY <1>1, <1>4, <1>6, <1>7, Parts DEF OpenSound
<1>10. CompletionSound'
  <2>1. broker'.sub.open = broker.sub.open /\ broker'.sub.completed = broker.sub.completed
    <3>1. broker.sub \in Subscriptions /\ Len(broker.sub.queue) <= QueueLimit /\ Delta \in Int
      BY Parts, BrokerFeedable DEF Feedable, Brokers, Delta
    <3>2. /\ Put(broker.sub, Delta).open = broker.sub.open
          /\ Put(broker.sub, Delta).completed = broker.sub.completed
      BY <3>1, PutFields, Zenon
    <3>. QED
      BY <1>6, <3>2
  <2>2. broker.sub.queue = <<Discard>> /\ broker.sub.completed =>
            failure \/ ended \/ broker'.sub.queue = <<Discard>>
    <3>1. broker.sub.queue = <<Discard>> => broker.sub.replay
      BY MarkerReplays
    <3>. QED
      BY <1>5, <3>1 DEF Feeds
  <2>. QED
    BY <1>1, <1>4, <1>6, <2>1, <2>2, Parts DEF CompletionSound
<1>11. Top' <= Top
  BY <1>4 DEF Top, Own
<1>12. {} \in SUBSET (1..MaxEvents) /\ (failure => failure')
  BY <1>1
<1>. QED
  BY <1>1, <1>3, <1>4, <1>5, <1>6, <1>8, <1>9, <1>10, <1>11, <1>12, FedSound

\* The next event goes to the tail, the buffer and the queue.
LEMMA AppendKeeps ==
    ASSUME Limits, StreamInv, AppendEvent
    PROVE  StreamInv'
<1>. DEFINE x == created + 1
<1>1. /\ worker.stage = "running" /\ worker' = worker /\ created < MaxEvents /\ created' = x
      /\ log' = log /\ ended' = ended /\ failure' = failure /\ reader' = reader
      /\ tail' = Append(tail, x) /\ broker' = PublishEvent(broker, x, 0)
  BY DEF AppendEvent, More
<1>2. SourceTypes' /\ SourceSound' /\ LogGrows
  BY Parts, AppendSound
<1>3. /\ created \in Nat /\ x \in Nat /\ x \in 1..MaxEvents /\ MaxEvents \in Nat /\ tail \in Seq(Nat)
      /\ broker \in Brokers /\ 0 \in Nat /\ x = created + 1
  BY <1>1, Parts DEF SourceTypes, Limits
<1>. HIDE DEF x
<1>4. /\ Working /\ Working' /\ ~Committed' /\ ~Committed /\ broker.base # -1
      /\ Top = created /\ Top' = x
  BY <1>1, Parts DEF Working, Committed, CompletionSound, Top
<1>5. /\ Feedable(broker) /\ Buffered \subseteq 1..created
      /\ \A i \in DOMAIN broker.buffer : broker.buffer[i] < x
      /\ broker.sub.open /\ ~broker.sub.replay =>
            \A i \in DOMAIN broker.sub.queue : broker.sub.queue[i] < x
  BY <1>3, BrokerFeedable
<1>6. Feeds(broker, broker', {x})
  BY <1>1, <1>3, <1>4, <1>5, PublishFeeds
<1>7. /\ broker'.base = broker.base /\ broker'.completed = broker.completed
      /\ broker'.sub.open = broker.sub.open /\ broker'.sub.completed = broker.sub.completed
      /\ broker'.seqOf \in {broker.seqOf, [broker.seqOf EXCEPT ![x] = 0]}
      /\ ~broker'.replay => broker'.seqOf = [broker.seqOf EXCEPT ![x] = 0]
  <2>. DEFINE c == PublishEvent(broker, x, 0)
  <2>1. Len(broker.buffer) <= QueueLimit /\ Len(broker.sub.queue) <= QueueLimit
    BY <1>5 DEF Feedable
  <2>2. /\ c.base = broker.base /\ c.completed = broker.completed
        /\ c.sub.open = broker.sub.open /\ c.sub.completed = broker.sub.completed
        /\ c.seqOf \in {broker.seqOf, [broker.seqOf EXCEPT ![x] = 0]}
        /\ broker.base = -1 \/ broker.replay => c = broker
        /\ broker.base # -1 /\ ~broker.replay =>
             \/ /\ Fits(broker.buffer) /\ ~c.replay
                /\ c.buffer = Added(broker.buffer, x)
                /\ c.seqOf = [broker.seqOf EXCEPT ![x] = 0]
                /\ c.sub = Put(broker.sub, x)
             \/ /\ c.replay /\ c.buffer = <<>>
                /\ c.sub = RequireReplay(broker.sub, Replay)
    BY SMTT(30), <1>3, <2>1, PublishFrame
  <2>3. broker' = c
    BY <1>1
  <2>. HIDE DEF c
  <2>. QED
    BY <1>4, <2>2, <2>3
<1>8. /\ broker.seqOf \in [1..MaxEvents -> Nat]
      /\ \A e \in 1..MaxEvents : broker'.seqOf[e] = broker.seqOf[e] \/ (e = x /\ broker'.seqOf[e] = 0)
      /\ ~broker'.replay => broker'.seqOf[x] = 0
  BY <1>3, <1>7 DEF Brokers
<1>9. Numbered'
  BY <1>1, <1>8, Parts DEF Numbered, IsHere
<1>10. /\ DOMAIN tail' = 1..(Len(tail) + 1) /\ Len(tail) \in Nat /\ DOMAIN tail = 1..Len(tail)
       /\ \A k \in 1..Len(tail) : tail'[k] = tail[k]
       /\ tail'[Len(tail) + 1] = x
  BY <1>1, <1>3, AppendProperties
<1>11. /\ \A e \in Buffered : broker.seqOf[e] = 0 => \E k \in DOMAIN tail : tail[k] = e
       /\ ~broker.replay => \A k \in DOMAIN tail : tail[k] \in Buffered /\ broker.seqOf[tail[k]] = 0
  BY <1>4, Parts DEF OpenSound
<1>12. /\ Buffered' \subseteq Buffered \cup {x}
       /\ ~broker'.replay => ~broker.replay /\ Buffered' = Buffered \cup {x}
  BY <1>4, <1>6, <1>7, Marked DEF Feeds, Buffered
<1>13. \A e \in Buffered : e \in 1..MaxEvents
  BY DEF Buffered, EventsOf
<1>14. OpenSound'
  <2>1. ASSUME NEW e \in Buffered', broker'.seqOf[e] = 0 PROVE \E k \in DOMAIN tail' : tail'[k] = e
    <3>1. CASE e = x
      <4>1. Len(tail) + 1 \in DOMAIN tail'
        BY <1>10
      <4>. QED
        BY <1>10, <3>1, <4>1
    <3>2. CASE e # x /\ e \in Buffered
      <4>1. broker.seqOf[e] = 0
        BY <1>8, <1>13, <2>1, <3>2
      <4>2. PICK k \in DOMAIN tail : tail[k] = e
        BY <1>11, <3>2, <4>1
      <4>3. k \in DOMAIN tail' /\ tail'[k] = e
        BY <1>10, <4>2
      <4>. QED
        BY <4>3
    <3>. QED
      BY <1>12, <2>1, <3>1, <3>2
  <2>2. ASSUME ~broker'.replay, NEW k \in DOMAIN tail'
        PROVE  tail'[k] \in Buffered' /\ broker'.seqOf[tail'[k]] = 0
    <3>1. CASE k \in DOMAIN tail
      <4>1. tail'[k] = tail[k] /\ tail[k] \in Buffered /\ broker.seqOf[tail[k]] = 0
        BY <1>10, <1>11, <1>12, <2>2, <3>1
      <4>. QED
        BY <1>8, <1>12, <1>13, <2>2, <4>1
    <3>2. CASE k = Len(tail) + 1
      BY <1>8, <1>10, <1>12, <2>2, <3>2
    <3>. QED
      BY <1>10, <2>2, <3>1, <3>2
  <2>. QED
    BY <2>1, <2>2 DEF OpenSound
<1>15. CompletionSound'
  <2>1. broker.sub.queue = <<Discard>> => broker'.sub.queue = <<Discard>>
    BY <1>6, MarkerReplays DEF Feeds
  <2>. QED
    BY <1>1, <1>4, <1>7, <2>1, Parts DEF CompletionSound
<1>16. /\ x <= created' /\ \A e \in Buffered : e < x
       /\ Pure => broker.base < x
       /\ Pure => x = Top + 1
       /\ Later(x)
  <2>1. Pure => broker.base < x
    <3>1. Pure => created = Len(log) + Len(tail)
      BY <1>1, Parts DEF Counted
    <3>2. broker.base <= Len(log) /\ broker.base \in Int /\ Len(log) \in Nat
      BY Parts DEF BufferSound, Brokers, SourceTypes
    <3>. QED
      BY <1>3, <1>10, <3>1, <3>2
  <2>2. Later(x)
    BY <1>3, Parts DEF Later, LogSound
  <2>3. x <= created' /\ (\A e \in Buffered : e < x) /\ x = Top + 1
    BY <1>1, <1>3, <1>4, <1>5
  <2>. QED
    BY <2>1, <2>2, <2>3
<1>17. {x} \in SUBSET (1..MaxEvents) /\ (failure => failure') /\ Top' \in {x}
  BY <1>1, <1>3, <1>4
<1>18. \A y \in {x} :
          /\ y <= created' /\ (Pure => broker.base < y) /\ \A e \in Buffered : e < y
          /\ Working /\ (Pure => y = Top + 1)
          /\ Later(y) \/ \E i \in DOMAIN log : i > broker.base /\ IsHere(y, i)
  BY <1>4, <1>16
<1>. QED
  BY <1>1, <1>2, <1>4, <1>6, <1>7, <1>9, <1>14, <1>15, <1>17, <1>18, FedSound

\* An event of its own that a commit has put into the log and that has not been published.
LEMMA OwnEvent ==
    ASSUME Limits, StreamInv, Committed, worker.extra # 0
    PROVE  /\ worker.extra \in 1..created /\ worker.extra \in 1..MaxEvents
           /\ worker.last \in 1..Len(log) /\ IsHere(worker.extra, worker.last)
           /\ broker.base < worker.last
           /\ \A e \in Buffered : e < worker.extra
           /\ \A i \in DOMAIN broker.buffer : broker.buffer[i] < worker.extra
           /\ broker.sub.open /\ ~broker.sub.replay =>
                 \A i \in DOMAIN broker.sub.queue : broker.sub.queue[i] < worker.extra
           /\ Pure => worker.extra = created /\ broker.base < worker.extra /\ worker.extra = Top + 1
<1>. DEFINE x == worker.extra
<1>1. /\ x \in Nat /\ worker.last \in Nat /\ worker.count \in Nat /\ created \in Nat /\ created <= MaxEvents
      /\ MaxEvents \in Nat /\ Len(log) \in Nat /\ DOMAIN log = 1..Len(log) /\ broker.base \in Int
      /\ Len(tail) \in Nat /\ x # 0
  BY Parts DEF SourceTypes, Workers, Limits, Brokers
<1>2. /\ 0 <= From /\ worker.last <= Len(log)
      /\ worker.count = Len(tail) /\ x <= created /\ IsHere(x, worker.last)
  BY Parts DEF CommitSound
<1>3. Own = 1 /\ From = worker.last - 1 - worker.count
  BY DEF Own, From
<1>4. broker.base <= From /\ \A e \in Buffered : e < x
  BY Parts DEF BufferSound
<1>. HIDE DEF x
<1>5. x \in 1..created /\ x \in 1..MaxEvents /\ worker.last \in 1..Len(log) /\ broker.base < worker.last
  BY <1>1, <1>2, <1>3, <1>4
<1>6. \A e \in 1..MaxEvents : e \in Buffered => e < x
  BY <1>4
<1>7. \A i \in DOMAIN broker.buffer : broker.buffer[i] < x
  <2>. TAKE i \in DOMAIN broker.buffer
  <2>1. broker.buffer[i] \in 0..created
    BY BrokerFeedable
  <2>2. CASE broker.buffer[i] = 0
    BY <1>5, <2>2
  <2>3. CASE broker.buffer[i] \in 1..MaxEvents
    BY <1>6, <2>3 DEF Buffered, EventsOf
  <2>. QED
    BY <1>1, <2>1, <2>2, <2>3
<1>8. ASSUME broker.sub.open, ~broker.sub.replay, NEW i \in DOMAIN broker.sub.queue
      PROVE  broker.sub.queue[i] < x
  <2>1. broker.sub.queue[i] \in 0..created
    BY <1>8, BrokerFeedable
  <2>2. CASE broker.sub.queue[i] = 0
    BY <1>5, <2>2
  <2>3. CASE broker.sub.queue[i] \in 1..MaxEvents
    <3>1. Queued \subseteq Buffered
      BY <1>8, Parts DEF FollowSound, Following
    <3>2. broker.sub.queue[i] \in Queued
      BY <2>3 DEF Queued, EventsOf
    <3>. QED
      BY <1>6, <2>3, <3>1, <3>2
  <2>. QED
    BY <1>1, <2>1, <2>2, <2>3
<1>9. ASSUME Pure PROVE x = created /\ broker.base < x /\ x = Top + 1
  <2>1. /\ \A i \in DOMAIN log : log[i].id = i
        /\ created = From + Len(tail) + Own
    BY <1>9, Parts DEF Counted
  <2>2. log[worker.last].id = worker.last
    BY <1>1, <1>5, <2>1
  <2>3. x = worker.last
    BY <1>2, <2>2 DEF IsHere
  <2>4. created = worker.last
    BY <1>1, <1>2, <1>3, <2>1
  <2>5. Top = created - 1
    BY <1>3 DEF Top
  <2>. QED
    BY <1>1, <1>5, <2>3, <2>4, <2>5
<1>. QED
  BY <1>2, <1>4, <1>5, <1>7, <1>8, <1>9 DEF x

\* Calls that end the producer find it out of the way: nothing more is asked of
\* its tail, and whoever waits is told.
LEMMA OverSound ==
    ASSUME Limits, StreamInv, SourceTypes', SourceSound', LogGrows, log' = log, ended' = ended,
           reader' = reader, failure => failure', worker'.stage \in {"over", "left"},
           NEW X \in SUBSET (1..MaxEvents), Feeds(broker, broker', X),
           \A x \in X : x <= created' /\ (Pure => broker.base < x) /\ \A e \in Buffered : e < x,
           \A x \in X : Later(x) \/ \E i \in DOMAIN log : i > broker.base /\ IsHere(x, i),
           \A x \in X : Working /\ (Pure => x = Top + 1),
           Numbered', failure' \/ ended' \/ worker'.stage = "left",
           broker'.base # -1 => broker'.completed,
           broker'.sub.open => broker'.sub.completed
    PROVE  StreamInv'
<1>1. ~Committed' /\ ~Working'
  BY DEF Committed, Working
<1>2. OpenSound'
  BY <1>1 DEF OpenSound
<1>3. CompletionSound'
  BY <1>1 DEF CompletionSound, Working
<1>. QED
  BY <1>1, <1>2, <1>3, FedSound

\* A worker that failed.
LEMMA FailKeeps ==
    ASSUME Limits, StreamInv, WorkerFails
    PROVE  StreamInv'
<1>1. /\ worker' = [worker EXCEPT !.stage = "over"] /\ failure' = TRUE
      /\ log' = log /\ ended' = ended /\ created' = created /\ tail' = tail /\ reader' = reader
      /\ broker' = Complete(broker)
  BY DEF WorkerFails, sourceVars
<1>2. SourceTypes' /\ SourceSound' /\ LogGrows
  <2>1. UNCHANGED <<log, ended, created>>
    BY <1>1
  <2>. QED
    BY <2>1, Parts, ProducerSound
<1>3. worker'.stage = "over"
  BY <1>1, Parts DEF SourceTypes, Workers
<1>4. Feeds(broker, broker', {})
  BY <1>1, BrokerFeedable, CompleteFeeds
<1>5. broker'.seqOf = broker.seqOf
  BY <1>1, Parts, CompleteFields
<1>6. (broker'.base # -1 => broker'.completed) /\ (broker'.sub.open => broker'.sub.completed)
  BY <1>1, Parts, CompleteFields
<1>7. Numbered'
  BY <1>1, <1>5, Parts DEF Numbered, IsHere
<1>8. {} \in SUBSET (1..MaxEvents) /\ (failure => failure')
  BY <1>1
<1>. QED
  BY <1>1, <1>2, <1>3, <1>4, <1>6, <1>7, <1>8, OverSound

\* A worker that leaves the execution unfinished.
LEMMA LeaveKeeps ==
    ASSUME Limits, StreamInv, WorkerLeaves
    PROVE  StreamInv'
<1>1. /\ worker' = [worker EXCEPT !.stage = "left"] /\ failure' = failure
      /\ log' = log /\ ended' = ended /\ created' = created /\ tail' = tail /\ reader' = reader
      /\ broker' = Complete(broker)
  BY DEF WorkerLeaves, sourceVars
<1>2. SourceTypes' /\ SourceSound' /\ LogGrows
  <2>1. UNCHANGED <<log, ended, created>>
    BY <1>1
  <2>. QED
    BY <2>1, Parts, ProducerSound
<1>3. worker'.stage = "left"
  BY <1>1, Parts DEF SourceTypes, Workers
<1>4. Feeds(broker, broker', {})
  BY <1>1, BrokerFeedable, CompleteFeeds
<1>5. broker'.seqOf = broker.seqOf
  BY <1>1, Parts, CompleteFields
<1>6. (broker'.base # -1 => broker'.completed) /\ (broker'.sub.open => broker'.sub.completed)
  BY <1>1, Parts, CompleteFields
<1>7. Numbered'
  BY <1>1, <1>5, Parts DEF Numbered, IsHere
<1>8. {} \in SUBSET (1..MaxEvents) /\ (failure => failure')
  BY <1>1
<1>. QED
  BY <1>1, <1>2, <1>3, <1>4, <1>6, <1>7, <1>8, OverSound

\* A runtime that has lost its claim.
LEMMA LoseKeeps ==
    ASSUME Limits, StreamInv, LoseClaim
    PROVE  StreamInv'
<1>1. /\ worker.stage = "running" /\ worker' = [worker EXCEPT !.stage = "over"]
      /\ log' = log /\ ended' = ended /\ created' = created /\ tail' = <<>> /\ reader' = reader
      /\ failure' = failure /\ broker' = Handoff(broker)
  BY DEF LoseClaim
<1>2. SourceTypes' /\ SourceSound' /\ LogGrows
  <2>1. UNCHANGED <<log, ended, created>>
    BY <1>1
  <2>. QED
    BY <2>1, Parts, ProducerSound
<1>3. worker'.stage = "over"
  BY <1>1, Parts DEF SourceTypes, Workers
<1>4. /\ broker' \in Brokers
      /\ broker'.base = -1 /\ broker'.buffer = <<>> /\ ~broker'.replay
      /\ ~broker'.completed /\ broker'.seqOf = broker.seqOf
      /\ broker'.sub.open = broker.sub.open
      /\ broker.sub.open => /\ broker'.sub.replay /\ broker'.sub.completed
                            /\ broker'.sub.queue = <<Discard>>
      /\ ~broker.sub.open => broker'.sub = broker.sub
  BY <1>1, Parts, HandoffFields
<1>5. Buffered' = {} /\ DOMAIN broker'.buffer = {} /\ Increasing(broker'.buffer)
      /\ Len(broker'.buffer) <= QueueLimit
  BY <1>4, Marked DEF Buffered, Limits
<1>6. Numbered'
  BY <1>1, <1>4, Parts DEF Numbered, IsHere
<1>7. BufferSound'
  <2>1. Len(log') \in Nat /\ -1 <= -1
    BY <1>2 DEF SourceTypes
  <2>2. -1 <= Len(log')
    BY <2>1
  <2>. QED
    BY <1>3, <1>4, <1>5, <2>1, <2>2 DEF BufferSound, Committed
<1>8. OpenSound' /\ PureBuffer'
  BY <1>3, <1>5 DEF OpenSound, PureBuffer, Working
<1>9. CompletionSound'
  BY <1>1, <1>3, <1>4, Parts DEF CompletionSound, Working
<1>10. QueueSound'
  <2>1. Len(<<Discard>>) <= QueueLimit
    BY DEF Limits
  <2>2. CASE broker.sub.open
    BY <1>1, <1>4, <2>1, <2>2, Parts DEF QueueSound
  <2>3. CASE ~broker.sub.open
    BY <1>1, <1>4, <2>3, Parts DEF QueueSound
  <2>. QED
    BY <2>2, <2>3
<1>11. FollowSound' /\ PureFollow'
  BY <1>4 DEF FollowSound, PureFollow, Following
<1>12. ReaderSound' /\ PureSeen' /\ DeliverySound'
  BY <1>1, <1>2, Parts, ReaderKeeps
<1>13. Types'
  BY <1>1, <1>2, <1>4, Parts DEF SourceTypes, Types
<1>. QED
  BY <1>2, <1>6, <1>7, <1>8, <1>9, <1>10, <1>11, <1>12, <1>13 DEF StreamInv, BrokerSound, ReaderInv

\* A worker that finds its own terminal commit in the store, and publishes it.
LEMMA OwnReadBack ==
    ASSUME Limits, StreamInv, ReadBack(TRUE), worker.stage = "committed", worker.end,
           worker.extra = Last(log).id, worker.last = Len(log)
    PROVE  StreamInv'
<1>. DEFINE x == worker.extra
            c == PublishEvent(broker, x, worker.last)
<1>1. /\ worker.stage = "committed" /\ worker.end /\ worker' = [worker EXCEPT !.stage = "over"]
      /\ log' = log /\ ended' = ended /\ created' = created /\ failure' = failure
      /\ reader' = reader
      /\ broker' = Complete(c)
  BY DEF ReadBack, sourceVars, c
<1>2. SourceTypes' /\ SourceSound' /\ LogGrows
  <2>1. UNCHANGED <<log, ended, created>>
    BY <1>1
  <2>. QED
    BY <2>1, Parts, ProducerSound
<1>3. Committed /\ Working /\ worker.extra # 0 /\ ended /\ worker'.stage = "over" /\ worker.last \in Nat
  BY <1>1, Parts DEF Committed, Working, CommitSound, SourceTypes, Workers
<1>4. /\ x \in 1..created /\ x \in 1..MaxEvents
      /\ worker.last \in 1..Len(log) /\ IsHere(x, worker.last)
      /\ broker.base < worker.last
      /\ \A e \in Buffered : e < x
      /\ \A i \in DOMAIN broker.buffer : broker.buffer[i] < x
      /\ broker.sub.open /\ ~broker.sub.replay =>
            \A i \in DOMAIN broker.sub.queue : broker.sub.queue[i] < x
      /\ Pure => x = created /\ broker.base < x /\ x = Top + 1
  BY <1>3, OwnEvent
<1>. HIDE DEF x, c
<1>5. broker \in Brokers /\ broker.base # -1 /\ Feedable(broker)
      /\ created \in Nat /\ Len(log) \in Nat /\ DOMAIN log = 1..Len(log)
  BY <1>1, Parts, BrokerFeedable DEF CompletionSound, Working, SourceTypes
<1>6. Feeds(broker, c, {x})
  BY <1>3, <1>4, <1>5, PublishFeeds DEF c
<1>7. Feedable(c) /\ c \in Brokers
  BY <1>6, FeedsOn DEF Feedable
<1>8. Feeds(c, broker', {})
  BY <1>1, <1>7, CompleteFeeds
<1>9. Feeds(broker, broker', {x})
  <2>1. {x} \cup {} = {x}
    OBVIOUS
  <2>. QED
    BY <1>6, <1>8, <2>1, FeedsChain
<1>10. c.seqOf \in {broker.seqOf, [broker.seqOf EXCEPT ![x] = worker.last]}
  <2>1. Len(broker.buffer) <= QueueLimit /\ Len(broker.sub.queue) <= QueueLimit
    BY <1>5 DEF Feedable
  <2>. QED
    BY <1>3, <1>4, <1>5, <2>1, PublishFrame DEF c
<1>11. /\ broker'.seqOf = c.seqOf
       /\ (broker'.base # -1 => broker'.completed) /\ (broker'.sub.open => broker'.sub.completed)
  BY <1>1, <1>7, CompleteFields
<1>12. Numbered'
  <2>1. \A e \in 1..MaxEvents : broker'.seqOf[e] = broker.seqOf[e] \/ (e = x /\ broker'.seqOf[e] = worker.last)
    BY <1>4, <1>5, <1>10, <1>11 DEF Brokers
  <2>2. worker.last <= Len(log)
    BY <1>4, <1>5
  <2>. QED
    BY <1>1, <1>4, <2>1, <2>2, Parts DEF Numbered, IsHere
<1>13. {x} \in SUBSET (1..MaxEvents) /\ (failure => failure') /\ (failure' \/ ended')
  BY <1>1, <1>3, <1>4
<1>14. \A y \in {x} :
          /\ y <= created' /\ (Pure => broker.base < y) /\ \A e \in Buffered : e < y
          /\ Working /\ (Pure => y = Top + 1)
          /\ Later(y) \/ \E i \in DOMAIN log : i > broker.base /\ IsHere(y, i)
  <2>1. x <= created' /\ worker.last \in DOMAIN log /\ worker.last > broker.base
    BY <1>1, <1>4, <1>5 DEF Brokers
  <2>. QED
    BY <1>3, <1>4, <2>1
<1>. QED
  BY <1>1, <1>2, <1>3, <1>9, <1>11, <1>12, <1>13, <1>14, OverSound

\* A worker that finds the execution finished, and publishes nothing: it was
\* cancelled, or the broker takes no events any more.
LEMMA SilentReadBack ==
    ASSUME Limits, StreamInv, NEW published \in BOOLEAN, ReadBack(published), NEW c,
           broker' = Complete(c), Feeds(broker, c, {}), c.seqOf = broker.seqOf
    PROVE  StreamInv'
<1>1. /\ worker' = [worker EXCEPT !.stage = "over"] /\ failure' = failure /\ ended
      /\ log' = log /\ ended' = ended /\ created' = created /\ reader' = reader
  BY DEF ReadBack, sourceVars
<1>2. SourceTypes' /\ SourceSound' /\ LogGrows
  <2>1. UNCHANGED <<log, ended, created>>
    BY <1>1
  <2>. QED
    BY <2>1, Parts, ProducerSound
<1>3. worker'.stage \in {"over", "left"}
  BY <1>1, Parts DEF SourceTypes, Workers
<1>4. Feeds(broker, broker', {})
  <2>1. Feedable(c)
    BY FeedsOn
  <2>2. Feeds(c, broker', {})
    BY <2>1, CompleteFeeds
  <2>3. {} \cup {} = {}
    OBVIOUS
  <2>. QED
    BY <2>2, <2>3, FeedsChain
<1>5. c \in Brokers
  BY DEF Feeds
<1>6. broker'.seqOf = broker.seqOf
  BY <1>5, CompleteFields
<1>7. (broker'.base # -1 => broker'.completed) /\ (broker'.sub.open => broker'.sub.completed)
  BY <1>5, CompleteFields
<1>8. Numbered'
  BY <1>1, <1>6, Parts DEF Numbered, IsHere
<1>9. {} \in SUBSET (1..MaxEvents) /\ (failure => failure') /\ (failure' \/ ended' \/ worker'.stage = "left")
  BY <1>1
<1>. QED
  BY <1>1, <1>2, <1>3, <1>4, <1>7, <1>8, <1>9, OverSound

\* PublishEvent feeds nothing when the broker takes no events.
LEMMA Unpublished ==
    ASSUME Limits, NEW b, Feedable(b), NEW e \in 1..MaxEvents, NEW seq \in Nat,
           b.base = -1 \/ b.replay \/ ~Fits(b.buffer)
    PROVE  Feeds(b, PublishEvent(b, e, seq), {}) /\ PublishEvent(b, e, seq).seqOf = b.seqOf
<1>. DEFINE c == PublishEvent(b, e, seq)
            s == b.sub
            r == RequireReplay(b.sub, Replay)
<1>1. /\ b \in Brokers
      /\ Len(b.buffer) <= QueueLimit /\ Len(b.sub.queue) <= QueueLimit /\ Increasing(b.buffer)
      /\ b.base = -1 \/ b.replay => b.buffer = <<>>
      /\ b.sub.open /\ ~b.sub.replay => ~b.replay /\ b.base # -1 /\ Increasing(b.sub.queue)
  BY DEF Feedable
<1>2. CASE b.base = -1 \/ b.replay
  <2>1. c = b
    BY <1>2 DEF PublishEvent
  <2>. HIDE DEF c
  <2>2. Feeds(b, b, {})
    BY <1>1 DEF Feeds
  <2>. QED
    BY <2>1, <2>2 DEF c
<1>3. CASE b.base # -1 /\ ~b.replay /\ ~Fits(b.buffer)
  <2>1. c = [b EXCEPT !.replay = TRUE, !.buffer = <<>>, !.sub = r]
    BY <1>3 DEF PublishEvent
  <2>2. s \in Subscriptions /\ r \in Subscriptions /\ r.open = s.open
    BY <1>1, ReplayFields DEF Brokers
  <2>3. /\ ~s.open => r = s
        /\ s.open => r.replay /\ (r = s \/ r.queue = <<Replay>>)
        /\ s.replay => r = s
    BY <2>2, ReplayFields
  <2>. HIDE DEF r, c
  <2>4. <<>> \in Seq(Int) /\ TRUE \in BOOLEAN
    OBVIOUS
  <2>5. /\ c \in Brokers /\ c.base = b.base /\ c.replay /\ c.buffer = <<>> /\ c.sub = r
        /\ c.seqOf = b.seqOf
    BY <1>1, <2>1, <2>2, <2>4 DEF Brokers
  <2>6. Len(<<Replay>>) <= QueueLimit
    BY Marked DEF Limits
  <2>7. Len(c.sub.queue) <= QueueLimit
    <3>1. c.sub.queue = s.queue \/ c.sub.queue = <<Replay>>
      BY <2>3, <2>5
    <3>. QED
      BY <1>1, <2>6, <3>1
  <2>8. Len(c.buffer) <= QueueLimit /\ Increasing(c.buffer) /\ DOMAIN c.buffer = {}
    BY <2>5, Marked DEF Limits
  <2>9. Feeds(b, c, {})
    BY <1>1, <1>3, <2>2, <2>3, <2>5, <2>7, <2>8 DEF Feeds
  <2>. QED
    BY <2>5, <2>9 DEF c
<1>. QED
  BY <1>2, <1>3

\* A worker that finds the execution finished by another runtime publishes that
\* event, if it publishes anything.
LEMMA ForeignReadBack ==
    ASSUME Limits, StreamInv, ReadBack(TRUE), log # <<>>, Last(log).by = "there"
    PROVE  StreamInv' \/ StraySound'
<1>. DEFINE x == Last(log).id
            n == Len(log)
            c == PublishEvent(broker, x, n)
<1>1. /\ ended /\ worker' = [worker EXCEPT !.stage = "over"] /\ log' = log /\ ended' = ended
      /\ broker' = Complete(c)
  BY DEF ReadBack, sourceVars
<1>2. /\ x \in 1..MaxEvents /\ n \in Nat /\ n # 0 /\ log[n].by = "there"
      /\ log \in Seq([by : {"here", "there"}, id : Nat]) /\ worker \in Workers
      /\ broker \in Brokers
  <2>1. log \in Seq([by : {"here", "there"}, id : Nat]) /\ n \in DOMAIN log /\ Last(log) = log[n]
    BY Parts DEF SourceTypes, Last
  <2>2. log[n].id \in 1..created /\ created \in 0..MaxEvents
    BY <2>1, Parts DEF LogSound, SourceTypes
  <2>3. n \in Nat /\ n # 0 /\ worker \in Workers /\ broker \in Brokers /\ MaxEvents \in Nat
    BY <2>1, Parts DEF SourceTypes, Limits
  <2>. HIDE DEF n
  <2>4. x \in 1..MaxEvents
    BY <2>1, <2>2, <2>3
  <2>. QED
    BY <2>1, <2>3, <2>4
<1>3. Feedable(broker)
  BY BrokerFeedable
<1>. HIDE DEF x, n
<1>4. CASE broker.base = -1 \/ broker.replay \/ ~Fits(broker.buffer)
  <2>1. Feeds(broker, c, {}) /\ c.seqOf = broker.seqOf
    BY <1>2, <1>3, <1>4, Unpublished
  <2>. HIDE DEF c
  <2>. QED
    BY <1>1, <2>1, SilentReadBack
<1>5. CASE broker.base # -1 /\ ~broker.replay /\ Fits(broker.buffer)
  <2>1. c = [broker EXCEPT !.buffer = Added(@, x), !.seqOf[x] = n, !.sub = Put(@, x)]
    BY <1>5 DEF PublishEvent
  <2>2. c \in Brokers
    BY <1>2, <1>3, PublishFrame DEF Feedable
  <2>3. c.seqOf[x] = n
    <3>1. broker.seqOf \in [1..MaxEvents -> Nat]
      BY <1>2 DEF Brokers
    <3>2. c.seqOf = [broker.seqOf EXCEPT ![x] = n]
      BY <1>2, <2>1 DEF Brokers
    <3>. HIDE DEF c
    <3>. QED
      BY <1>2, <3>1, <3>2
  <2>. HIDE DEF c
  <2>4. broker' \in Brokers /\ broker'.seqOf[x] = n
    BY <1>1, <2>2, <2>3, CompleteFields
  <2>5. worker'.stage = "over"
    BY <1>1, <1>2 DEF Workers
  <2>. QED
    BY <1>1, <1>2, <2>4, <2>5 DEF StraySound, Strayed
<1>. QED
  BY <1>4, <1>5

\* The end that a producer finds is its own, or another runtime's.
LEMMA OwnEnd ==
    ASSUME Limits, StreamInv, Working, ended, ~(log # <<>> /\ Last(log).by = "there")
    PROVE  /\ worker.stage = "committed" /\ worker.end
           /\ worker.extra = Last(log).id /\ worker.last = Len(log)
<1>1. /\ log # <<>>
      /\ log[Len(log)].by = "there" \/ (Committed /\ worker.end /\ worker.last = Len(log))
  BY Parts DEF EndSound
<1>2. Committed /\ worker.end /\ worker.last = Len(log)
  BY <1>1 DEF Last
<1>3. IsHere(worker.extra, worker.last)
  BY <1>2, Parts DEF CommitSound
<1>. QED
  BY <1>2, <1>3 DEF IsHere, Last, Committed

\* A worker that finds the execution finished.
LEMMA ReadBackKeeps ==
    ASSUME Limits, StreamInv, NEW published \in BOOLEAN, ReadBack(published)
    PROVE  StreamInv' \/ StraySound'
<1>1. ended /\ Working /\ log \in Seq([by : {"here", "there"}, id : Nat])
  BY Parts DEF ReadBack, SourceTypes
<1>2. CASE ~published
  <2>1. broker' = Complete(broker)
    BY <1>2 DEF ReadBack
  <2>2. Feeds(broker, broker, {})
    BY BrokerFeedable DEF Feedable, Feeds
  <2>. QED
    BY <2>1, <2>2, SilentReadBack
<1>3. CASE published /\ log # <<>> /\ Last(log).by = "there"
  BY <1>3, ForeignReadBack
<1>4. CASE published /\ ~(log # <<>> /\ Last(log).by = "there")
  <2>1. worker.stage = "committed" /\ worker.end /\ worker.extra = Last(log).id /\ worker.last = Len(log)
    BY <1>1, <1>4, OwnEnd
  <2>2. ReadBack(TRUE)
    BY <1>4
  <2>. QED
    BY <2>1, <2>2, OwnReadBack
<1>. QED
  BY <1>2, <1>3, <1>4

\* Numbered off from one to k.
LEMMA CountedOff ==
    ASSUME NEW T, NEW k \in Nat, NEW f \in [1..k -> T],
           \A i, j \in 1..k : f[i] = f[j] => i = j,
           \A t \in T : \E i \in 1..k : f[i] = t
    PROVE  IsFiniteSet(T) /\ Cardinality(T) = k
<1>1. f \in Bijection(1..k, T)
  BY DEF Bijection, Injection, Surjection, IsInjective
<1>2. IsFiniteSet(1..k) /\ Cardinality(1..k) = k
  BY FS_Interval
<1>3. ExistsBijection(1..k, T)
  BY <1>1 DEF ExistsBijection
<1>. QED
  BY <1>2, <1>3, FS_Bijection

\* The confirmation of a commit gives the events of the tail that have landed
\* their positions: they are the first in the buffer without a number.
LEMMA Confirmed ==
    ASSUME Limits, StreamInv, Committed, NEW c, c = ConfirmEvents(broker, From + 1, worker.count)
    PROVE  /\ c \in Brokers /\ c.base = broker.base /\ c.buffer = broker.buffer
           /\ c.replay = broker.replay /\ c.completed = broker.completed /\ c.sub = broker.sub
           /\ \A e \in 1..MaxEvents : c.seqOf[e] = broker.seqOf[e]
                 \/ \E k \in 1..worker.count : e = tail[k] /\ c.seqOf[e] = From + k
           /\ ~broker.replay => \A k \in 1..worker.count : c.seqOf[tail[k]] # 0
<1>. DEFINE B == broker.buffer
            Open(i) == broker.buffer[i] # Delta /\ broker.seqOf[broker.buffer[i]] = 0
            Place(i) == Cardinality({j \in 1..i : Open(j)})
            Taken(e) == {i \in DOMAIN broker.buffer :
                            broker.buffer[i] = e /\ Open(i) /\ Place(i) <= worker.count}
            At(e) == (From + 1) - 1 + Place(CHOOSE i \in Taken(e) : TRUE)
            new == [e \in DOMAIN broker.seqOf |-> IF Taken(e) # {} THEN At(e) ELSE broker.seqOf[e]]
<1>1. /\ broker \in Brokers /\ broker.base # -1 /\ worker.stage = "committed"
      /\ broker.seqOf \in [1..MaxEvents -> Nat] /\ B \in Seq(Int) /\ DOMAIN B = 1..Len(B) /\ Len(B) \in Nat
      /\ worker.count \in Nat /\ worker.count <= Len(tail) /\ 0 <= From /\ From \in Int
      /\ tail \in Seq(Nat) /\ DOMAIN tail = 1..Len(tail) /\ Len(tail) \in Nat /\ created \in Nat
  <2>1. From \in Int
    BY Parts DEF From, Own, SourceTypes, Workers
  <2>. QED
    BY <2>1, Parts DEF Committed, CompletionSound, Working, Brokers, SourceTypes, Workers, CommitSound
<1>2. CASE broker.replay
  <2>1. c = broker
    BY <1>2 DEF ConfirmEvents
  <2>. QED
    BY <1>1, <1>2, <2>1
<1>3. CASE ~broker.replay
  <2>1. c = [broker EXCEPT !.seqOf = new]
    BY <1>1, <1>3 DEF ConfirmEvents
  <2>. HIDE DEF Taken, At
  <2>2. /\ \A e \in Buffered : broker.seqOf[e] = 0 => \E k \in DOMAIN tail : tail[k] = e
        /\ \A k \in DOMAIN tail : tail[k] \in Buffered /\ broker.seqOf[tail[k]] = 0
        /\ \A k, l \in DOMAIN tail : k < l => tail[k] < tail[l]
        /\ Increasing(B)
    BY <1>1, <1>3, Parts DEF OpenSound, Working, TailSound, BufferSound
  <2>3. \A i \in DOMAIN B : B[i] \in 0..created /\ (B[i] # 0 => B[i] \in Buffered /\ B[i] > 0)
    <3>1. \A i \in DOMAIN B : B[i] \in 0..created
      BY BrokerFeedable
    <3>2. created <= MaxEvents /\ MaxEvents \in Nat
      BY Parts DEF SourceTypes, Limits
    <3>3. \A n \in 0..created : n # 0 => n \in 1..MaxEvents /\ n > 0
      BY <1>1, <3>2
    <3>4. \A i \in DOMAIN B : B[i] # 0 => B[i] \in 1..MaxEvents /\ B[i] > 0
      BY <3>1, <3>3
    <3>. QED
      BY <3>1, <3>4 DEF Buffered, EventsOf
  <2>3a. /\ \A k \in DOMAIN tail : k \in Nat /\ k >= 1 /\ tail[k] \in Nat
         /\ \A i \in DOMAIN B : i \in Nat /\ i >= 1 /\ B[i] \in Nat
    <3>1. \A k \in DOMAIN tail : k \in Nat /\ k >= 1 /\ tail[k] \in Nat
      BY <1>1
    <3>2. \A n \in 0..created : n \in Nat
      BY <1>1
    <3>3. \A i \in DOMAIN B : i \in Nat /\ i >= 1
      BY <1>1
    <3>. QED
      BY <2>3, <3>1, <3>2, <3>3
  \* An open place holds an event of the tail, and the other way round.
  <2>4. \A i \in DOMAIN B : Open(i) => \E k \in DOMAIN tail : tail[k] = B[i]
    BY <2>2, <2>3 DEF Delta
  <2>5. \A k \in DOMAIN tail : tail[k] > 0 /\ \E i \in DOMAIN B : B[i] = tail[k] /\ Open(i)
    <3>. TAKE k \in DOMAIN tail
    <3>1. tail[k] \in Buffered /\ broker.seqOf[tail[k]] = 0
      BY <2>2
    <3>2. tail[k] \in 1..MaxEvents /\ \E i \in DOMAIN B : B[i] = tail[k]
      BY <3>1 DEF Buffered, EventsOf
    <3>. QED
      BY <3>1, <3>2 DEF Delta
  <2>6. \A k, l \in DOMAIN tail : tail[k] = tail[l] => k = l
    BY <2>2, <2>3a
  <2>7. ASSUME NEW k \in DOMAIN tail, NEW i \in DOMAIN B, B[i] = tail[k], Open(i)
        PROVE  Place(i) = k
    <3>. DEFINE T == {j \in 1..i : Open(j)}
                f == [l \in 1..k |-> CHOOSE j \in DOMAIN B : B[j] = tail[l] /\ Open(j)]
    <3>1. k \in Nat /\ \A l \in 1..k : l \in DOMAIN tail /\ tail[l] \in Nat
      BY SMTT(30), <1>1
    <3>2. ASSUME NEW l \in 1..k PROVE f[l] \in DOMAIN B /\ B[f[l]] = tail[l] /\ Open(f[l])
      <4>1. \E j \in DOMAIN B : B[j] = tail[l] /\ Open(j)
        BY <2>5, <3>1
      <4>. HIDE DEF Open
      <4>2. f[l] = CHOOSE j \in DOMAIN B : B[j] = tail[l] /\ Open(j)
        OBVIOUS
      <4>. HIDE DEF f
      <4>. QED
        BY <4>1, <4>2
    <3>. HIDE DEF f, Open
    <3>3. ASSUME NEW l \in 1..k PROVE f[l] \in 1..i
      <4>1. f[l] \in DOMAIN B /\ B[f[l]] = tail[l] /\ tail[l] > 0 /\ tail[k] > 0
        BY <2>5, <3>1, <3>2
      <4>2. tail[l] <= tail[k] /\ tail[l] \in Nat /\ tail[k] \in Nat
        <5>1. l \in DOMAIN tail /\ l \in Nat /\ k \in Nat /\ (l < k \/ l = k)
          BY <3>1
        <5>2. tail[l] \in Nat /\ tail[k] \in Nat
          BY <2>3a, <5>1
        <5>. QED
          BY <2>2, <5>1, <5>2
      <4>3. ~(i < f[l])
        <5>. SUFFICES ASSUME i < f[l] PROVE FALSE
          OBVIOUS
        <5>1. B[i] < B[f[l]]
          BY <2>2, <2>7, <4>1 DEF Increasing
        <5>. QED
          BY <2>7, <4>1, <4>2, <5>1
      <4>. QED
        BY <1>1, <4>1, <4>3
    <3>4. ASSUME NEW j \in 1..i, Open(j) PROVE \E l \in 1..k : f[l] = j
      <4>1. j \in DOMAIN B /\ j \in Nat /\ i \in Nat
        BY <1>1
      <4>2. PICK l \in DOMAIN tail : tail[l] = B[j]
        BY <2>4, <3>4, <4>1
      <4>3. tail[l] > 0 /\ tail[k] > 0 /\ l \in Nat /\ k \in Nat
        BY <2>3a, <2>5
      <4>4. l <= k
        <5>. SUFFICES ASSUME k < l PROVE FALSE
          BY <4>3
        <5>1. tail[k] < tail[l]
          BY <2>2
        <5>2. j < i
          BY SMTT(30), <2>7, <4>1, <4>2, <5>1, <1>1
        <5>3. B[j] < B[i]
          BY <2>2, <2>7, <4>1, <4>2, <4>3, <5>2 DEF Increasing
        <5>. QED
          BY SMTT(30), <1>1, <2>7, <4>2, <5>1, <5>3
      <4>5. l \in 1..k
        BY <1>1, <4>4
      <4>6. f[l] \in DOMAIN B /\ B[f[l]] = B[j]
        BY <3>2, <4>2, <4>5
      <4>7. f[l] = j
        <5>1. ~(f[l] < j) /\ ~(j < f[l])
          <6>1. B[f[l]] > 0 /\ B[j] > 0 /\ B[j] \in Nat /\ ~(B[j] < B[j])
            BY <2>3a, <4>1, <4>2, <4>3, <4>6
          <6>. QED
            BY <2>2, <4>1, <4>6, <6>1 DEF Increasing
        <5>. QED
          BY <2>3a, <4>1, <4>6, <5>1
      <4>. QED
        BY <4>5, <4>7
    <3>5. \A l, m \in 1..k : f[l] = f[m] => l = m
      BY <2>6, <3>1, <3>2
    <3>6. f \in [1..k -> T]
      <4>1. \A l \in 1..k : f[l] \in T
        BY <3>2, <3>3
      <4>2. f = [l \in 1..k |-> f[l]]
        BY DEF f
      <4>. QED
        BY <4>1, <4>2
    <3>7. \A t \in T : \E l \in 1..k : f[l] = t
      BY <3>4
    <3>. HIDE DEF T
    <3>8. Cardinality(T) = k
      BY <3>1, <3>5, <3>6, <3>7, CountedOff
    <3>. QED
      BY <3>8 DEF T
  <2>8. ASSUME NEW e, Taken(e) # {}
        PROVE  \E k \in 1..worker.count : e = tail[k] /\ At(e) = From + k
    <3>. DEFINE i == CHOOSE i \in Taken(e) : TRUE
    <3>1. i \in Taken(e)
      BY <2>8
    <3>2. At(e) = (From + 1) - 1 + Place(i)
      BY DEF At
    <3>. HIDE DEF i
    <3>3. i \in DOMAIN B /\ B[i] = e /\ Open(i) /\ Place(i) <= worker.count
      BY <3>1 DEF Taken
    <3>. HIDE DEF Open, Place
    <3>4. PICK k \in DOMAIN tail : tail[k] = B[i]
      BY <2>4, <3>3
    <3>5. Place(i) = k
      BY <2>7, <3>3, <3>4
    <3>6. k \in 1..worker.count
      BY <1>1, <3>3, <3>5
    <3>. QED
      BY <1>1, <3>2, <3>3, <3>4, <3>5, <3>6
  <2>9. ASSUME NEW k \in 1..worker.count PROVE Taken(tail[k]) # {}
    <3>1. k \in DOMAIN tail
      BY <1>1
    <3>2. PICK i \in DOMAIN B : B[i] = tail[k] /\ Open(i)
      BY <2>5, <3>1
    <3>. HIDE DEF Open, Place
    <3>3. Place(i) = k
      BY <2>7, <3>1, <3>2
    <3>4. Place(i) <= worker.count
      BY <1>1, <3>3
    <3>5. i \in Taken(tail[k])
      BY <3>2, <3>4 DEF Taken
    <3>. QED
      BY <3>5
  <2>. HIDE DEF Open, Place
  <2>10. \A e \in 1..MaxEvents : new[e] = IF Taken(e) # {} THEN At(e) ELSE broker.seqOf[e]
    BY <1>1
  <2>11. new \in [1..MaxEvents -> Nat]
    <3>1. \A e \in 1..MaxEvents : (IF Taken(e) # {} THEN At(e) ELSE broker.seqOf[e]) \in Nat
      <4>. TAKE e \in 1..MaxEvents
      <4>1. CASE Taken(e) # {}
        <5>1. PICK k \in 1..worker.count : At(e) = From + k
          BY <2>8, <4>1
        <5>2. From + k \in Nat
          BY <1>1
        <5>. QED
          BY <4>1, <5>1, <5>2
      <4>2. CASE Taken(e) = {}
        BY <1>1, <4>2
      <4>. QED
        BY <4>1, <4>2
    <3>. QED
      BY <1>1, <3>1
  <2>. HIDE DEF new
  <2>12. /\ c \in Brokers /\ c.base = broker.base /\ c.buffer = broker.buffer
         /\ c.replay = broker.replay /\ c.completed = broker.completed /\ c.sub = broker.sub
         /\ c.seqOf = new
    BY <1>1, <2>1, <2>11 DEF Brokers
  <2>13. \A e \in 1..MaxEvents : new[e] = broker.seqOf[e]
                 \/ \E k \in 1..worker.count : e = tail[k] /\ new[e] = From + k
    BY <2>8, <2>10
  <2>14. ASSUME NEW k \in 1..worker.count PROVE new[tail[k]] # 0
    <3>1. tail[k] \in 1..MaxEvents /\ k \in DOMAIN tail
      <4>1. k \in DOMAIN tail
        BY <1>1
      <4>. QED
        BY <2>2, <4>1 DEF Buffered, EventsOf
    <3>2. Taken(tail[k]) # {} /\ new[tail[k]] = At(tail[k])
      BY <2>9, <2>10, <3>1
    <3>3. PICK l \in 1..worker.count : At(tail[k]) = From + l
      BY <2>8, <3>2
    <3>. QED
      BY <1>1, <3>2, <3>3
  <2>. QED
    BY <2>12, <2>13, <2>14
<1>. QED
  BY <1>2, <1>3

\* The answer of a commit: the numbers of what has landed, the event of its own,
\* and the end.
LEMMA AcknowledgeKeeps ==
    ASSUME Limits, StreamInv, Acknowledge
    PROVE  StreamInv'
<1>. DEFINE n == worker.count
            x == worker.extra
            X == IF x = 0 THEN {} ELSE {x}
            c == IF n = 0 THEN broker ELSE ConfirmEvents(broker, worker.last - Own - n + 1, n)
            d == IF Own = 0 THEN c ELSE PublishEvent(c, x, worker.last)
<1>1. /\ worker.stage = "committed"
      /\ worker' = [worker EXCEPT !.stage = IF worker.end THEN "over" ELSE "running"]
      /\ log' = log /\ ended' = ended /\ created' = created /\ failure' = failure
      /\ reader' = reader /\ tail' = SubSeq(tail, n + 1, Len(tail))
  BY DEF Acknowledge, sourceVars
<1>2. broker' = IF worker.end THEN Complete(d) ELSE d
  <2>1. Own = IF x = 0 THEN 0 ELSE 1
    BY DEF Own
  <2>. QED
    BY <2>1 DEF Acknowledge
<1>3. SourceTypes' /\ SourceSound' /\ LogGrows
  BY Parts, AcknowledgeSound
<1>4. /\ Committed /\ Working /\ broker \in Brokers /\ broker.base # -1 /\ Feedable(broker)
      /\ ~broker.completed
      /\ worker \in Workers /\ n \in Nat /\ x \in Nat /\ worker.last \in Nat /\ n <= Len(tail)
      /\ worker.end => ended /\ x # 0
      /\ x # 0 => n = Len(tail)
      /\ From \in Int /\ 0 <= From
  <2>1. From \in Int
    BY Parts DEF From, Own, SourceTypes, Workers
  <2>. QED
    BY <1>1, <2>1, Parts, BrokerFeedable
       DEF Committed, Working, CompletionSound, SourceTypes, Workers, CommitSound
<1>5. /\ worker'.stage \in {"running", "over"} /\ ~Committed'
      /\ worker'.stage = "over" <=> worker.end
      /\ Working' <=> ~worker.end
  BY <1>1, <1>4 DEF Workers, Committed, Working
\* The confirmation.
<1>6. /\ c \in Brokers /\ c.base = broker.base /\ c.buffer = broker.buffer
      /\ c.replay = broker.replay /\ c.completed = broker.completed /\ c.sub = broker.sub
      /\ \A e \in 1..MaxEvents : c.seqOf[e] = broker.seqOf[e]
            \/ \E k \in 1..n : e = tail[k] /\ c.seqOf[e] = From + k
      /\ ~broker.replay => \A k \in 1..n : c.seqOf[tail[k]] # 0
  <2>1. CASE n = 0
    <3>1. c = broker /\ 1..n = {}
      BY <2>1
    <3>. QED
      BY <1>4, <3>1
  <2>2. CASE n # 0
    <3>1. worker.last - Own - n + 1 = From + 1
      BY DEF From
    <3>2. c = ConfirmEvents(broker, From + 1, n)
      BY <2>2, <3>1
    <3>. HIDE DEF c
    <3>. QED
      BY <1>4, <3>2, Confirmed
  <2>. QED
    BY <2>1, <2>2
<1>. HIDE DEF c
<1>7. Feedable(c) /\ Feeds(broker, c, {})
  <2>1. Feedable(c)
    BY <1>4, <1>6 DEF Feedable
  <2>2. Feeds(broker, c, {})
    BY <1>4, <1>6 DEF Feeds, Feedable
  <2>. QED
    BY <2>1, <2>2
\* The commit's own event.
<1>8. x # 0 => /\ x \in 1..created /\ x \in 1..MaxEvents
               /\ worker.last \in 1..Len(log) /\ IsHere(x, worker.last)
               /\ broker.base < worker.last
               /\ \A e \in Buffered : e < x
               /\ \A i \in DOMAIN broker.buffer : broker.buffer[i] < x
               /\ broker.sub.open /\ ~broker.sub.replay =>
                     \A i \in DOMAIN broker.sub.queue : broker.sub.queue[i] < x
               /\ Pure => x = created /\ broker.base < x /\ x = Top + 1
  BY <1>4, OwnEvent
<1>. HIDE DEF x, n
<1>9. /\ Feeds(broker, d, X) /\ Feedable(d)
      /\ d.base = broker.base /\ d.completed = broker.completed
      /\ d.sub.open = broker.sub.open /\ d.sub.completed = broker.sub.completed
      /\ \A e \in 1..MaxEvents : d.seqOf[e] = c.seqOf[e] \/ (e = x /\ x # 0 /\ d.seqOf[e] = worker.last)
      /\ x # 0 /\ ~d.replay => d.seqOf[x] = worker.last
  <2>1. CASE x = 0
    <3>1. d = c /\ X = {}
      BY <2>1 DEF Own, x
    <3>. QED
      BY <1>6, <1>7, <2>1, <3>1
  <2>2. CASE x # 0
    <3>1. d = PublishEvent(c, x, worker.last) /\ X = {x}
      BY <2>2 DEF Own, x
    <3>. HIDE DEF d, X
    <3>2. /\ x \in 1..MaxEvents /\ worker.last \in Nat /\ c.base # -1
          /\ \A i \in DOMAIN c.buffer : c.buffer[i] < x
          /\ c.sub.open /\ ~c.sub.replay => \A i \in DOMAIN c.sub.queue : c.sub.queue[i] < x
      BY <1>4, <1>6, <1>8, <2>2
    <3>3. Feeds(c, d, {x})
      BY <1>7, <3>1, <3>2, PublishFeeds
    <3>4. Feeds(broker, d, X) /\ Feedable(d)
      <4>1. {} \cup {x} = X
        BY <3>1
      <4>. QED
        BY <1>7, <3>3, <4>1, FeedsChain, FeedsOn
    <3>5. /\ d.base = c.base /\ d.completed = c.completed
          /\ d.sub.open = c.sub.open /\ d.sub.completed = c.sub.completed
          /\ d.seqOf \in {c.seqOf, [c.seqOf EXCEPT ![x] = worker.last]}
          /\ c.base = -1 \/ c.replay => d = c
          /\ c.base # -1 /\ ~c.replay =>
               \/ /\ Fits(c.buffer) /\ ~d.replay /\ d.buffer = Added(c.buffer, x)
                  /\ d.seqOf = [c.seqOf EXCEPT ![x] = worker.last]
                  /\ d.sub = Put(c.sub, x)
               \/ /\ d.replay /\ d.buffer = <<>> /\ d.sub = RequireReplay(c.sub, Replay)
      <4>1. Len(c.buffer) <= QueueLimit /\ Len(c.sub.queue) <= QueueLimit
        BY <1>7 DEF Feedable
      <4>2. \A s \in {worker.last} : s \in Nat =>
              LET p == PublishEvent(c, x, s)
              IN /\ p.base = c.base /\ p.completed = c.completed
                 /\ p.sub.open = c.sub.open /\ p.sub.completed = c.sub.completed
                 /\ p.seqOf \in {c.seqOf, [c.seqOf EXCEPT ![x] = s]}
                 /\ c.base = -1 \/ c.replay => p = c
                 /\ c.base # -1 /\ ~c.replay =>
                      \/ /\ Fits(c.buffer) /\ ~p.replay /\ p.buffer = Added(c.buffer, x)
                         /\ p.seqOf = [c.seqOf EXCEPT ![x] = s]
                         /\ p.sub = Put(c.sub, x)
                      \/ /\ p.replay /\ p.buffer = <<>> /\ p.sub = RequireReplay(c.sub, Replay)
        BY <1>6, <3>2, <4>1, PublishFrame
      <4>. QED
        BY <3>1, <3>2, <4>2
    <3>6. c.seqOf \in [1..MaxEvents -> Nat]
      BY <1>6 DEF Brokers
    <3>7. \A e \in 1..MaxEvents : d.seqOf[e] = c.seqOf[e] \/ (e = x /\ d.seqOf[e] = worker.last)
      BY <3>2, <3>5, <3>6
    <3>8. ~d.replay => d.seqOf[x] = worker.last
      BY <1>4, <1>6, <3>2, <3>5, <3>6
    <3>. QED
      BY <1>6, <2>2, <3>4, <3>5, <3>7, <3>8
  <2>. QED
    BY <2>1, <2>2
<1>. HIDE DEF d
\* The end.
<1>10. /\ Feeds(broker, broker', X)
       /\ broker'.seqOf = d.seqOf
       /\ ~worker.end => broker' = d
       /\ worker.end => /\ broker'.base # -1 => broker'.completed
                        /\ broker'.sub.open => broker'.sub.completed
  <2>1. CASE worker.end
    <3>1. broker' = Complete(d) /\ d \in Brokers
      BY <1>2, <1>9, <2>1 DEF Feedable
    <3>2. Feeds(d, broker', {})
      BY <1>9, <3>1, CompleteFeeds
    <3>3. Feeds(broker, broker', X)
      <4>1. X \cup {} = X
        OBVIOUS
      <4>. HIDE DEF X
      <4>. QED
        BY <1>9, <3>2, <4>1, FeedsChain
    <3>4. /\ broker'.seqOf = d.seqOf
          /\ (broker'.base # -1 => broker'.completed) /\ (broker'.sub.open => broker'.sub.completed)
      BY <3>1, CompleteFields
    <3>. QED
      BY <2>1, <3>3, <3>4
  <2>2. CASE ~worker.end
    BY <1>2, <1>9, <2>2
  <2>. QED
    BY <2>1, <2>2
<1>11. /\ created \in Nat /\ Len(log) \in Nat /\ DOMAIN log = 1..Len(log)
       /\ DOMAIN tail = 1..Len(tail) /\ Len(tail) \in Nat /\ tail \in Seq(Nat)
       /\ broker.base \in Int /\ worker.last <= Len(log) /\ n \in Nat /\ x \in Nat
  BY <1>4, Parts DEF SourceTypes, Brokers, CommitSound
<1>4a. From \in Nat /\ n \in Nat /\ worker.last \in Nat /\ Len(log) \in Nat /\ worker.last <= Len(log)
  <2>1. From \in Int /\ 0 <= From
    BY <1>4
  <2>2. From \in Nat
    BY <2>1
  <2>3. worker.last \in Nat
    BY <1>4
  <2>. QED
    BY <1>11, <2>2, <2>3
<1>12. Numbered'
  <2>. SUFFICES ASSUME NEW e \in 1..MaxEvents, broker'.seqOf[e] # 0
                PROVE  broker'.seqOf[e] <= Len(log) /\ IsHere(e, broker'.seqOf[e])
    BY <1>1 DEF Numbered, IsHere
  <2>1. CASE broker'.seqOf[e] = broker.seqOf[e]
    BY <2>1, Parts DEF Numbered
  <2>2. CASE \E k \in 1..n : e = tail[k] /\ broker'.seqOf[e] = From + k
    <3>1. PICK k \in 1..n : e = tail[k] /\ broker'.seqOf[e] = From + k
      BY <2>2
    <3>2. IsHere(tail[k], From + k)
      BY <1>4, Parts DEF CommitSound, n
    <3>3. From + n <= worker.last
      BY <1>4 DEF From, Own, n
    <3>4. From + k <= Len(log)
      BY <1>4a, <3>1, <3>3
    <3>. QED
      BY <3>1, <3>2, <3>4
  <2>3. CASE e = x /\ x # 0 /\ broker'.seqOf[e] = worker.last
    BY <1>8, <1>11, <2>3
  <2>. QED
    BY <1>6, <1>9, <1>10, <2>1, <2>2, <2>3
<1>13. X \in SUBSET (1..MaxEvents) /\ (failure => failure')
  BY <1>1, <1>8
<1>14. \A y \in X :
          /\ y <= created' /\ (Pure => broker.base < y) /\ \A e \in Buffered : e < y
          /\ Working /\ (Pure => y = Top + 1)
          /\ Later(y) \/ \E i \in DOMAIN log : i > broker.base /\ IsHere(y, i)
  <2>. SUFFICES ASSUME x # 0
                PROVE  /\ x <= created' /\ (Pure => broker.base < x) /\ \A e \in Buffered : e < x
                       /\ Working /\ (Pure => x = Top + 1)
                       /\ \E i \in DOMAIN log : i > broker.base /\ IsHere(x, i)
    OBVIOUS
  <2>1. worker.last \in DOMAIN log /\ worker.last > broker.base /\ x <= created'
    BY <1>1, <1>8, <1>11
  <2>. QED
    BY <1>4, <1>8, <2>1
<1>15. CASE worker.end
  <2>1. worker'.stage = "over" /\ (failure' \/ ended')
    BY <1>1, <1>4, <1>5, <1>15
  <2>. HIDE DEF X
  <2>. QED
    BY <1>1, <1>3, <1>10, <1>12, <1>13, <1>14, <1>15, <2>1, OverSound
<1>16. CASE ~worker.end
  <2>1. broker' = d /\ worker'.stage = "running" /\ Working'
    BY <1>5, <1>10, <1>16
  <2>2. /\ \A e \in Buffered : broker.seqOf[e] = 0 => \E k \in DOMAIN tail : tail[k] = e
        /\ ~broker.replay => \A k \in DOMAIN tail : tail[k] \in Buffered /\ broker.seqOf[tail[k]] = 0
        /\ \A k, l \in DOMAIN tail : k < l => tail[k] < tail[l]
    BY <1>4, Parts DEF OpenSound, TailSound
  <2>3. /\ Buffered' \subseteq Buffered \cup X
        /\ broker'.replay => Buffered' = {}
        /\ ~broker'.replay => ~broker.replay /\ Buffered' = Buffered \cup X
    BY <1>4, <1>9, <1>10, <2>1, Marked DEF Feeds, Buffered
  <2>4. /\ DOMAIN tail' = 1..(Len(tail) - n)
        /\ \A k \in 1..(Len(tail) - n) : k + n \in DOMAIN tail /\ k + n > n /\ tail'[k] = tail[k + n]
    <3>. DEFINE m == Len(tail)
    <3>1. tail' = SubSeq(tail, n + 1, m) /\ n <= m /\ m \in Nat
      BY <1>1, <1>4, <1>11 DEF n
    <3>2. n + 1 \in Int /\ m \in Int /\ \A i \in (n + 1)..m : tail[i] \in Nat
      BY <1>11, <3>1
    <3>3. /\ tail' \in Seq(Nat)
          /\ Len(tail') = IF n + 1 <= m THEN m - (n + 1) + 1 ELSE 0
          /\ \A i \in 1..(m - (n + 1) + 1) : tail'[i] = tail[(n + 1) + i - 1]
      BY <3>1, <3>2, SubSeqProperties
    <3>. HIDE DEF m
    <3>4. m - (n + 1) + 1 = m - n /\ (n + 1 > m => m - n = 0)
      BY <1>11, <3>1
    <3>5. Len(tail') = m - n
      BY <1>11, <3>1, <3>3, <3>4
    <3>6. ASSUME NEW k \in 1..(m - n)
          PROVE  k + n \in 1..m /\ k + n > n /\ tail'[k] = tail[k + n]
      <4>1. (n + 1) + k - 1 = k + n /\ k + n \in 1..m /\ k + n > n
        BY <1>11, <3>1
      <4>. QED
        BY <3>3, <3>4, <4>1
    <3>. QED
      BY <1>11, <3>3, <3>5, <3>6 DEF m
  <2>5. ASSUME NEW e \in 1..MaxEvents, broker'.seqOf[e] = 0 PROVE broker.seqOf[e] = 0
        <3>1. ~\E k \in 1..n : broker'.seqOf[e] = From + k
      <4>1. \A k \in 1..n : From + k # 0
        BY <1>4a
      <4>. QED
        BY <2>5, <4>1
    <3>2. x # 0 => worker.last # 0
      BY <1>8, <1>11
    <3>3. ~(x # 0 /\ broker'.seqOf[e] = worker.last)
      BY <2>5, <3>2
    <3>4. broker'.seqOf[e] = c.seqOf[e]
      BY <1>9, <2>1, <3>3, <2>5
    <3>. QED
      BY <2>5, <1>6, <3>1, <3>4
  <2>6. OpenSound'
    <3>1. ASSUME NEW e \in Buffered', broker'.seqOf[e] = 0 PROVE \E k \in DOMAIN tail' : tail'[k] = e
      <4>1. ~broker'.replay /\ ~broker.replay
        BY <2>3, <3>1
      <4>2. e # x \/ x = 0
        <5>. SUFFICES ASSUME x # 0, e = x PROVE FALSE
          OBVIOUS
        <5>1. d.seqOf[x] = worker.last /\ worker.last # 0
          BY <1>8, <1>9, <1>11, <2>1, <4>1
        <5>. QED
          BY <2>1, <3>1, <5>1
      <4>3. e \in Buffered /\ e \in 1..MaxEvents
        BY <2>3, <3>1, <4>2 DEF Buffered, EventsOf
      <4>4. broker.seqOf[e] = 0
        BY <2>5, <3>1, <4>3
      <4>5. PICK k \in DOMAIN tail : tail[k] = e
        BY <2>2, <4>3, <4>4
      <4>6. ~(k \in 1..n)
        <5>. SUFFICES ASSUME k \in 1..n PROVE FALSE
          OBVIOUS
        <5>1. c.seqOf[e] # 0
          BY <1>6, <4>1, <4>5
        <5>2. d.seqOf[e] = c.seqOf[e]
          BY <1>9, <4>2, <4>3
        <5>. QED
          BY <2>1, <3>1, <5>1, <5>2
      <4>7. k - n \in 1..(Len(tail) - n) /\ (k - n) + n = k
        BY <1>11, <4>6
      <4>8. k - n \in DOMAIN tail' /\ tail'[k - n] = e
        BY <2>4, <4>5, <4>7
      <4>. QED
        BY <4>8
    <3>2. ASSUME ~broker'.replay, NEW k \in DOMAIN tail'
          PROVE  tail'[k] \in Buffered' /\ broker'.seqOf[tail'[k]] = 0
      <4>. DEFINE e == tail[k + n]
      <4>1. k + n \in DOMAIN tail /\ k + n > n /\ tail'[k] = e
        BY <2>4
      <4>2. ~broker.replay /\ e \in Buffered /\ broker.seqOf[e] = 0 /\ Buffered' = Buffered \cup X
        BY <2>2, <2>3, <3>2, <4>1
      <4>3. x = 0
        <5>1. x # 0 => n = Len(tail)
          BY <1>4 DEF n, x
        <5>2. k \in 1..(Len(tail) - n)
          BY <2>4, <3>2
        <5>3. Len(tail) # n
          <6>1. \A a, b \in Nat : \A j \in 1..(a - b) : a # b
            OBVIOUS
          <6>. QED
            BY <1>11, <5>2, <6>1, Zenon
        <5>. QED
          BY <5>1, <5>3
      <4>4. e \in 1..MaxEvents
        BY <4>2 DEF Buffered, EventsOf
      <4>5. \A l \in 1..n : e # tail[l]
        <5>. TAKE l \in 1..n
        <5>1. l \in DOMAIN tail /\ l < k + n
          BY <1>4, <1>11, <4>1 DEF n
        <5>2. tail[l] < e /\ tail[l] \in Nat
          BY SMTT(30), <1>11, <2>2, <4>1, <5>1
        <5>. QED
          BY <1>11, <4>1, <5>2
      <4>. HIDE DEF e
      <4>6. d.seqOf[e] = c.seqOf[e] /\ c.seqOf[e] = broker.seqOf[e]
        BY <1>6, <1>9, <4>3, <4>4, <4>5
      <4>. QED
        BY <2>1, <4>1, <4>2, <4>6
    <3>. QED
      BY <3>1, <3>2 DEF OpenSound
  <2>7. CompletionSound'
    <3>1. broker.sub.queue = <<Discard>> => broker'.sub.queue = <<Discard>>
      BY <1>10, MarkerReplays DEF Feeds
    <3>2. broker'.sub.open = broker.sub.open /\ broker'.sub.completed = broker.sub.completed
          /\ broker'.completed = broker.completed /\ broker'.base # -1
      BY <1>4, <1>9, <2>1
    <3>. QED
      BY <1>1, <1>4, <2>1, <3>1, <3>2, Parts DEF CompletionSound
  <2>8. Working' => Working /\ broker'.base # -1
    BY <1>4, <1>9, <2>1
  <2>9. Working' /\ Pure => Top' <= Top \/ Top' \in X
    <3>1. Top' = created
      BY <1>1, <1>5 DEF Top
    <3>2. CASE x = 0
      <4>1. Top = created
        BY <1>4, <1>11, <3>2 DEF Top, Own, x
      <4>. QED
        BY <1>11, <3>1, <4>1
    <3>3. CASE x # 0
      BY <1>8, <3>1, <3>3
    <3>. QED
      BY <3>2, <3>3
  <2>. HIDE DEF X
  <2>. QED
    BY <1>1, <1>3, <1>5, <1>10, <1>12, <1>13, <1>14, <2>6, <2>7, <2>8, <2>9, FedSound
<1>. QED
  BY <1>15, <1>16

\* promote_pending_execution and the checkpoints are commits.
LEMMA CommitKeeps ==
    ASSUME Limits, StreamInv, Promote \/ \E end \in BOOLEAN : Checkpoint(end)
    PROVE  StreamInv'
<1>1. /\ SourceTypes' /\ SourceSound' /\ LogGrows
      /\ \E count \in 0..Len(tail), extra \in 0..1 :
            Lands(count, extra) /\ (extra = 1 => Len(tail) <= count)
  <2>1. CASE Promote
    BY <2>1, Parts, PromoteSound
  <2>2. CASE \E end \in BOOLEAN : Checkpoint(end)
    BY <2>2, Parts, CheckpointSound
  <2>. QED
    BY <2>1, <2>2
<1>2. UNCHANGED <<broker, reader>>
  BY DEF Promote, Checkpoint, Land
<1>3. PICK count \in 0..Len(tail), extra \in 0..1 :
            Lands(count, extra) /\ (extra = 1 => Len(tail) <= count)
  BY <1>1
<1>. QED
  BY <1>1, <1>2, <1>3, LandKeeps, Zenon

-----------------------------------------------------------------------------
(* The steps of the reader. *)

\* They leave the source alone.
LEMMA SourceStays ==
    ASSUME StreamInv, UNCHANGED producerVars
    PROVE  /\ SourceTypes' /\ SourceSound'
           /\ log' = log /\ ended' = ended /\ created' = created /\ worker' = worker
           /\ tail' = tail /\ failure' = failure
           /\ (Pure' <=> Pure)
           /\ \A e, i : IsHere(e, i)' <=> IsHere(e, i)
<1>1. /\ log' = log /\ ended' = ended /\ created' = created /\ worker' = worker
      /\ tail' = tail /\ failure' = failure
  BY DEF producerVars, sourceVars
<1>2. SourceTypes'
  BY <1>1, Parts DEF SourceTypes
<1>3. SourceSound'
  BY <1>1, Parts DEF SourceSound, LogSound, TailSound, CommitSound, Counted, Pure, Later, IsHere, Own,
                     From, Landed, Working, Committed, EndSound
<1>. QED
  BY <1>1, <1>2, <1>3 DEF Pure, IsHere

\* The whole invariant from its parts.
LEMMA ReaderStep ==
    ASSUME StreamInv, UNCHANGED producerVars, broker' \in Brokers, reader' \in Readers,
           BrokerSound', ReaderInv'
    PROVE  StreamInv'
<1>1. SourceTypes' /\ SourceSound'
  BY SourceStays
<1>. QED
  BY <1>1 DEF StreamInv, Types, SourceTypes

\* The broker b has what it had, but perhaps for the queue of the subscription.
Same(b) ==
    /\ b \in Brokers /\ b.base = broker.base /\ b.buffer = broker.buffer
    /\ b.seqOf = broker.seqOf /\ b.replay = broker.replay /\ b.completed = broker.completed

\* Without a subscription there is nothing to follow.
LEMMA Closing ==
    ASSUME Limits, StreamInv, UNCHANGED producerVars, broker' \in Brokers, BrokerSound',
           ~broker'.sub.open, ~broker'.sub.replay, broker'.sub.queue = <<>>,
           reader' \in Readers, reader'.phase \notin {"prefix", "live", "held"},
           ReaderSound', PureSeen', DeliverySound'
    PROVE  StreamInv'
<1>1. QueueSound'
  BY DEF QueueSound, Limits
<1>2. FollowSound' /\ PureFollow'
  BY DEF FollowSound, PureFollow, Following
<1>. QED
  BY <1>1, <1>2, ReaderStep DEF ReaderInv

\* Leaving the broker leaves it sound.
LEMMA CloseKeeps ==
    ASSUME Limits, StreamInv, UNCHANGED producerVars, NEW b, Same(b), broker' = Close(b),
           reader' \in Readers, reader'.phase \notin {"prefix", "live", "held"},
           ReaderSound', PureSeen', DeliverySound'
    PROVE  StreamInv'
<1>. USE DEF Same
<1>1. /\ log' = log /\ ended' = ended /\ created' = created /\ worker' = worker
      /\ tail' = tail /\ failure' = failure
  BY SourceStays
<1>2. /\ broker' \in Brokers /\ broker'.seqOf = broker.seqOf
      /\ ~broker'.sub.open /\ broker'.sub.queue = <<>>
      /\ ~broker'.sub.replay /\ ~broker'.sub.completed
      /\ \/ /\ ~broker.completed /\ broker'.base = broker.base /\ broker'.buffer = broker.buffer
            /\ broker'.replay = broker.replay /\ ~broker'.completed
         \/ /\ broker.completed /\ broker'.base = -1 /\ broker'.buffer = <<>>
            /\ ~broker'.replay /\ ~broker'.completed
  BY CloseFields
<1>3. Numbered'
  BY <1>1, <1>2, Parts DEF Numbered, IsHere
<1>4. /\ Len(<<>>) <= QueueLimit /\ DOMAIN <<>> = {} /\ EventsOf(<<>>) = {} /\ Increasing(<<>>)
  BY Marked DEF Limits
<1>5. ASSUME ~broker.completed, broker'.base = broker.base, broker'.buffer = broker.buffer,
             broker'.replay = broker.replay, ~broker'.completed
      PROVE  BrokerSound'
  <2>1. Buffered' = Buffered
    BY <1>5 DEF Buffered
  <2>2. BufferSound'
    BY <1>1, <1>5, <2>1, Parts DEF BufferSound, IsHere, Later, Committed, From, Own
  <2>3. OpenSound'
    BY <1>1, <1>2, <1>5, <2>1, Parts DEF OpenSound, Working
  <2>4. PureBuffer'
    BY <1>1, <1>5, <2>1, Parts DEF PureBuffer, Pure, Working, Top, Own, Committed
  <2>5. CompletionSound'
    BY <1>1, <1>2, <1>5, Parts DEF CompletionSound, Working
  <2>. QED
    BY <1>3, <2>2, <2>3, <2>4, <2>5 DEF BrokerSound
<1>6. ASSUME broker.completed, broker'.base = -1, broker'.buffer = <<>>,
             ~broker'.replay, ~broker'.completed
      PROVE  BrokerSound'
  <2>1. Buffered' = {}
    BY <1>4, <1>6 DEF Buffered
  <2>2. worker.stage \in {"over", "left"}
    BY <1>6, Parts DEF CompletionSound
  <2>3. -1 <= -1 /\ -1 <= Len(log)
    BY Parts DEF SourceTypes
  <2>4. BufferSound'
    BY <1>1, <1>4, <1>6, <2>1, <2>2, <2>3 DEF BufferSound, Committed
  <2>5. OpenSound' /\ PureBuffer'
    BY <1>1, <2>1, <2>2 DEF OpenSound, PureBuffer, Working
  <2>6. CompletionSound'
    BY <1>1, <1>2, <1>6, <2>2, Parts DEF CompletionSound, Working
  <2>. QED
    BY <1>3, <2>4, <2>5, <2>6 DEF BrokerSound
<1>7. BrokerSound'
  BY <1>2, <1>5, <1>6
<1>. QED
  BY <1>2, <1>7, Closing

\* Steps without the broker.
LEMMA QuietKeeps ==
    ASSUME Limits, StreamInv, UNCHANGED producerVars, broker' = broker, reader' \in Readers,
           reader.phase \notin {"prefix", "live", "held"},
           reader'.phase \notin {"prefix", "live", "held"},
           ReaderSound', PureSeen', DeliverySound'
    PROVE  StreamInv'
<1>1. /\ log' = log /\ ended' = ended /\ created' = created /\ worker' = worker
      /\ tail' = tail /\ failure' = failure
  BY SourceStays
<1>2. BrokerSound'
  BY <1>1, Parts DEF BrokerSound, Numbered, BufferSound, OpenSound, PureBuffer, CompletionSound,
     Buffered, IsHere, Later, Committed, Working, From, Own, Top, Pure
<1>3. broker' \in Brokers /\ ~broker'.sub.open
  BY Parts DEF QueueSound
<1>4. QueueSound'
  BY <1>1, Parts DEF QueueSound
<1>5. FollowSound' /\ PureFollow'
  BY <1>3 DEF FollowSound, PureFollow, Following
<1>. QED
  BY <1>2, <1>3, <1>4, <1>5, ReaderStep DEF ReaderInv

\* The broker b has the rest of the queue.
Rest(b) ==
    /\ Same(b)
    /\ b.sub.open = broker.sub.open /\ b.sub.replay = broker.sub.replay
    /\ b.sub.completed = broker.sub.completed
    /\ Len(b.sub.queue) <= QueueLimit
    /\ b.sub.replay => b.sub.queue = broker.sub.queue
    /\ ~b.sub.replay => \A i \in DOMAIN b.sub.queue : b.sub.queue[i] \in 0..created

\* Reading on leaves the broker sound.
LEMMA RestKeeps ==
    ASSUME Limits, StreamInv, UNCHANGED producerVars, Rest(broker'), reader' \in Readers,
           reader.phase \in {"prefix", "live", "held"},
           reader'.phase \in {"prefix", "live", "held"},
           ReaderSound', FollowSound', PureFollow', PureSeen', DeliverySound'
    PROVE  StreamInv'
<1>. USE DEF Rest, Same
<1>1. /\ log' = log /\ ended' = ended /\ created' = created /\ worker' = worker
      /\ tail' = tail /\ failure' = failure
  BY SourceStays
<1>2. /\ broker' \in Brokers /\ broker'.base = broker.base /\ broker'.buffer = broker.buffer
      /\ broker'.seqOf = broker.seqOf /\ broker'.replay = broker.replay
      /\ broker'.completed = broker.completed
      /\ broker'.sub.open = broker.sub.open /\ broker'.sub.completed = broker.sub.completed
      /\ Buffered' = Buffered
  BY DEF Buffered
<1>3. broker.sub.queue = <<Discard>> => broker'.sub.queue = <<Discard>>
  BY MarkerReplays
<1>4. Numbered' /\ BufferSound' /\ OpenSound' /\ PureBuffer'
  BY <1>1, <1>2, Parts DEF Numbered, BufferSound, OpenSound, PureBuffer,
     IsHere, Later, Committed, Working, From, Own, Top, Pure
<1>5. CompletionSound'
  BY <1>1, <1>2, <1>3, Parts DEF CompletionSound, Working
<1>6. QueueSound'
  BY <1>1, <1>2, Parts DEF QueueSound
<1>. QED
  BY <1>2, <1>4, <1>5, <1>6, ReaderStep DEF ReaderInv, BrokerSound

\* With one writer there are at least as many events as the log has.
LEMMA LogCounted ==
    ASSUME StreamInv
    PROVE  /\ Len(log) \in Nat /\ created \in Nat /\ DOMAIN log = 1..Len(log)
           /\ reader.cursor \in Nat /\ reader.cursor <= Len(log) /\ reader.provisional \in Nat
           /\ reader.skip \in Nat /\ reader.start \in Nat /\ reader.acked \in Nat
           /\ reader.acked <= reader.cursor /\ reader.after \in Nat
           /\ Pure => Len(log) <= created /\ (\A i \in DOMAIN log : log[i].id = i)
                      /\ (ended => created <= Len(log))
<1>1. /\ Len(log) \in Nat /\ created \in Nat /\ DOMAIN log = 1..Len(log)
      /\ reader.cursor \in Nat /\ reader.cursor <= Len(log) /\ reader.provisional \in Nat
      /\ reader.skip \in Nat /\ reader.start \in Nat /\ reader.acked \in Nat
      /\ reader.acked <= reader.cursor /\ reader.after \in Nat
  BY Parts DEF SourceTypes, Readers, ReaderSound
<1>2. ASSUME Pure
      PROVE  Len(log) <= created /\ (\A i \in DOMAIN log : log[i].id = i) /\ (ended => created <= Len(log))
  <2>1. (\A i \in DOMAIN log : log[i].id = i) /\ (ended => created = Len(log))
    BY <1>2, Parts DEF Counted
  <2>2. \A i \in DOMAIN log : log[i].id <= created
    BY <1>1, Parts DEF LogSound
  <2>3. Len(log) <= created
    <3>1. CASE Len(log) = 0
      BY <1>1, <3>1
    <3>2. CASE Len(log) \in 1..Len(log)
      BY <1>1, <2>1, <2>2, <3>2
    <3>. QED
      BY <1>1, <3>1, <3>2
  <2>4. ended => created <= Len(log)
    BY <1>1, <2>1
  <2>. QED
    BY <2>1, <2>3, <2>4
<1>. QED
  BY <1>1, <1>2

\* A stream that subscribes has all of the buffer before it.
LEMMA AttachKeeps ==
    ASSUME Limits, StreamInv, UNCHANGED producerVars, NEW r \in Readers, Attach(r),
           broker.base # -1, reader.phase \notin {"prefix", "live", "held"},
           r.acked <= r.cursor, r.cursor <= Len(log),
           Miscounted' \/ \A i \in (r.start + 1)..r.cursor : log[i].id \in r.delivered
    PROVE  StreamInv'
<1>1. /\ log' = log /\ ended' = ended /\ created' = created /\ worker' = worker
      /\ tail' = tail /\ failure' = failure /\ (Pure' <=> Pure)
  BY SourceStays
<1>2. /\ broker' = Subscribe(broker)
      /\ reader' = [r EXCEPT !.phase = "prefix", !.after = r.cursor, !.base = broker.base,
                             !.provisional = 0]
  BY DEF Attach
<1>3. broker.base \in Int /\ -1 <= broker.base /\ broker.base <= Len(log) /\ Len(log) \in Nat
  BY Parts, LogCounted DEF Brokers, BufferSound
<1>4. /\ reader' \in Readers /\ reader'.phase = "prefix" /\ reader'.after = r.cursor
      /\ reader'.base = broker.base /\ reader'.provisional = 0 /\ reader'.cursor = r.cursor
      /\ reader'.acked = r.acked /\ reader'.start = r.start /\ reader'.delivered = r.delivered
      /\ r.cursor \in Nat
  BY <1>2, <1>3 DEF Readers, Phases
<1>5. /\ broker' \in Brokers
      /\ broker'.base = broker.base /\ broker'.buffer = broker.buffer
      /\ broker'.replay = broker.replay /\ broker'.completed = broker.completed
      /\ broker'.seqOf = broker.seqOf
      /\ broker'.sub.open
      /\ broker'.sub.queue = (IF broker.replay THEN <<Replay>> ELSE broker.buffer)
      /\ broker'.sub.replay = broker.replay /\ broker'.sub.completed = broker.completed
      /\ Buffered' = Buffered
  BY <1>2, Parts, SubscribeFields DEF Buffered
<1>6. Numbered' /\ BufferSound' /\ OpenSound' /\ PureBuffer'
  BY <1>1, <1>5, Parts DEF Numbered, BufferSound, OpenSound, PureBuffer,
     IsHere, Later, Committed, Working, From, Own, Top, Pure
<1>7. CompletionSound'
  BY <1>1, <1>5, Parts DEF CompletionSound, Working
<1>8. QueueSound'
  <2>1. CASE broker.replay
    BY <1>4, <1>5, <2>1, Marked DEF QueueSound, Limits
  <2>2. CASE ~broker.replay
    BY <1>1, <1>4, <1>5, <2>2, Parts DEF QueueSound, BufferSound
  <2>. QED
    BY <2>1, <2>2
<1>9. ReaderSound'
  <2>1. broker.base \in 0..Len(log)
    BY <1>3
  <2>. QED
    BY <1>1, <1>4, <2>1 DEF ReaderSound
<1>10. FollowSound' /\ PureFollow'
  <2>1. Following' => Queued' = Buffered' /\ Read' = {}
    BY <1>5 DEF Following, Queued, Buffered, Read
  <2>. QED
    BY <1>4, <1>5, <2>1, Parts DEF FollowSound, PureFollow, Following, BufferSound
<1>11. PureSeen'
  <2>1. Pure => r.cursor <= created
    BY <1>3, <1>4, LogCounted
  <2>2. Stand' = r.cursor /\ (r.cursor + 1)..r.cursor = {}
    BY <1>4 DEF Stand
  <2>. QED
    BY <1>1, <1>4, <2>1, <2>2 DEF PureSeen
<1>12. DeliverySound'
  BY <1>1, <1>4 DEF DeliverySound
<1>. QED
  BY <1>4, <1>5, <1>6, <1>7, <1>8, <1>9, <1>10, <1>11, <1>12, ReaderStep DEF BrokerSound, ReaderInv

\* A new stream starts at or before what the consumer has got.
LEMMA ConnectKeeps ==
    ASSUME Limits, StreamInv, NEW after \in 0..MaxEvents, Connect(after)
    PROVE  StreamInv'
<1>. DEFINE r == [reader EXCEPT !.phase = "durable", !.connections = @ + 1,
                            !.start = IF reader.connections = 0 THEN after ELSE @,
                            !.cursor = after, !.acked = after, !.skip = 0, !.late = TRUE]
<1>1. /\ reader.phase = "idle" /\ UNCHANGED producerVars
      /\ after \in IF reader.connections = 0 THEN 0..Len(log) ELSE {reader.acked}
      /\ IF broker.base # -1 THEN Attach(r) ELSE reader' = r /\ UNCHANGED broker
  BY DEF Connect
<1>2. after \in Nat /\ after <= Len(log) /\ reader \in Readers
  BY <1>1, LogCounted, Parts
<1>3. /\ r \in Readers /\ r.phase = "durable" /\ r.cursor = after /\ r.acked = after /\ r.skip = 0
      /\ r.start = (IF reader.connections = 0 THEN after ELSE reader.start)
      /\ r.delivered = reader.delivered /\ r.counted = reader.counted
  <2>. DEFINE s == IF reader.connections = 0 THEN after ELSE reader.start
              k == reader.connections + 1
  <2>1. s \in Nat /\ k \in Nat /\ "durable" \in Phases /\ 0 \in Nat
    BY <1>2 DEF Readers, Phases
  <2>2. r = [reader EXCEPT !.phase = "durable", !.connections = k, !.start = s,
                           !.cursor = after, !.acked = after, !.skip = 0, !.late = TRUE]
    BY <1>2 DEF Readers
  <2>. HIDE DEF s, k, r
  <2>3. r \in Readers
    BY <1>2, <2>1, <2>2 DEF Readers
  <2>4. /\ r.phase = "durable" /\ r.cursor = after /\ r.acked = after /\ r.skip = 0
        /\ r.start = s /\ r.delivered = reader.delivered /\ r.counted = reader.counted
    BY <1>2, <2>2 DEF Readers
  <2>. QED
    BY <2>3, <2>4 DEF s
<1>. HIDE DEF r
<1>4. Miscounted \/ \A i \in (r.start + 1)..after : log[i].id \in reader.delivered
  <2>1. CASE reader.connections = 0
    BY <1>2, <1>3, <2>1
  <2>2. CASE reader.connections # 0
    <3>1. after <= reader.cursor /\ after \in Nat
      BY <1>1, <1>2, <2>2, LogCounted
    <3>2. (reader.start + 1)..after \subseteq (reader.start + 1)..reader.cursor
      BY <3>1, LogCounted
    <3>. QED
      BY <1>3, <2>2, <3>2, Parts DEF DeliverySound
  <2>. QED
    BY <2>1, <2>2
<1>5. CASE broker.base # -1
  <2>1. Attach(r)
    BY <1>1, <1>5
  <2>2. reader'.counted = reader.counted
    BY <1>3, <2>1 DEF Attach, Readers
  <2>3. Miscounted' <=> Miscounted
    BY <1>1, <2>2, SourceStays DEF Miscounted
  <2>4. after <= after
    BY <1>2
  <2>. QED
    BY <1>1, <1>2, <1>3, <1>4, <1>5, <2>1, <2>3, <2>4, AttachKeeps
<1>6. CASE broker.base = -1
  <2>1. reader' = r /\ broker' = broker
    BY <1>1, <1>6
  <2>2. log' = log /\ created' = created /\ (Pure' <=> Pure) /\ ended' = ended /\ failure' = failure
    BY <1>1, SourceStays
  <2>3. ReaderSound'
    BY <1>2, <1>3, <2>1, <2>2 DEF ReaderSound
  <2>4. PureSeen'
    <3>1. Pure => after <= created
      BY <1>2, LogCounted
    <3>2. (after + 1)..(after + 0) = {} /\ after + 0 = after
      BY <1>2
    <3>. QED
      BY <1>3, <2>1, <2>2, <3>1, <3>2 DEF PureSeen
  <2>5. DeliverySound'
    BY <1>3, <1>4, <2>1, <2>2 DEF DeliverySound, Miscounted
  <2>. QED
    BY <1>1, <1>3, <2>1, <2>3, <2>4, <2>5, QuietKeeps
<1>. QED
  BY <1>5, <1>6

\* The consumer goes away.
LEMMA DisconnectKeeps ==
    ASSUME Limits, StreamInv, Disconnect
    PROVE  StreamInv'
<1>1. /\ UNCHANGED producerVars /\ broker' = Close(broker)
      /\ reader' = [reader EXCEPT !.held = 0, !.phase = "idle"]
  BY DEF Disconnect, Stop
<1>2. /\ reader' \in Readers /\ reader'.phase = "idle"
      /\ reader'.acked = reader.acked /\ reader'.cursor = reader.cursor
      /\ reader'.start = reader.start /\ reader'.delivered = reader.delivered
      /\ reader'.counted = reader.counted
  BY <1>1, Parts DEF Readers, Phases
<1>3. log' = log
  BY <1>1, SourceStays
<1>4. ReaderSound' /\ PureSeen'
  BY <1>2, <1>3, LogCounted DEF ReaderSound, PureSeen
<1>5. DeliverySound'
  BY <1>2, <1>3, Parts DEF DeliverySound, Miscounted
<1>6. Same(broker)
  BY Parts DEF Same
<1>. QED
  BY <1>1, <1>2, <1>4, <1>5, <1>6, CloseKeeps

\* A stream that has read its queue when the producer has completed.
LEMMA LiveEndsKeeps ==
    ASSUME Limits, StreamInv, LiveEnds
    PROVE  StreamInv'
<1>1. /\ UNCHANGED producerVars /\ broker' = Close(broker)
      /\ reader' = [reader EXCEPT !.phase = "settling"]
      /\ reader.phase = "live" /\ broker.sub.queue = <<>> /\ broker.sub.completed
  BY DEF LiveEnds, Stop
<1>2. /\ reader' \in Readers /\ reader'.phase = "settling"
      /\ reader'.acked = reader.acked /\ reader'.cursor = reader.cursor
      /\ reader'.start = reader.start /\ reader'.delivered = reader.delivered
      /\ reader'.counted = reader.counted /\ reader'.provisional = reader.provisional
  BY <1>1, Parts DEF Readers, Phases
<1>3. worker' = worker /\ log' = log /\ failure' = failure /\ ended' = ended /\ created' = created /\ (Pure' <=> Pure)
  BY <1>1, SourceStays
<1>4. failure \/ ended \/ worker.stage = "left"
  <2>1. <<>> # <<Discard>>
    OBVIOUS
  <2>. QED
    BY <1>1, <2>1, Parts DEF CompletionSound
<1>5. ReaderSound'
  BY <1>2, <1>3, <1>4, LogCounted DEF ReaderSound
<1>6. PureSeen'
  BY <1>1, <1>2, <1>3, Parts DEF PureSeen, Stand
<1>7. DeliverySound'
  BY <1>2, <1>3, Parts DEF DeliverySound, Miscounted
<1>8. Same(broker)
  BY Parts DEF Same
<1>. QED
  BY <1>1, <1>2, <1>5, <1>6, <1>7, <1>8, CloseKeeps

\* The end of a producer is on record as a failure or as the end of the log, or
\* it has left the execution unfinished.
LEMMA SettleKeeps ==
    ASSUME Limits, StreamInv, Settle
    PROVE  StreamInv'
<1>1. /\ UNCHANGED producerVars /\ broker' = broker /\ reader.phase = "settling"
      /\ failure \/ ended \/ worker.stage = "left"
  BY Parts DEF Settle, ReaderSound
<1>2. worker' = worker /\ log' = log /\ failure' = failure /\ ended' = ended /\ created' = created /\ (Pure' <=> Pure)
  BY <1>1, SourceStays
<1>3. \/ reader' = [reader EXCEPT !.phase = "failed"]
      \/ worker.stage = "left" /\ reader' = [reader EXCEPT !.phase = "unfinished"]
      \/ /\ ended /\ reader.cursor >= Len(log) /\ reader' = [reader EXCEPT !.phase = "done"]
      \/ reader' = [reader EXCEPT !.phase = "durable", !.late = FALSE,
                                  !.skip = reader.provisional,
                                  !.counted = @ \/ reader.provisional > 0]
  BY <1>1 DEF Settle
<1>4. CASE reader' = [reader EXCEPT !.phase = "failed"]
  <2>1. /\ reader' \in Readers /\ reader'.phase = "failed"
        /\ reader'.acked = reader.acked /\ reader'.cursor = reader.cursor
        /\ reader'.start = reader.start /\ reader'.delivered = reader.delivered
        /\ reader'.counted = reader.counted
    BY <1>4, Parts DEF Readers, Phases
  <2>2. ReaderSound' /\ PureSeen'
    BY <1>2, <2>1, LogCounted DEF ReaderSound, PureSeen
  <2>3. DeliverySound'
    BY <1>2, <2>1, Parts DEF DeliverySound, Miscounted
  <2>. QED
    BY <1>1, <2>1, <2>2, <2>3, QuietKeeps
<1>5. CASE ended /\ reader.cursor >= Len(log) /\ reader' = [reader EXCEPT !.phase = "done"]
  <2>1. /\ reader' \in Readers /\ reader'.phase = "done"
        /\ reader'.acked = reader.acked /\ reader'.cursor = reader.cursor
        /\ reader'.start = reader.start /\ reader'.delivered = reader.delivered
        /\ reader'.counted = reader.counted
    BY <1>5, Parts DEF Readers, Phases
  <2>2. reader.cursor = Len(log)
    BY <1>5, LogCounted
  <2>3. ReaderSound' /\ PureSeen'
    BY <1>2, <1>5, <2>1, <2>2, LogCounted DEF ReaderSound, PureSeen
  <2>4. DeliverySound'
    BY <1>2, <2>1, Parts DEF DeliverySound, Miscounted
  <2>. QED
    BY <1>1, <2>1, <2>3, <2>4, QuietKeeps
<1>6. CASE reader' = [reader EXCEPT !.phase = "durable", !.late = FALSE,
                                    !.skip = reader.provisional,
                                    !.counted = @ \/ reader.provisional > 0]
  <2>1. /\ reader' \in Readers /\ reader'.phase = "durable" /\ ~reader'.late
        /\ reader'.acked = reader.acked /\ reader'.cursor = reader.cursor
        /\ reader'.start = reader.start /\ reader'.delivered = reader.delivered
        /\ reader'.skip = reader.provisional
        /\ reader'.counted = (reader.counted \/ reader.provisional > 0)
    BY <1>6, Parts DEF Readers, Phases
  <2>2. ReaderSound'
    BY <1>2, <2>1, LogCounted DEF ReaderSound
  <2>3. PureSeen'
    BY <1>1, <1>2, <2>1, Parts DEF PureSeen, Stand
  <2>4. DeliverySound'
    BY <1>2, <2>1, Parts DEF DeliverySound, Miscounted
  <2>. QED
    BY <1>1, <2>1, <2>2, <2>3, <2>4, QuietKeeps
<1>7. CASE worker.stage = "left" /\ reader' = [reader EXCEPT !.phase = "unfinished"]
  <2>1. /\ reader' \in Readers /\ reader'.phase = "unfinished"
        /\ reader'.acked = reader.acked /\ reader'.cursor = reader.cursor
        /\ reader'.start = reader.start /\ reader'.delivered = reader.delivered
        /\ reader'.counted = reader.counted
    BY <1>7, Parts DEF Readers, Phases
  <2>2. ReaderSound' /\ PureSeen'
    BY <1>2, <1>7, <2>1, LogCounted DEF ReaderSound, PureSeen
  <2>3. DeliverySound'
    BY <1>2, <2>1, Parts DEF DeliverySound, Miscounted
  <2>. QED
    BY <1>1, <2>1, <2>2, <2>3, QuietKeeps
<1>. QED
  BY <1>3, <1>4, <1>5, <1>6, <1>7

\* What is delivered up to a later position is delivered up to an earlier one.
LEMMA DeliverFields ==
    ASSUME NEW r \in Readers, NEW i \in Nat, NEW j \in Nat,
           log \in Seq([by : {"here", "there"}, id : Nat]), j <= Len(log), i >= 1
    PROVE  /\ Deliver(r, i, j) \in Readers
           /\ Deliver(r, i, j).phase = r.phase /\ Deliver(r, i, j).start = r.start
           /\ Deliver(r, i, j).cursor = j /\ Deliver(r, i, j).acked = j
           /\ Deliver(r, i, j).skip = r.skip /\ Deliver(r, i, j).late = r.late
           /\ Deliver(r, i, j).counted = r.counted /\ Deliver(r, i, j).after = r.after
           /\ Deliver(r, i, j).base = r.base /\ Deliver(r, i, j).aligning = r.aligning
           /\ Deliver(r, i, j).provisional = r.provisional /\ Deliver(r, i, j).held = r.held
           /\ r.delivered \subseteq Deliver(r, i, j).delivered
           /\ \A k \in i..j : log[k].id \in Deliver(r, i, j).delivered
<1>. DEFINE D == r.delivered \cup {log[k].id : k \in i..j}
<1>1. D \in SUBSET Nat
  <2>1. \A k \in i..j : k \in DOMAIN log
    OBVIOUS
  <2>2. \A k \in DOMAIN log : log[k] \in [by : {"here", "there"}, id : Nat]
    <3>1. DOMAIN log = 1..Len(log)
      OBVIOUS
    <3>. QED
      BY <3>1, ElementOfSeq
  <2>3. \A k \in DOMAIN log : log[k].id \in Nat
    BY <2>2
  <2>4. {log[k].id : k \in i..j} \subseteq Nat
    BY <2>1, <2>3
  <2>5. r.delivered \subseteq Nat
    BY DEF Readers
  <2>. QED
    BY <2>4, <2>5
<1>2. Deliver(r, i, j) = [r EXCEPT !.delivered = D, !.acked = j, !.cursor = j]
  BY DEF Deliver, Readers
<1>3. r.delivered \subseteq D /\ \A k \in i..j : log[k].id \in D
  OBVIOUS
<1>. HIDE DEF D
<1>. QED
  BY <1>1, <1>2, <1>3 DEF Readers

\* The durable events before the producer.
LEMMA PrefixKeeps ==
    ASSUME Limits, StreamInv, Prefix
    PROVE  StreamInv'
<1>. DEFINE r == IF reader.cursor < reader.base
                 THEN Deliver(reader, reader.cursor + 1, reader.base) ELSE reader
<1>1. /\ reader.phase = "prefix" /\ UNCHANGED producerVars /\ broker' = broker
      /\ reader' = [r EXCEPT !.phase = "live", !.aligning = reader.after > reader.base]
  BY DEF Prefix
<1>2. log' = log /\ failure' = failure /\ ended' = ended /\ created' = created /\ (Pure' <=> Pure)
      /\ \A e, i : IsHere(e, i)' <=> IsHere(e, i)
  BY <1>1, SourceStays
<1>3. /\ reader \in Readers /\ reader.base \in 0..Len(log) /\ reader.base \in Nat
      /\ reader.cursor = reader.after /\ reader.provisional = 0 /\ reader.acked <= reader.cursor
      /\ reader.cursor \in Nat /\ reader.cursor <= Len(log) /\ Len(log) \in Nat
      /\ log \in Seq([by : {"here", "there"}, id : Nat]) /\ reader.after \in Nat
      /\ reader.acked \in Nat /\ reader.start \in Nat
  BY <1>1, Parts, LogCounted DEF ReaderSound, SourceTypes
<1>4. /\ r \in Readers /\ r.start = reader.start /\ r.provisional = 0 /\ r.after = reader.after
      /\ r.base = reader.base /\ r.counted = reader.counted
      /\ r.cursor \in {reader.cursor, reader.base}
      /\ reader.cursor <= r.cursor /\ reader.base <= r.cursor /\ r.acked <= r.cursor
      /\ reader.after <= reader.base => r.cursor = reader.base
      /\ reader.after > reader.base => r.cursor = reader.after
      /\ reader.delivered \subseteq r.delivered
      /\ \A k \in (reader.cursor + 1)..r.cursor : log[k].id \in r.delivered
  <2>1. CASE reader.cursor < reader.base
    <3>1. r = Deliver(reader, reader.cursor + 1, reader.base)
      BY <2>1
    <3>2. reader.cursor + 1 \in Nat /\ reader.cursor + 1 >= 1 /\ reader.base <= Len(log)
      BY <1>3
    <3>. DEFINE i == reader.cursor + 1
                j == reader.base
                d == Deliver(reader, i, j)
    <3>3. /\ reader \in Readers /\ i \in Nat /\ j \in Nat /\ j <= Len(log) /\ i >= 1
          /\ log \in Seq([by : {"here", "there"}, id : Nat])
      BY <1>3, <3>2
    <3>. HIDE DEF r, i, j
    <3>4. /\ d \in Readers /\ d.start = reader.start /\ d.provisional = reader.provisional
          /\ d.after = reader.after /\ d.base = reader.base /\ d.counted = reader.counted
          /\ d.cursor = j /\ d.acked = j
          /\ reader.delivered \subseteq d.delivered
          /\ \A k \in i..j : log[k].id \in d.delivered
      BY <3>3, DeliverFields, Zenon
    <3>5. r = d
      BY <3>1 DEF i, j
    <3>. HIDE DEF d
    <3>6. /\ r \in Readers /\ r.start = reader.start /\ r.provisional = 0 /\ r.after = reader.after
          /\ r.base = reader.base /\ r.counted = reader.counted
          /\ r.cursor = reader.base /\ r.acked = reader.base
          /\ reader.delivered \subseteq r.delivered
          /\ \A k \in (reader.cursor + 1)..reader.base : log[k].id \in r.delivered
      BY <1>3, <3>4, <3>5 DEF i, j
    <3>. QED
      BY <1>3, <2>1, <3>6
  <2>2. CASE ~(reader.cursor < reader.base)
    <3>1. r = reader
      BY <2>2
    <3>2. (reader.cursor + 1)..reader.cursor = {}
      BY <1>3
    <3>. HIDE DEF r
    <3>. QED
      BY <1>3, <2>2, <3>1, <3>2
  <2>. QED
    BY <2>1, <2>2
<1>. HIDE DEF r
<1>5. /\ reader' \in Readers /\ reader'.phase = "live"
      /\ reader'.aligning = (reader.after > reader.base)
      /\ reader'.start = reader.start /\ reader'.provisional = 0 /\ reader'.after = reader.after
      /\ reader'.base = reader.base /\ reader'.counted = reader.counted
      /\ reader'.cursor = r.cursor /\ reader'.acked = r.acked /\ reader'.delivered = r.delivered
  <2>. DEFINE g == reader.after > reader.base
  <2>1. g \in BOOLEAN /\ "live" \in Phases
    BY DEF Phases
  <2>2. reader' = [r EXCEPT !.phase = "live", !.aligning = g] /\ r \in Readers
    BY <1>1, <1>4
  <2>. HIDE DEF g
  <2>3. reader' \in Readers
    BY <2>1, <2>2 DEF Readers
  <2>4. /\ reader'.phase = "live" /\ reader'.aligning = g
        /\ reader'.start = r.start /\ reader'.provisional = r.provisional /\ reader'.after = r.after
        /\ reader'.base = r.base /\ reader'.counted = r.counted
        /\ reader'.cursor = r.cursor /\ reader'.acked = r.acked /\ reader'.delivered = r.delivered
    BY <2>2 DEF Readers
  <2>. QED
    BY <1>4, <2>3, <2>4 DEF g
<1>6. r.cursor \in Nat /\ r.cursor <= Len(log) /\ r.acked <= r.cursor
  BY <1>3, <1>4
<1>7. ReaderSound'
  BY <1>2, <1>3, <1>4, <1>5, <1>6 DEF ReaderSound
<1>8. PureSeen'
  <2>1. Pure => r.cursor <= created
    BY <1>3, <1>6, LogCounted
  <2>2. Stand' = r.cursor /\ (r.cursor + 1)..r.cursor = {}
    BY <1>5, <1>6 DEF Stand
  <2>. QED
    BY <1>2, <1>5, <2>1, <2>2 DEF PureSeen
<1>9. DeliverySound'
  <2>. SUFFICES ASSUME ~Miscounted PROVE \A i \in (reader.start + 1)..r.cursor : log[i].id \in r.delivered
    BY <1>2, <1>5 DEF DeliverySound, Miscounted
  <2>. TAKE i \in (reader.start + 1)..r.cursor
  <2>1. i \in (reader.start + 1)..reader.cursor \/ i \in (reader.cursor + 1)..r.cursor
    BY <1>3, <1>6
  <2>. QED
    BY <1>4, <2>1, Parts DEF DeliverySound
<1>10. Buffered' = Buffered /\ Queued' = Queued /\ Read' = Read /\ (Following' <=> Following)
  BY <1>1 DEF Buffered, Queued, Read, Following
<1>11. FollowSound' /\ PureFollow'
  <2>. SUFFICES ASSUME Following PROVE FollowSound' /\ PureFollow'
    BY <1>10 DEF FollowSound, PureFollow
  <2>1. /\ broker.base # -1 /\ ~broker.replay /\ reader.base = broker.base
        /\ Increasing(broker.sub.queue) /\ Queued = Buffered /\ Read = {}
    BY <1>1, Parts DEF FollowSound, Read
  <2>2. Ahead' = {} /\ Cardinality({}) = 0
    BY <1>10, <2>1, FS_EmptySet DEF Ahead
  <2>3. ~(reader.after > reader.base) => r.cursor = broker.base
    BY <1>3, <1>4, <2>1
  <2>4. FollowSound'
    BY <1>1, <1>5, <1>10, <2>1, <2>2, <2>3 DEF FollowSound
  <2>5. ASSUME Pure, ~(reader.after > reader.base)
        PROVE  Queued' = {e \in Buffered' : e > Stand'} /\ Stand' = broker.base
    <3>1. Stand' = broker.base
      BY <1>5, <1>6, <2>3, <2>5 DEF Stand
    <3>2. \A e \in Buffered : e > broker.base
      BY <2>5, Parts DEF PureBuffer
    <3>. QED
      BY <1>10, <2>1, <3>1, <3>2
  <2>6. PureFollow'
    BY <1>1, <1>2, <1>5, <2>5 DEF PureFollow
  <2>. QED
    BY <2>4, <2>6
<1>12. Rest(broker')
  BY <1>1, Parts DEF Rest, Same, QueueSound
<1>. QED
  BY <1>1, <1>5, <1>7, <1>8, <1>9, <1>11, <1>12, RestKeeps

\* What a stream skips by number it has delivered, and the log has it.
LEMMA SkipCounts ==
    ASSUME StreamInv, reader.phase \in {"durable", "status"}, reader.skip > 0, ~Miscounted
    PROVE  /\ \A i \in DOMAIN log : log[i].id = i
           /\ \A n \in (reader.cursor + 1)..(reader.cursor + reader.skip) : n \in reader.delivered
           /\ ended => reader.cursor + reader.skip <= Len(log)
<1>1. reader.counted
  BY Parts DEF ReaderSound
<1>2. Pure
  <2>1. \A i \in DOMAIN log : log[i] \in [by : {"here", "there"}, id : Nat]
    BY Parts, ElementOfSeq, LogCounted DEF SourceTypes
  <2>2. \A i \in DOMAIN log : i > 1 => log[i].by # "there"
    BY <1>1 DEF Miscounted
  <2>. QED
    BY <2>1, <2>2 DEF Pure
<1>3. /\ \A n \in (reader.cursor + 1)..(reader.cursor + reader.skip) : n \in reader.delivered
      /\ reader.cursor + reader.skip <= created
  BY <1>2, Parts DEF PureSeen
<1>. QED
  BY <1>2, <1>3, LogCounted

\* A page of the log.
LEMMA PageKeeps ==
    ASSUME Limits, StreamInv, Page
    PROVE  StreamInv'
<1>1. reader.phase = "durable" /\ UNCHANGED producerVars /\ broker' = broker
  BY DEF Page
<1>2. /\ log' = log /\ failure' = failure /\ ended' = ended /\ created' = created
      /\ (Pure' <=> Pure)
  BY <1>1, SourceStays
<1>3. /\ reader \in Readers /\ log \in Seq([by : {"here", "there"}, id : Nat])
      /\ Len(log) \in Nat /\ reader.cursor \in Nat /\ reader.cursor <= Len(log)
      /\ reader.skip \in Nat /\ reader.acked \in Nat /\ reader.start \in Nat
      /\ created \in Nat
  BY Parts, LogCounted DEF SourceTypes
<1>4. CASE reader' = [reader EXCEPT !.phase = "status"]
  <2>1. /\ reader' \in Readers /\ reader'.phase = "status" /\ reader'.late = reader.late
        /\ reader'.acked = reader.acked /\ reader'.cursor = reader.cursor
        /\ reader'.start = reader.start /\ reader'.delivered = reader.delivered
        /\ reader'.counted = reader.counted /\ reader'.skip = reader.skip
    BY <1>3, <1>4 DEF Readers, Phases
  <2>2. ReaderSound' /\ PureSeen'
    BY <1>1, <1>2, <2>1, Parts DEF ReaderSound, PureSeen
  <2>3. DeliverySound'
    BY <1>2, <2>1, Parts DEF DeliverySound, Miscounted
  <2>. QED
    BY <1>1, <2>1, <2>2, <2>3, QuietKeeps
<1>5. ASSUME reader.cursor # Len(log), NEW j \in (reader.cursor + 1)..Len(log),
             LET dropped == Min({reader.skip, j - reader.cursor})
                 first == reader.cursor + dropped + 1
                 r == [IF first <= j THEN Deliver(reader, first, j)
                       ELSE [reader EXCEPT !.cursor = j]
                       EXCEPT !.skip = @ - dropped]
             IN reader' = IF AtEnd(r) THEN Finished(r) ELSE r
      PROVE  StreamInv'
  <2>. DEFINE d == Min({reader.skip, j - reader.cursor})
              first == reader.cursor + d + 1
              got == IF first <= j THEN Deliver(reader, first, j) ELSE [reader EXCEPT !.cursor = j]
              left == reader.skip - d
              r == [got EXCEPT !.skip = left]
  <2>1. j \in Nat /\ j > reader.cursor /\ j <= Len(log) /\ j >= 1
    BY <1>3
  <2>2. /\ d \in Nat /\ d <= reader.skip /\ d <= j - reader.cursor
        /\ d = reader.skip \/ d = j - reader.cursor
    <3>. DEFINE m == j - reader.cursor
                s == reader.skip
    <3>1. m \in Nat /\ s \in Nat
      BY <1>3, <2>1
    <3>. HIDE DEF m, s
    <3>2. \E x \in {s, m} : \A y \in {s, m} : x <= y
      BY <3>1
    <3>3. Min({s, m}) \in {s, m} /\ \A y \in {s, m} : Min({s, m}) <= y
      BY <3>2 DEF Min
    <3>4. Min({s, m}) \in Nat /\ Min({s, m}) <= s /\ Min({s, m}) <= m
          /\ (Min({s, m}) = s \/ Min({s, m}) = m)
      BY <3>1, <3>3
    <3>. QED
      BY <3>4 DEF m, s
  <2>. HIDE DEF d
  <2>. DEFINE c == reader.cursor
              s == reader.skip
  <2>n. c \in Nat /\ s \in Nat
    BY <1>3
  <2>d. d \in Nat /\ d <= s /\ d <= j - c /\ (d = s \/ d = j - c)
    BY <2>2
  <2>3. /\ first \in Nat /\ first >= 1 /\ left \in Nat /\ left <= reader.skip
        /\ first = c + d + 1
        /\ left > 0 => s > 0 /\ c + s = j + left
    <3>. HIDE DEF c, s
    <3>1. c + d + 1 \in Nat /\ c + d + 1 >= 1 /\ s - d \in Nat /\ s - d <= s
      BY <2>n, <2>d
    <3>2. s - d > 0 => s > 0 /\ c + s = j + (s - d)
      BY <2>n, <2>d, <2>1
    <3>. QED
      BY <3>1, <3>2 DEF c, s
  <2>4. /\ got \in Readers /\ got.phase = "durable" /\ got.cursor = j /\ got.acked <= j
        /\ got.start = reader.start /\ got.late = reader.late /\ got.counted = reader.counted
        /\ got.skip = reader.skip
        /\ reader.delivered \subseteq got.delivered
        /\ \A k \in first..j : log[k].id \in got.delivered
    <3>. HIDE DEF first
    <3>1. CASE first <= j
      <4>. DEFINE D == Deliver(reader, first, j)
      <4>0. /\ reader \in Readers /\ first \in Nat /\ j \in Nat
            /\ log \in Seq([by : {"here", "there"}, id : Nat]) /\ j <= Len(log) /\ first >= 1
        BY <1>3, <2>1, <2>3
      <4>1. /\ D \in Readers
            /\ D.phase = reader.phase /\ D.start = reader.start
            /\ D.cursor = j /\ D.acked = j
            /\ D.skip = reader.skip /\ D.late = reader.late
            /\ D.counted = reader.counted
            /\ reader.delivered \subseteq D.delivered
            /\ \A k \in first..j : log[k].id \in D.delivered
        BY <4>0, DeliverFields, Zenon
      <4>2. got = D
        BY <3>1
      <4>. HIDE DEF D, got
      <4>. QED
        BY <1>1, <2>1, <4>1, <4>2
    <3>2. CASE ~(first <= j)
      <4>1. got = [reader EXCEPT !.cursor = j]
        BY <3>2
      <4>2. first..j = {}
        BY <2>1, <2>3, <3>2
      <4>3. reader.acked <= j
        BY <1>3, <2>1, LogCounted
      <4>. HIDE DEF got
      <4>. QED
        BY <1>1, <1>3, <2>1, <4>1, <4>2, <4>3 DEF Readers
    <3>. QED
      BY <3>1, <3>2
  <2>5. reader' = IF AtEnd(r) THEN Finished(r) ELSE r
    <3>1. [got EXCEPT !.skip = @ - d] = r
      BY <2>4
    <3>. QED
      BY <1>5, <3>1 DEF d
  <2>. HIDE DEF got, left
  <2>6. /\ r \in Readers /\ r.phase = "durable" /\ r.cursor = j /\ r.acked <= j /\ r.skip = left
        /\ r.start = reader.start /\ r.late = reader.late /\ r.counted = reader.counted
        /\ r.delivered = got.delivered
    BY <2>3, <2>4 DEF Readers
  <2>. HIDE DEF r
  <2>7. /\ \/ reader' = r
           \/ /\ ended /\ j = Len(log)
              /\ \/ left = 0 /\ reader' = [r EXCEPT !.phase = "done"]
                 \/ left # 0 /\ reader' = [r EXCEPT !.phase = "corrupt"]
    BY <2>5, <2>6 DEF AtEnd, Finished
  <2>8. /\ reader' \in Readers /\ reader'.cursor = j /\ reader'.acked <= j /\ reader'.skip = left
        /\ reader'.start = reader.start /\ reader'.late = reader.late
        /\ reader'.counted = reader.counted /\ reader'.delivered = got.delivered
        /\ reader'.phase \in {"durable", "done", "corrupt"}
        /\ reader'.phase = "done" => ended /\ j = Len(log)
        /\ reader'.phase = "corrupt" => ended /\ j = Len(log) /\ left # 0
    BY <2>6, <2>7 DEF Readers, Phases
  <2>9. left > 0 => reader.skip > 0 /\ reader.cursor + reader.skip = j + left
    BY <2>3
  <2>10. ReaderSound'
    BY <1>1, <1>2, <1>3, <2>1, <2>3, <2>8, <2>9, Parts DEF ReaderSound
  <2>11. PureSeen'
    <3>. SUFFICES ASSUME Pure
                  PROVE  /\ \A n \in (j + 1)..(j + left) : n \in got.delivered
                         /\ j + left <= created
      BY <1>2, <2>8 DEF PureSeen
    <3>1. /\ \A n \in (reader.cursor + 1)..(reader.cursor + reader.skip) : n \in reader.delivered
          /\ reader.cursor + reader.skip <= created
      BY <1>1, Parts DEF PureSeen
    <3>2. CASE left > 0
      <4>1. \A n \in (j + 1)..(j + left) : n \in (reader.cursor + 1)..(reader.cursor + reader.skip)
        BY SMTT(30), <1>3, <2>1, <2>3, <2>9, <3>2
      <4>. QED
        BY <1>3, <2>1, <2>3, <2>4, <2>9, <3>1, <3>2, <4>1
    <3>3. CASE left = 0
      <4>1. j <= created
        BY <1>3, <2>1, LogCounted
      <4>. QED
        BY <2>1, <3>3, <4>1
    <3>. QED
      BY <2>3, <3>2, <3>3
  <2>12. DeliverySound'
    <3>. SUFFICES ASSUME ~Miscounted
                  PROVE  /\ reader'.phase # "corrupt"
                         /\ \A i \in (reader.start + 1)..j : log[i].id \in got.delivered
      BY <1>2, <2>8 DEF DeliverySound, Miscounted
    <3>1. reader'.phase # "corrupt"
      <4>. SUFFICES ASSUME reader'.phase = "corrupt" PROVE FALSE
        OBVIOUS
      <4>1. ended /\ j = Len(log) /\ left > 0 /\ reader.skip > 0
        BY <2>3, <2>8, <2>9
      <4>2. reader.cursor + reader.skip <= Len(log)
        BY <1>1, <4>1, SkipCounts
      <4>. QED
        BY <1>3, <2>1, <2>3, <2>9, <4>1, <4>2
    <3>2. ASSUME NEW i \in (reader.start + 1)..j PROVE log[i].id \in got.delivered
      <4>1. CASE i <= reader.cursor
        <5>1. i \in (reader.start + 1)..reader.cursor
          BY <1>3, <2>1, <4>1
        <5>. QED
          BY <2>4, <5>1, Parts DEF DeliverySound
      <4>2. CASE i >= first
        <5>1. i \in first..j
          BY <1>3, <2>1, <2>3, <4>2
        <5>. QED
          BY <2>4, <5>1
      <4>3. CASE i > reader.cursor /\ i < first
        <5>1. /\ i \in (reader.cursor + 1)..(reader.cursor + reader.skip)
              /\ reader.skip > 0 /\ i \in 1..Len(log)
          <6>. HIDE DEF c, s, first
          <6>1. i > c /\ i < c + d + 1 /\ i \in Int
            BY <1>3, <2>3, <4>3 DEF c
          <6>2. i \in (c + 1)..(c + s) /\ s > 0 /\ i >= 1 /\ i <= j
            BY <2>1, <2>n, <2>d, <6>1
          <6>3. i \in 1..Len(log)
            BY <1>3, <2>1, <6>1, <6>2
          <6>. QED
            BY <6>2, <6>3 DEF c, s
        <5>2. log[i].id = i /\ i \in reader.delivered
          BY <1>1, <5>1, SkipCounts, LogCounted
        <5>. QED
          BY <2>4, <5>2
      <4>. QED
        BY SMTT(30), <1>3, <2>1, <2>3, <4>1, <4>2, <4>3
    <3>. QED
      BY <3>1, <3>2
  <2>13. reader'.phase \notin {"prefix", "live", "held"}
         /\ reader.phase \notin {"prefix", "live", "held"}
    BY <1>1, <2>8
  <2>. QED
    BY <1>1, <2>8, <2>10, <2>11, <2>12, <2>13, QuietKeeps
<1>6. \/ reader' = [reader EXCEPT !.phase = "status"]
      \/ /\ reader.cursor # Len(log)
         /\ \E j \in (reader.cursor + 1)..Len(log) :
              LET dropped == Min({reader.skip, j - reader.cursor})
                  first == reader.cursor + dropped + 1
                  r == [IF first <= j THEN Deliver(reader, first, j)
                        ELSE [reader EXCEPT !.cursor = j]
                        EXCEPT !.skip = @ - dropped]
              IN reader' = IF AtEnd(r) THEN Finished(r) ELSE r
  BY DEF Page
<1>. QED
  BY <1>4, <1>5, <1>6

\* The status of the execution, after an empty page.
LEMMA StatusKeeps ==
    ASSUME Limits, StreamInv, Status
    PROVE  StreamInv'
<1>1. reader.phase = "status" /\ UNCHANGED producerVars
  BY DEF Status
<1>2. /\ log' = log /\ failure' = failure /\ ended' = ended /\ created' = created
      /\ (Pure' <=> Pure)
  BY <1>1, SourceStays
<1>3. reader \in Readers /\ reader.acked <= reader.cursor /\ reader.cursor <= Len(log)
  BY Parts, LogCounted
<1>4. CASE broker' = broker /\ \/ reader' = [reader EXCEPT !.phase = "failed"]
                               \/ reader' = [reader EXCEPT !.phase = "durable"]
                               \/ ended /\ reader.cursor = Len(log) /\ reader' = Finished(reader)
  <2>. DEFINE p == reader'.phase
  <2>1. /\ reader' = [reader EXCEPT !.phase = p]
        /\ p \in {"failed", "durable", "done", "corrupt"}
        /\ p = "done" => ended /\ reader.cursor = Len(log)
        /\ p = "corrupt" => ended /\ reader.cursor = Len(log) /\ reader.skip # 0
    <3>1. CASE reader' = [reader EXCEPT !.phase = "failed"]
      BY <1>3, <3>1 DEF Readers
    <3>2. CASE reader' = [reader EXCEPT !.phase = "durable"]
      BY <1>3, <3>2 DEF Readers
    <3>3. CASE ended /\ reader.cursor = Len(log) /\ reader' = Finished(reader)
      <4>1. CASE reader.skip = 0
        <5>1. reader' = [reader EXCEPT !.phase = "done"]
          BY <3>3, <4>1 DEF Finished
        <5>. QED
          BY <1>3, <3>3, <5>1 DEF Readers
      <4>2. CASE reader.skip # 0
        <5>1. reader' = [reader EXCEPT !.phase = "corrupt"]
          BY <3>3, <4>2 DEF Finished
        <5>. QED
          BY <1>3, <3>3, <4>2, <5>1 DEF Readers
      <4>. QED
        BY <4>1, <4>2
    <3>. QED
      BY <1>4, <3>1, <3>2, <3>3
  <2>. HIDE DEF p
  <2>2. /\ reader' \in Readers /\ reader'.phase = p /\ reader'.late = reader.late
        /\ reader'.acked = reader.acked /\ reader'.cursor = reader.cursor
        /\ reader'.start = reader.start /\ reader'.delivered = reader.delivered
        /\ reader'.counted = reader.counted /\ reader'.skip = reader.skip
    BY <1>3, <2>1 DEF Readers, Phases
  <2>3. ReaderSound'
    BY <1>1, <1>2, <2>1, <2>2, Parts DEF ReaderSound
  <2>4. PureSeen'
    BY <1>1, <1>2, <2>1, <2>2, Parts DEF PureSeen
  <2>5. DeliverySound'
    <3>1. p = "corrupt" => Miscounted
      <4>. SUFFICES ASSUME p = "corrupt", ~Miscounted PROVE FALSE
        OBVIOUS
      <4>1. ended /\ reader.cursor = Len(log) /\ reader.skip > 0
        BY <2>1, LogCounted
      <4>2. reader.cursor + reader.skip <= Len(log)
        BY <1>1, <4>1, SkipCounts
      <4>. QED
        BY <4>1, <4>2, LogCounted
    <3>. QED
      BY <1>2, <2>2, <3>1, Parts DEF DeliverySound, Miscounted
  <2>. QED
    BY <1>1, <1>4, <2>1, <2>2, <2>3, <2>4, <2>5, QuietKeeps
<1>5. CASE broker.base # -1 /\ Attach(reader)
  <2>1. reader'.counted = reader.counted
    BY <1>3, <1>5 DEF Attach, Readers
  <2>2. Miscounted' <=> Miscounted
    BY <1>2, <2>1 DEF Miscounted
  <2>3. Miscounted' \/ \A i \in (reader.start + 1)..reader.cursor : log[i].id \in reader.delivered
    BY <2>2, Parts DEF DeliverySound
  <2>. QED
    BY <1>1, <1>3, <1>5, <2>3, AttachKeeps
<1>. QED
  BY <1>4, <1>5 DEF Status

\* A reader that lets go of the event it holds.
LEMMA LetGo ==
    ASSUME reader \in Readers, NEW r \in {reader, [reader EXCEPT !.held = 0]}
    PROVE  /\ r \in Readers /\ r.phase = reader.phase /\ r.start = reader.start
           /\ r.after = reader.after /\ r.cursor = reader.cursor /\ r.base = reader.base
           /\ r.aligning = reader.aligning /\ r.provisional = reader.provisional
           /\ r.skip = reader.skip /\ r.late = reader.late /\ r.acked = reader.acked
           /\ r.delivered = reader.delivered /\ r.counted = reader.counted
BY DEF Readers

\* A stream ends normally when it has delivered the log.
LEMMA DoneKeeps ==
    ASSUME Limits, StreamInv, UNCHANGED producerVars, NEW b, Same(b), NEW r \in Readers,
           Stop(r, b, "done"), ended, Len(log) <= r.cursor, r.cursor <= Len(log),
           r.acked <= r.cursor, r.start = reader.start, r.counted = reader.counted,
           Miscounted \/ \A i \in (r.start + 1)..r.cursor : log[i].id \in r.delivered
    PROVE  StreamInv'
<1>1. broker' = Close(b) /\ reader' = [r EXCEPT !.phase = "done"]
  BY DEF Stop
<1>2. log' = log /\ ended' = ended
  BY SourceStays
<1>3. /\ reader' \in Readers /\ reader'.phase = "done" /\ reader'.cursor = r.cursor
      /\ reader'.acked = r.acked /\ reader'.start = r.start /\ reader'.delivered = r.delivered
      /\ reader'.counted = reader.counted
  BY <1>1 DEF Readers, Phases
<1>4. r.cursor = Len(log)
  <2>1. Len(log) \in Nat /\ r.cursor \in Nat
    BY LogCounted DEF Readers
  <2>. QED
    BY <2>1
<1>5. ReaderSound' /\ PureSeen'
  BY <1>2, <1>3, <1>4 DEF ReaderSound, PureSeen
<1>6. DeliverySound'
  BY <1>2, <1>3 DEF DeliverySound, Miscounted
<1>. QED
  BY <1>1, <1>3, <1>5, <1>6, CloseKeeps

\* A stream falls back on the log, where it skips what it has delivered
\* provisionally, or nothing.
LEMMA FallBackKeeps ==
    ASSUME Limits, StreamInv, UNCHANGED producerVars, NEW b, Same(b),
           NEW r \in {reader, [reader EXCEPT !.held = 0]}, NEW skip \in {0, reader.provisional},
           reader.phase \in {"live", "held"}, FallBack(r, b, skip)
    PROVE  StreamInv'
<1>1. /\ broker' = Close(b)
      /\ reader' = [r EXCEPT !.phase = "durable", !.late = FALSE, !.skip = skip,
                             !.counted = @ \/ skip > 0]
  BY DEF FallBack
<1>2. /\ log' = log /\ failure' = failure /\ ended' = ended /\ created' = created
      /\ (Pure' <=> Pure)
  BY SourceStays
<1>3. /\ reader.cursor \in Nat /\ reader.provisional \in Nat /\ skip \in Nat
      /\ skip <= reader.provisional
  BY LogCounted
<1>4. /\ reader' \in Readers /\ reader'.phase = "durable" /\ ~reader'.late
      /\ reader'.acked = reader.acked /\ reader'.cursor = reader.cursor
      /\ reader'.start = reader.start /\ reader'.delivered = reader.delivered
      /\ reader'.skip = skip
      /\ reader'.counted = (reader.counted \/ skip > 0)
  <2>1. /\ r \in Readers /\ r.acked = reader.acked /\ r.cursor = reader.cursor
        /\ r.start = reader.start /\ r.delivered = reader.delivered /\ r.counted = reader.counted
    BY Parts, LetGo
  <2>. DEFINE g == reader.counted \/ skip > 0
  <2>2. g \in BOOLEAN /\ "durable" \in Phases
    BY DEF Phases
  <2>3. reader' = [r EXCEPT !.phase = "durable", !.late = FALSE, !.skip = skip, !.counted = g]
    BY <1>1, <2>1 DEF Readers
  <2>. HIDE DEF g
  <2>4. reader' \in Readers
    BY <1>3, <2>1, <2>2, <2>3 DEF Readers
  <2>5. /\ reader'.phase = "durable" /\ ~reader'.late /\ reader'.acked = r.acked
        /\ reader'.cursor = r.cursor /\ reader'.start = r.start /\ reader'.delivered = r.delivered
        /\ reader'.skip = skip /\ reader'.counted = g
    BY <2>1, <2>3 DEF Readers
  <2>. QED
    BY <2>1, <2>4, <2>5 DEF g
<1>5. ReaderSound'
  BY <1>2, <1>4, LogCounted DEF ReaderSound
<1>6. PureSeen'
  <2>1. Pure => /\ \A n \in (reader.cursor + 1)..(reader.cursor + reader.provisional) : n \in reader.delivered
                /\ reader.cursor + reader.provisional <= created
    BY Parts DEF PureSeen, Stand
  <2>2. \A n \in (reader.cursor + 1)..(reader.cursor + skip) :
           n \in (reader.cursor + 1)..(reader.cursor + reader.provisional)
    BY <1>3
  <2>3. Pure => reader.cursor + skip <= created
    <3>1. created \in Nat
      BY LogCounted
    <3>. QED
      BY <1>3, <2>1, <3>1
  <2>. QED
    BY <1>2, <1>4, <2>1, <2>2, <2>3 DEF PureSeen
<1>7. DeliverySound'
  BY <1>2, <1>4, Parts DEF DeliverySound, Miscounted
<1>. QED
  BY <1>1, <1>4, <1>5, <1>6, <1>7, CloseKeeps

\* An event that comes before one in the log is in the log before it.
LEMMA Behind ==
    ASSUME StreamInv, NEW item \in Int, NEW seq \in DOMAIN log, IsHere(item, seq),
           NEW e \in Buffered, e <= item
    PROVE  \E i \in DOMAIN log : i <= seq /\ i > broker.base /\ IsHere(e, i)
<1>1. e \in Int /\ DOMAIN log = 1..Len(log) /\ Len(log) \in Nat
  BY LogCounted DEF Buffered, EventsOf
<1>2. ~Later(e)
  BY <1>1 DEF Later, IsHere
<1>3. PICK i \in DOMAIN log : i > broker.base /\ IsHere(e, i)
  BY <1>2, Parts DEF BufferSound
<1>4. ~(seq < i)
  <2>1. seq < i => item < e
    BY <1>3, Parts DEF LogSound, IsHere
  <2>. QED
    BY <1>1, <2>1
<1>. QED
  BY <1>1, <1>3, <1>4

\* An event that is still queued is not in what the reader has of the log.
LEMMA Beyond ==
    ASSUME StreamInv, Following, reader.phase = "live", ~reader.aligning,
           NEW item \in Queued, NEW seq \in DOMAIN log, IsHere(item, seq)
    PROVE  seq > reader.cursor
<1>1. /\ item \in Buffered /\ item \in Int /\ DOMAIN log = 1..Len(log) /\ Len(log) \in Nat
      /\ reader.cursor \in Nat
  BY SMTT(30), LogCounted, Parts DEF FollowSound, Queued, EventsOf
<1>2. /\ \/ reader.cursor = broker.base
         \/ reader.cursor > 0 /\ \E e \in Read : IsHere(e, reader.cursor)
      /\ \A e \in Read : e < item
  BY Parts DEF FollowSound
<1>3. ASSUME NEW i \in DOMAIN log, IsHere(item, i) PROVE i = seq
  <2>1. (i < seq => item < item) /\ (seq < i => item < item)
    BY <1>3, Parts DEF LogSound, IsHere
  <2>. QED
    BY <1>1, <2>1
<1>4. CASE reader.cursor = broker.base
  <2>1. item <= item
    BY <1>1
  <2>2. PICK i \in DOMAIN log : i > broker.base /\ IsHere(item, i)
    BY <1>1, <2>1, Behind
  <2>. QED
    BY <1>3, <1>4, <2>2
<1>5. CASE reader.cursor > 0 /\ \E e \in Read : IsHere(e, reader.cursor)
  <2>1. PICK e \in Read : IsHere(e, reader.cursor)
    BY <1>5
  <2>2. e < item /\ e \in Int
    BY <1>2 DEF Read, Buffered, EventsOf
  <2>3. reader.cursor \in DOMAIN log
    BY <1>1, <1>5, LogCounted
  <2>4. seq # reader.cursor
    BY <1>1, <2>1, <2>2 DEF IsHere
  <2>5. seq < reader.cursor => item < e
    BY <2>1, <2>3, Parts DEF LogSound, IsHere
  <2>. QED
    BY <1>1, <2>2, <2>4, <2>5
<1>. QED
  BY <1>2, <1>4, <1>5

\* The reader is at the event item: what is left of the queue comes after it.
Reached(b, item) == Following =>
    /\ Increasing(b.sub.queue) /\ EventsOf(b.sub.queue) \subseteq Buffered
    /\ item \in Buffered \ EventsOf(b.sub.queue)
    /\ \A e \in Buffered \ EventsOf(b.sub.queue) : e <= item
    /\ \A e \in Buffered \ EventsOf(b.sub.queue), f \in EventsOf(b.sub.queue) : e < f

\* What the reader follows when it goes on with b.
LEMMA Onward ==
    ASSUME StreamInv, NEW b, Rest(b), NEW r \in Readers, GoOn(r, b)
    PROVE  /\ reader' \in Readers /\ reader'.phase = "live" /\ reader'.start = r.start
           /\ reader'.after = r.after /\ reader'.cursor = r.cursor /\ reader'.base = r.base
           /\ reader'.aligning = r.aligning /\ reader'.provisional = r.provisional
           /\ reader'.acked = r.acked /\ reader'.delivered = r.delivered
           /\ reader'.counted = r.counted
           /\ broker' = b /\ Buffered' = Buffered /\ Queued' = EventsOf(b.sub.queue)
           /\ Read' = Buffered \ EventsOf(b.sub.queue) /\ (Following' <=> Following)
           /\ broker'.base = broker.base /\ broker'.replay = broker.replay
<1>1. reader' = [r EXCEPT !.phase = "live"] /\ broker' = b
  BY DEF GoOn
<1>2. /\ reader' \in Readers /\ reader'.phase = "live" /\ reader'.start = r.start
      /\ reader'.after = r.after /\ reader'.cursor = r.cursor /\ reader'.base = r.base
      /\ reader'.aligning = r.aligning /\ reader'.provisional = r.provisional
      /\ reader'.acked = r.acked /\ reader'.delivered = r.delivered
      /\ reader'.counted = r.counted
  BY <1>1 DEF Readers, Phases
<1>3. /\ Buffered' = Buffered /\ Queued' = EventsOf(b.sub.queue)
      /\ (Following' <=> Following)
      /\ broker'.base = broker.base /\ broker'.replay = broker.replay
  BY <1>1 DEF Rest, Same, Buffered, Queued, Following
<1>4. Read' = Buffered \ EventsOf(b.sub.queue)
  BY <1>3 DEF Read
<1>. QED
  BY <1>1, <1>2, <1>3, <1>4

\* A number brings the reader to the position of the event in the log.
LEMMA ReachKeeps ==
    ASSUME Limits, StreamInv, UNCHANGED producerVars, NEW b, Rest(b), NEW item \in 1..MaxEvents,
           Reached(b, item), reader.phase \in {"live", "held"}, NEW r \in Readers,
           broker.seqOf[item] # 0, r.cursor = broker.seqOf[item], r.provisional = 0, ~r.aligning,
           r.acked <= r.cursor, r.after <= r.cursor, r.base = reader.base,
           r.start = reader.start, r.counted = reader.counted,
           Miscounted \/ \A i \in (r.start + 1)..r.cursor : log[i].id \in r.delivered,
           IF AtEnd(r) THEN Stop(r, b, "done") ELSE GoOn(r, b)
    PROVE  StreamInv'
<1>. DEFINE seq == r.cursor
<1>1. /\ seq \in Nat /\ seq \in DOMAIN log /\ IsHere(item, seq) /\ seq <= Len(log)
      /\ Len(log) \in Nat /\ DOMAIN log = 1..Len(log) /\ seq # 0 /\ item \in Int
  BY SMTT(30), Parts, LogCounted DEF Numbered, Readers
<1>2. /\ log' = log /\ failure' = failure /\ ended' = ended /\ created' = created
      /\ (Pure' <=> Pure) /\ \A e, i : IsHere(e, i)' <=> IsHere(e, i)
  BY SourceStays
<1>3. CASE AtEnd(r)
  <2>1. ended /\ r.cursor = Len(log) /\ Stop(r, b, "done")
    BY <1>3 DEF AtEnd
  <2>2. Len(log) <= r.cursor /\ r.cursor <= Len(log)
    BY <1>1, <2>1
  <2>3. Same(b)
    BY DEF Rest
  <2>. QED
    BY <2>1, <2>2, <2>3, DoneKeeps
<1>4. CASE ~AtEnd(r)
  <2>. HIDE DEF seq
  <2>1. /\ reader' \in Readers /\ reader'.phase = "live" /\ reader'.start = reader.start
        /\ reader'.after = r.after /\ reader'.cursor = seq /\ reader'.base = reader.base
        /\ ~reader'.aligning /\ reader'.provisional = 0
        /\ reader'.acked = r.acked /\ reader'.delivered = r.delivered
        /\ reader'.counted = reader.counted
        /\ broker' = b /\ Buffered' = Buffered /\ Queued' = EventsOf(b.sub.queue)
        /\ Read' = Buffered \ EventsOf(b.sub.queue) /\ (Following' <=> Following)
        /\ broker'.base = broker.base /\ broker'.replay = broker.replay
    BY <1>4, Onward DEF seq
  <2>2. ReaderSound'
    BY <1>1, <1>2, <2>1 DEF ReaderSound, seq
  <2>3. Stand' = seq
    BY <1>1, <2>1 DEF Stand
  <2>4. ASSUME Pure PROVE item = seq
    BY <1>1, <2>4, LogCounted DEF IsHere
  <2>5. PureSeen'
    <3>1. Pure => seq <= created
      BY <1>1, LogCounted
    <3>2. (seq + 1)..seq = {}
      BY <1>1
    <3>. QED
      BY <1>2, <2>1, <2>3, <3>1, <3>2 DEF PureSeen
  <2>6. DeliverySound'
    BY <1>2, <2>1 DEF DeliverySound, Miscounted, seq
  <2>7. ASSUME Following PROVE FollowSound' /\ PureFollow'
    <3>1. /\ Increasing(b.sub.queue) /\ Queued' \subseteq Buffered
          /\ item \in Read' /\ (\A e \in Read' : e <= item)
          /\ \A e \in Read', f \in Queued' : e < f
      BY <2>1, <2>7 DEF Reached
    <3>2. broker.base # -1 /\ ~broker.replay /\ reader.base = broker.base
      BY <2>7, Parts DEF FollowSound
    <3>3. Ahead' = {} /\ Cardinality({}) = 0
      <4>1. ASSUME NEW e \in Read' PROVE \E i \in 1..seq : IsHere(e, i)
        <5>1. e \in Buffered /\ e <= item
          BY <2>1, <3>1, <4>1
        <5>2. PICK i \in DOMAIN log : i <= seq /\ IsHere(e, i)
          BY <1>1, <5>1, Behind
        <5>3. i \in 1..seq
          BY <1>1, <5>2
        <5>. QED
          BY <5>2, <5>3
      <4>2. Ahead' = {}
        BY <1>2, <2>1, <4>1 DEF Ahead
      <4>. QED
        BY <4>2, FS_EmptySet
    <3>4. seq > 0
      BY <1>1
    <3>5. FollowSound'
      BY <1>1, <1>2, <2>1, <3>1, <3>2, <3>3, <3>4 DEF FollowSound
    <3>6. ASSUME Pure PROVE Queued' = {e \in Buffered' : e > seq} /\ seq \in Buffered'
      <4>1. item = seq /\ item \in Buffered /\ Buffered \subseteq Int
        BY <2>1, <2>4, <3>1, <3>6 DEF Buffered, EventsOf
      <4>2. \A e \in Buffered : e > item => e \in Queued'
        BY <2>1, <3>1, <4>1
      <4>3. \A e \in Queued' : e > item /\ e \in Buffered
        BY <3>1, <4>1
      <4>. QED
        BY <2>1, <4>1, <4>2, <4>3
    <3>7. PureFollow'
      BY <1>2, <2>1, <2>3, <3>6 DEF PureFollow
    <3>. QED
      BY <3>5, <3>7
  <2>8. FollowSound' /\ PureFollow'
    BY <2>1, <2>7 DEF FollowSound, PureFollow
  <2>9. Rest(broker')
    BY <2>1 DEF Rest, Same
  <2>. QED
    BY <2>1, <2>2, <2>5, <2>6, <2>8, <2>9, RestKeeps
<1>. QED
  BY <1>3, <1>4

\* Catching up delivers everything up to an event that is further on.
LEMMA CatchUpKeeps ==
    ASSUME Limits, StreamInv, UNCHANGED producerVars, NEW b, Rest(b), NEW item \in 1..MaxEvents,
           Reached(b, item), reader.phase \in {"live", "held"},
           NEW r \in {reader, [reader EXCEPT !.held = 0]},
           broker.seqOf[item] # 0, reader.cursor < broker.seqOf[item],
           CatchUp(r, b, item, broker.seqOf[item])
    PROVE  StreamInv'
<1>. DEFINE seq == broker.seqOf[item]
            from == reader.cursor + 1
            D == Deliver(r, from, seq)
            caught == [D EXCEPT !.aligning = FALSE, !.provisional = 0]
<1>1. /\ r \in Readers /\ r.phase = reader.phase /\ r.start = reader.start
      /\ r.after = reader.after /\ r.cursor = reader.cursor /\ r.base = reader.base
      /\ r.aligning = reader.aligning /\ r.provisional = reader.provisional
      /\ r.acked = reader.acked /\ r.delivered = reader.delivered /\ r.counted = reader.counted
  BY Parts, LetGo
<1>2. /\ seq \in Nat /\ seq <= Len(log) /\ IsHere(item, seq) /\ Len(log) \in Nat
      /\ from \in Nat /\ from >= 1 /\ reader.cursor \in Nat /\ seq > reader.cursor
      /\ reader.start \in Nat /\ log \in Seq([by : {"here", "there"}, id : Nat])
      /\ reader.after <= reader.cursor /\ reader.after \in Nat
  <2>1. seq \in Nat
    BY Parts DEF Brokers
  <2>2. seq <= Len(log) /\ IsHere(item, seq)
    BY Parts DEF Numbered
  <2>3. reader.cursor \in Nat /\ reader.start \in Nat /\ reader.after \in Nat /\ Len(log) \in Nat
    BY LogCounted
  <2>4. from \in Nat /\ from >= 1
    BY <2>3
  <2>5. reader.after <= reader.cursor
    BY Parts DEF ReaderSound
  <2>. QED
    BY <2>1, <2>2, <2>3, <2>4, <2>5, Parts DEF SourceTypes
<1>3. IF AtEnd(caught) THEN Stop(caught, b, "done") ELSE GoOn(caught, b)
  <2>1. ~(seq > Len(log)) /\ log[seq].id = item
    BY <1>2 DEF IsHere
  <2>2. caught = [Deliver(r, r.cursor + 1, seq) EXCEPT !.aligning = FALSE, !.provisional = 0]
    BY <1>1
  <2>. HIDE DEF caught
  <2>. QED
    BY <2>1, <2>2 DEF CatchUp
<1>4. r \in Readers /\ from \in Nat /\ seq \in Nat /\ seq <= Len(log) /\ from >= 1
      /\ log \in Seq([by : {"here", "there"}, id : Nat])
  BY <1>1, <1>2
<1>. HIDE DEF seq, from
<1>5. /\ D \in Readers /\ D.start = r.start /\ D.cursor = seq /\ D.acked = seq
      /\ D.counted = r.counted /\ D.after = r.after /\ D.base = r.base
      /\ r.delivered \subseteq D.delivered
      /\ \A k \in from..seq : log[k].id \in D.delivered
  BY ZenonT(60), <1>4, DeliverFields
<1>. HIDE DEF D
<1>6. /\ caught \in Readers /\ caught.start = reader.start /\ caught.cursor = seq
      /\ caught.acked = seq /\ caught.counted = reader.counted /\ caught.after = reader.after
      /\ caught.base = reader.base /\ caught.delivered = D.delivered
      /\ caught.provisional = 0 /\ ~caught.aligning
  BY <1>1, <1>5 DEF Readers
<1>. HIDE DEF caught
<1>7. Miscounted \/ \A i \in (reader.start + 1)..seq : log[i].id \in D.delivered
  <2>. SUFFICES ASSUME ~Miscounted, NEW i \in (reader.start + 1)..seq
                PROVE  log[i].id \in D.delivered
    OBVIOUS
  <2>1. CASE i <= reader.cursor
    <3>1. i \in (reader.start + 1)..reader.cursor
      BY <1>2, <2>1
    <3>. QED
      BY <1>1, <1>5, <3>1, Parts DEF DeliverySound
  <2>2. CASE ~(i <= reader.cursor)
    <3>1. /\ reader.cursor \in Nat /\ seq \in Nat /\ reader.start \in Nat
          /\ from = reader.cursor + 1
      BY <1>2 DEF from
    <3>2. i \in Int /\ i <= seq
      BY <3>1
    <3>3. i \in from..seq
      BY <2>2, <3>1, <3>2
    <3>. QED
      BY <1>5, <3>3
  <2>. QED
    BY <2>1, <2>2
<1>8. seq # 0 /\ caught.cursor = broker.seqOf[item] /\ caught.acked <= caught.cursor
      /\ caught.after <= caught.cursor
  BY <1>2, <1>6 DEF seq
<1>. QED
  BY <1>3, <1>6, <1>7, <1>8, ReachKeeps

\* A stream that is still looking for its place.
LEMMA AlignedKeeps ==
    ASSUME Limits, StreamInv, UNCHANGED producerVars, NEW b, Rest(b), NEW item \in 1..MaxEvents,
           Reached(b, item), reader.phase \in {"live", "held"}, reader.aligning,
           NEW r \in Readers, r.aligning, r.start = reader.start, r.after = reader.after,
           r.cursor = reader.cursor, r.base = reader.base, r.provisional = reader.provisional,
           r.acked = reader.acked, r.delivered = reader.delivered, r.counted = reader.counted,
           GoOn(r, b)
    PROVE  StreamInv'
<1>1. /\ log' = log /\ failure' = failure /\ ended' = ended /\ created' = created
      /\ (Pure' <=> Pure) /\ \A e, i : IsHere(e, i)' <=> IsHere(e, i)
  BY SourceStays
<1>2. /\ reader' \in Readers /\ reader'.phase = "live" /\ reader'.start = reader.start
      /\ reader'.after = reader.after /\ reader'.cursor = reader.cursor
      /\ reader'.base = reader.base /\ reader'.aligning
      /\ reader'.provisional = reader.provisional
      /\ reader'.acked = reader.acked /\ reader'.delivered = reader.delivered
      /\ reader'.counted = reader.counted
      /\ broker' = b /\ Buffered' = Buffered /\ Queued' = EventsOf(b.sub.queue)
      /\ Read' = Buffered \ EventsOf(b.sub.queue) /\ (Following' <=> Following)
      /\ broker'.base = broker.base /\ broker'.replay = broker.replay
  BY Onward
<1>3. ReaderSound'
  BY <1>1, <1>2, Parts DEF ReaderSound
<1>4. FollowSound'
  BY <1>2, Parts DEF FollowSound, Reached
<1>5. PureFollow'
  BY <1>2 DEF PureFollow
<1>6. PureSeen'
  BY <1>1, <1>2, Parts DEF PureSeen, Stand
<1>7. DeliverySound'
  BY <1>1, <1>2, Parts DEF DeliverySound, Miscounted
<1>8. Rest(broker')
  BY <1>2 DEF Rest, Same
<1>. QED
  BY <1>2, <1>3, <1>4, <1>5, <1>6, <1>7, <1>8, RestKeeps

\* A resumed stream finds its place, or has not reached it.
LEMMA AlignKeeps ==
    ASSUME Limits, StreamInv, UNCHANGED producerVars, NEW b, Rest(b), NEW item \in 1..MaxEvents,
           Reached(b, item), reader.phase \in {"live", "held"}, reader.aligning,
           NEW r \in {reader, [reader EXCEPT !.held = 0]},
           broker.seqOf[item] # 0, Align(r, b, item, broker.seqOf[item])
    PROVE  StreamInv'
<1>. DEFINE seq == broker.seqOf[item]
            g == seq # r.after
            s == [r EXCEPT !.aligning = g]
<1>1. /\ r \in Readers /\ r.phase = reader.phase /\ r.start = reader.start
      /\ r.after = reader.after /\ r.cursor = reader.cursor /\ r.base = reader.base
      /\ r.aligning = reader.aligning /\ r.provisional = reader.provisional
      /\ r.acked = reader.acked /\ r.delivered = reader.delivered /\ r.counted = reader.counted
  BY Parts, LetGo
<1>2. /\ seq \in Nat /\ seq <= Len(log) /\ IsHere(item, seq) /\ Len(log) \in Nat
      /\ reader.cursor \in Nat /\ reader.cursor <= Len(log) /\ reader.acked <= reader.cursor
      /\ reader.after = reader.cursor /\ reader.provisional = 0
  BY Parts, LogCounted DEF Numbered, Brokers, ReaderSound
<1>3. \/ seq > reader.after /\ CatchUp(r, b, item, seq)
      \/ seq <= reader.after /\ ended /\ seq = Len(log) /\ Stop(r, b, "done")
      \/ seq <= reader.after /\ ~(ended /\ seq = Len(log)) /\ GoOn(s, b)
  <2>1. r.after \in Nat
    BY <1>1, <1>2
  <2>. HIDE DEF seq
  <2>2. seq > r.after \/ seq <= r.after
    BY <1>2, <2>1
  <2>3. \/ seq > r.after /\ CatchUp(r, b, item, seq)
        \/ ~(seq > r.after) /\ ended /\ seq = Len(log) /\ Stop(r, b, "done")
        \/ ~(seq > r.after) /\ ~(ended /\ seq = Len(log)) /\ GoOn(s, b)
    BY DEF Align, seq
  <2>. QED
    BY <1>1, <2>2, <2>3
<1>4. CASE seq > reader.after /\ CatchUp(r, b, item, seq)
  <2>1. reader.cursor < seq
    BY <1>2, <1>4
  <2>. QED
    BY <1>4, <2>1, CatchUpKeeps
<1>5. CASE seq <= reader.after /\ ended /\ seq = Len(log) /\ Stop(r, b, "done")
  <2>1. Len(log) <= reader.cursor
    BY <1>2, <1>5
  <2>2. Miscounted \/ \A i \in (reader.start + 1)..reader.cursor : log[i].id \in reader.delivered
    BY Parts DEF DeliverySound
  <2>3. Same(b)
    BY DEF Rest
  <2>. QED
    BY <1>1, <1>2, <1>5, <2>1, <2>2, <2>3, DoneKeeps
<1>6. CASE seq <= reader.after /\ ~(ended /\ seq = Len(log)) /\ GoOn(s, b)
  <2>1. g \in BOOLEAN
    OBVIOUS
  <2>. HIDE DEF g
  <2>2. s \in Readers /\ s.aligning = g /\ s.start = reader.start
        /\ s.after = reader.after /\ s.cursor = reader.cursor /\ s.base = reader.base
        /\ s.provisional = reader.provisional /\ s.acked = reader.acked
        /\ s.delivered = reader.delivered /\ s.counted = reader.counted
    BY <1>1, <2>1 DEF Readers
  <2>. HIDE DEF s
  <2>3. CASE g
    BY <1>6, <2>2, <2>3, AlignedKeeps
  <2>4. CASE ~g
    <3>1. seq = reader.cursor
      BY <1>1, <1>2, <2>4 DEF g
    <3>2. ~AtEnd(s)
      BY <1>6, <2>2, <3>1 DEF AtEnd
    <3>3. Miscounted \/ \A i \in (reader.start + 1)..reader.cursor : log[i].id \in reader.delivered
      BY Parts DEF DeliverySound
    <3>4. s.cursor = broker.seqOf[item] /\ s.acked <= s.cursor /\ s.after <= s.cursor
          /\ s.provisional = 0 /\ ~s.aligning
      BY <1>2, <2>2, <2>4, <3>1
    <3>5. IF AtEnd(s) THEN Stop(s, b, "done") ELSE GoOn(s, b)
      BY <1>6, <3>2
    <3>. QED
      BY <2>2, <3>3, <3>4, <3>5, ReachKeeps
  <2>. QED
    BY <2>3, <2>4
<1>. QED
  BY <1>3, <1>4, <1>5, <1>6

\* What the reader has counted lies between its cursor and the next number.
LEMMA Positions ==
    ASSUME StreamInv, Following, reader.phase = "live", ~reader.aligning,
           NEW item \in Queued, NEW seq \in DOMAIN log, IsHere(item, seq)
    PROVE  /\ reader.cursor + reader.provisional + 1 <= seq
           /\ reader.cursor + reader.provisional + 1 >= seq =>
                 \A i \in (reader.cursor + 1)..(seq - 1) : log[i].id \in reader.delivered
<1>. DEFINE c == reader.cursor
            p == reader.provisional
            T == (c + 1)..(seq - 1)
            f == [e \in Ahead |-> CHOOSE i \in T : IsHere(e, i)]
<1>1. /\ DOMAIN log = 1..Len(log) /\ Len(log) \in Nat /\ c \in Nat /\ p \in Nat
      /\ seq \in Nat /\ item \in Int /\ c < seq
  BY LogCounted, Beyond DEF Queued, EventsOf
<1>2. /\ Ahead \subseteq reader.delivered /\ Cardinality(Ahead) = p
      /\ \A e \in Read : e < item
  BY Parts DEF FollowSound
<1>3. Ahead \subseteq Read /\ Read \subseteq Buffered /\ Read \subseteq Int
  BY DEF Ahead, Read, Buffered, EventsOf
<1>4. ASSUME NEW e \in Ahead PROVE \E i \in T : IsHere(e, i)
  <2>1. e \in Buffered /\ e < item /\ e \in Int /\ e <= item
    BY <1>1, <1>2, <1>3
  <2>2. PICK i \in DOMAIN log : i <= seq /\ IsHere(e, i)
    BY <1>1, <2>1, Behind
  <2>3. i # seq
    BY <1>1, <2>1, <2>2 DEF IsHere
  <2>4. ~(i \in 1..c)
    BY <2>2 DEF Ahead
  <2>5. i \in T
    BY <1>1, <2>2, <2>3, <2>4
  <2>. QED
    BY <2>2, <2>5
<1>. HIDE DEF T
<1>5. f \in [Ahead -> T] /\ \A e \in Ahead : IsHere(e, f[e])
  BY <1>4
<1>. HIDE DEF f
<1>6. \A d, e \in Ahead : f[d] = f[e] => d = e
  BY <1>5 DEF IsHere
<1>7. f \in Injection(Ahead, T)
  BY <1>5, <1>6, Fun_IsInj
<1>8. IsFiniteSet(T) /\ Cardinality(T) = seq - 1 - c
  <2>1. c + 1 \in Int /\ seq - 1 \in Int
    BY <1>1
  <2>2. IsFiniteSet(T) /\ Cardinality(T) = IF c + 1 > seq - 1 THEN 0 ELSE (seq - 1) - (c + 1) + 1
    BY <2>1, FS_Interval DEF T
  <2>. QED
    BY <1>1, <2>2
<1>9. p <= seq - 1 - c /\ (p = seq - 1 - c => f \in Surjection(Ahead, T))
  BY <1>2, <1>7, <1>8, FS_Injection
<1>10. c + p + 1 <= seq /\ (c + p + 1 >= seq => p = seq - 1 - c)
  BY <1>1, <1>9
<1>11. ASSUME c + p + 1 >= seq, NEW i \in T PROVE log[i].id \in reader.delivered
  <2>1. f \in Surjection(Ahead, T)
    BY <1>9, <1>10, <1>11
  <2>2. PICK e \in Ahead : f[e] = i
    BY <2>1, Fun_SurjectionProperties
  <2>. QED
    BY <1>2, <1>5, <2>2 DEF IsHere
<1>. QED
  BY <1>10, <1>11 DEF T

\* An event without a number is the next, whatever that is.
LEMMA ProvisionalKeeps ==
    ASSUME Limits, StreamInv, UNCHANGED producerVars, NEW b, Rest(b), NEW item \in 1..MaxEvents,
           Following, Reached(b, item), Queued = EventsOf(b.sub.queue) \cup {item},
           reader.phase = "live", ~reader.aligning,
           GoOn([reader EXCEPT !.provisional = @ + 1, !.delivered = @ \cup {item}], b)
    PROVE  StreamInv'
<1>. DEFINE D == reader.delivered \cup {item}
            p == reader.provisional + 1
            r == [reader EXCEPT !.provisional = p, !.delivered = D]
<1>1. /\ reader \in Readers /\ reader.cursor \in Nat /\ reader.provisional \in Nat /\ p \in Nat
      /\ Len(log) \in Nat /\ DOMAIN log = 1..Len(log) /\ item \in Nat /\ reader.delivered \subseteq D
      /\ reader.cursor <= Len(log) /\ item \in D
  BY Parts, LogCounted
<1>2. D \in SUBSET Nat
  BY <1>1 DEF Readers
<1>3. GoOn(r, b)
  <2>1. [reader EXCEPT !.provisional = @ + 1, !.delivered = @ \cup {item}] = r
    BY <1>1 DEF Readers
  <2>. QED
    BY <2>1
<1>. HIDE DEF D, p
<1>4. /\ r \in Readers /\ r.provisional = p /\ r.delivered = D /\ r.start = reader.start
      /\ r.after = reader.after /\ r.cursor = reader.cursor /\ r.base = reader.base
      /\ r.aligning = reader.aligning /\ r.acked = reader.acked /\ r.counted = reader.counted
  BY <1>1, <1>2 DEF Readers
<1>. HIDE DEF r
<1>5. /\ log' = log /\ failure' = failure /\ ended' = ended /\ created' = created
      /\ (Pure' <=> Pure) /\ \A e, i : IsHere(e, i)' <=> IsHere(e, i)
  BY SourceStays
<1>6. /\ reader' \in Readers /\ reader'.phase = "live" /\ reader'.start = reader.start
      /\ reader'.after = reader.after /\ reader'.cursor = reader.cursor
      /\ reader'.base = reader.base /\ ~reader'.aligning /\ reader'.provisional = p
      /\ reader'.acked = reader.acked /\ reader'.delivered = D
      /\ reader'.counted = reader.counted
      /\ broker' = b /\ Buffered' = Buffered /\ Queued' = EventsOf(b.sub.queue)
      /\ Read' = Buffered \ EventsOf(b.sub.queue) /\ (Following' <=> Following)
      /\ broker'.base = broker.base /\ broker'.replay = broker.replay
  BY <1>3, <1>4, Onward
<1>7. /\ Increasing(b.sub.queue) /\ Queued' \subseteq Buffered
      /\ item \in Read' /\ (\A e \in Read' : e <= item)
      /\ \A e \in Read', f \in Queued' : e < f
  BY <1>6 DEF Reached
<1>8. /\ Queued = Queued' \cup {item} /\ item \notin Queued' /\ Queued \subseteq Buffered
      /\ item \in Queued
  BY <1>6, <1>7, Parts DEF FollowSound
<1>9. Read' = Read \cup {item} /\ item \notin Read
  BY <1>6, <1>8 DEF Read
<1>10. ReaderSound'
  BY <1>5, <1>6, Parts DEF ReaderSound
<1>11. Ahead' = Ahead \cup {item} /\ item \notin Ahead
  <2>1. ASSUME NEW i \in 1..reader.cursor PROVE ~IsHere(item, i)
    <3>1. i \in DOMAIN log /\ ~(i > reader.cursor)
      BY <1>1
    <3>. QED
      BY <1>8, <3>1, Beyond
  <2>2. item \notin Ahead
    BY <1>9 DEF Ahead
  <2>3. Ahead' = {e \in Read' : \A i \in 1..reader.cursor : ~IsHere(e, i)}
    BY <1>5, <1>6 DEF Ahead
  <2>. QED
    BY <1>9, <2>1, <2>2, <2>3 DEF Ahead
<1>12. Cardinality(Ahead') = p /\ Ahead' \subseteq D
  <2>1. Cardinality(Ahead) = reader.provisional /\ Ahead \subseteq reader.delivered
    BY Parts DEF FollowSound
  <2>2. IsFiniteSet(Ahead)
    <3>1. MaxEvents \in Int /\ 1 \in Int
      BY DEF Limits
    <3>2. IsFiniteSet(1..MaxEvents)
      BY <3>1, FS_Interval
    <3>3. Ahead \subseteq 1..MaxEvents
      BY DEF Ahead, Read, Buffered, EventsOf
    <3>. QED
      BY <3>2, <3>3, FS_Subset
  <2>3. Cardinality(Ahead \cup {item}) = Cardinality(Ahead) + 1
    BY <1>11, <2>2, FS_AddElement
  <2>. QED
    BY <1>1, <1>11, <2>1, <2>3 DEF p
<1>13. FollowSound'
  <2>1. /\ broker.base # -1 /\ ~broker.replay /\ reader.base = broker.base
        /\ \/ reader.cursor = broker.base
           \/ reader.cursor > 0 /\ \E e \in Read : IsHere(e, reader.cursor)
    BY Parts DEF FollowSound
  <2>2. \/ reader.cursor = broker.base
        \/ reader.cursor > 0 /\ \E e \in Read' : IsHere(e, reader.cursor)
    BY <1>9, <2>1
  <2>. QED
    BY <1>5, <1>6, <1>7, <1>12, <2>1, <2>2 DEF FollowSound
<1>14. ASSUME Pure
       PROVE  /\ Stand' = item /\ Stand + 1 = item /\ item <= created
              /\ Queued' = {e \in Buffered' : e > item} /\ item \in Buffered'
  <2>1. /\ Queued = {e \in Buffered : e > Stand} /\ (Stand = broker.base \/ Stand \in Buffered)
    BY <1>14, Parts DEF PureFollow
  <2>2. \A e \in Buffered : e > broker.base /\ \A n \in (broker.base + 1)..e : n \in Buffered
    BY <1>14, Parts DEF PureBuffer
  <2>3. Stand \in Nat /\ broker.base \in Int /\ Buffered \subseteq Int
    BY <1>1, Parts DEF Stand, Brokers, Buffered, EventsOf
  <2>4. item > Stand /\ item \in Buffered
    BY <1>8, <2>1
  <2>5. Stand >= broker.base
    BY <2>1, <2>2, <2>3
  <2>6. Stand + 1 \in (broker.base + 1)..item
    BY <1>1, <2>3, <2>4, <2>5
  <2>7. Stand + 1 \in Queued
    <3>1. Stand + 1 \in Buffered
      BY <2>2, <2>4, <2>6
    <3>2. Stand + 1 > Stand
      BY <2>3
    <3>. QED
      BY <2>1, <3>1, <3>2
  <2>8. item <= Stand + 1
    <3>1. Stand + 1 = item \/ Stand + 1 \in Queued'
      BY <1>8, <2>7
    <3>2. Stand + 1 \in Queued' => item < Stand + 1
      BY <1>7
    <3>. QED
      BY <1>1, <2>3, <3>1, <3>2
  <2>9. Stand + 1 = item
    BY <1>1, <2>3, <2>4, <2>8
  <2>10. Stand' = item
    BY <1>1, <1>6, <2>9 DEF Stand, p
  <2>11. item <= created
    <3>1. PICK i \in DOMAIN broker.buffer : broker.buffer[i] = item
      BY <2>4 DEF Buffered, EventsOf
    <3>2. broker.buffer[i] \in 0..created
      BY Parts DEF BufferSound
    <3>. QED
      BY <1>1, <3>1, <3>2
  <2>12. \A e \in Buffered : e > item => e \in Queued'
    BY <1>1, <1>6, <1>7, <2>3
  <2>13. \A e \in Queued' : e > item
    BY <1>7
  <2>. QED
    BY <1>6, <1>7, <2>4, <2>9, <2>10, <2>11, <2>12, <2>13
<1>15. PureFollow'
  BY <1>5, <1>6, <1>14 DEF PureFollow
<1>16. PureSeen'
  <2>. SUFFICES ASSUME Pure
                PROVE  (\A n \in (reader.cursor + 1)..item : n \in D) /\ item <= created
    BY <1>5, <1>6, <1>14 DEF PureSeen
  <2>1. \A n \in (reader.cursor + 1)..Stand : n \in reader.delivered
    BY Parts DEF PureSeen
  <2>2. Stand \in Nat
    BY <1>1 DEF Stand
  <2>3. \A n \in (reader.cursor + 1)..item : n = item \/ n \in (reader.cursor + 1)..Stand
    BY <1>1, <1>14, <2>2
  <2>. QED
    BY <1>1, <1>14, <2>1, <2>3
<1>17. DeliverySound'
  BY <1>1, <1>5, <1>6, Parts DEF DeliverySound, Miscounted
<1>18. Rest(broker')
  BY <1>6 DEF Rest, Same
<1>. QED
  BY <1>6, <1>10, <1>13, <1>15, <1>16, <1>17, <1>18, RestKeeps

\* The next event in the order of the stream.
LEMMA TakeKeeps ==
    ASSUME Limits, StreamInv, UNCHANGED producerVars, NEW b, Rest(b), NEW item \in 1..MaxEvents,
           Following, Reached(b, item), Queued = EventsOf(b.sub.queue) \cup {item},
           reader.phase = "live", ~reader.aligning,
           Take(reader, b, item, broker.seqOf[item])
    PROVE  StreamInv'
<1>. DEFINE seq == broker.seqOf[item]
            c == reader.cursor
            expected == reader.cursor + reader.provisional + 1
            D == Deliver(reader, seq, seq)
            next == [D EXCEPT !.provisional = 0]
<1>1. CASE seq = 0
  <2>1. ~(0 > reader.after)
    BY LogCounted
  <2>. HIDE DEF seq
  <2>2. Take(reader, b, item, 0)
    BY <1>1 DEF seq
  <2>3. GoOn([reader EXCEPT !.provisional = @ + 1, !.delivered = @ \cup {item}], b)
    BY <2>1, <2>2 DEF Take, Placed
  <2>. QED
    BY <2>3, ProvisionalKeeps
<1>2. CASE seq # 0
  <2>1. seq \in Nat
    BY Parts DEF Brokers
  <2>2. seq <= Len(log) /\ IsHere(item, seq)
    BY <1>2, Parts DEF Numbered
  <2>2a. Placed(reader, seq) = reader
    BY <2>2 DEF Placed, IsHere
  <2>3. /\ c \in Nat /\ reader.provisional \in Nat /\ reader.start \in Nat /\ reader.after \in Nat
        /\ Len(log) \in Nat /\ DOMAIN log = 1..Len(log)
    BY LogCounted
  <2>4. seq \in DOMAIN log /\ item \in Queued /\ reader.after <= c /\ expected \in Nat
    BY <1>2, <2>1, <2>2, <2>3, Parts DEF ReaderSound
  <2>5. /\ expected <= seq
        /\ expected >= seq => \A i \in (c + 1)..(seq - 1) : log[i].id \in reader.delivered
    BY <2>2, <2>4, Positions
  <2>6. c < seq /\ ~(seq <= reader.after) /\ seq > reader.after /\ ~(seq < expected)
    BY SMTT(30), <2>1, <2>3, <2>4, <2>5
  <2>7. \/ seq > expected /\ CatchUp(reader, b, item, seq)
        \/ expected >= seq /\ IF AtEnd(next) THEN Stop(next, b, "done") ELSE GoOn(next, b)
    <3>1. seq > expected \/ (seq = expected /\ expected >= seq)
      BY <2>1, <2>4, <2>5
    <3>2. CASE seq > expected
      <4>. HIDE DEF seq
      <4>1. seq # expected
        BY <2>1, <2>4, <3>2
      <4>2. CatchUp(reader, b, item, seq)
        BY <1>2, <2>2a, <2>6, <3>2, <4>1 DEF Take, seq
      <4>. QED
        BY <3>2, <4>2
    <3>3. CASE seq = expected /\ expected >= seq
      <4>1. ~(seq > expected)
        BY <2>1, <2>4, <3>3
      <4>2. IF AtEnd(next) THEN Stop(next, b, "done") ELSE GoOn(next, b)
        <5>. HIDE DEF seq
        <5>. QED
          BY <1>2, <2>2a, <2>6, <3>3, <4>1 DEF Take, seq
      <4>. QED
        BY <3>3, <4>2
    <3>. QED
      BY <3>1, <3>2, <3>3
  <2>8. CASE seq > expected /\ CatchUp(reader, b, item, seq)
    BY <1>2, <2>6, <2>8, CatchUpKeeps
  <2>9. CASE expected >= seq /\ IF AtEnd(next) THEN Stop(next, b, "done") ELSE GoOn(next, b)
    <3>1. /\ reader \in Readers /\ seq \in Nat /\ seq <= Len(log) /\ seq >= 1
          /\ log \in Seq([by : {"here", "there"}, id : Nat])
      BY <1>2, <2>1, <2>2, Parts DEF SourceTypes
    <3>. HIDE DEF seq
    <3>2. /\ D \in Readers /\ D.start = reader.start /\ D.cursor = seq /\ D.acked = seq
          /\ D.counted = reader.counted /\ D.after = reader.after /\ D.base = reader.base
          /\ D.aligning = reader.aligning
          /\ reader.delivered \subseteq D.delivered
          /\ \A k \in seq..seq : log[k].id \in D.delivered
      BY <3>1, DeliverFields, Zenon
    <3>. HIDE DEF D
    <3>3. /\ next \in Readers /\ next.start = reader.start /\ next.cursor = seq
          /\ next.acked = seq /\ next.counted = reader.counted /\ next.after = reader.after
          /\ next.base = reader.base /\ next.delivered = D.delivered
          /\ next.provisional = 0 /\ ~next.aligning
      BY <3>2 DEF Readers
    <3>. HIDE DEF next
    <3>4. Miscounted \/ \A i \in (reader.start + 1)..seq : log[i].id \in D.delivered
      <4>. SUFFICES ASSUME ~Miscounted, NEW i \in (reader.start + 1)..seq
                    PROVE  log[i].id \in D.delivered
        OBVIOUS
      <4>1. CASE i <= c
        <5>1. i \in (reader.start + 1)..reader.cursor
          BY <2>3, <4>1
        <5>. QED
          BY <3>2, <5>1, Parts DEF DeliverySound
      <4>2. CASE i > c /\ i # seq
        <5>1. i \in (c + 1)..(seq - 1)
          BY <2>1, <2>3, <4>2
        <5>. QED
          BY <2>5, <2>9, <3>2, <5>1
      <4>3. CASE i = seq
        BY <2>1, <3>2, <4>3
      <4>. QED
        BY <2>3, <4>1, <4>2, <4>3
    <3>5. next.cursor = broker.seqOf[item] /\ next.acked <= next.cursor
          /\ next.after <= next.cursor /\ broker.seqOf[item] # 0
      BY <1>2, <2>1, <2>3, <2>4, <2>6, <3>3 DEF seq
    <3>. QED
      BY <2>9, <3>3, <3>4, <3>5, ReachKeeps
  <2>. QED
    BY <2>7, <2>8, <2>9
<1>. QED
  BY <1>1, <1>2

\* The broker when the reader has taken the head of its queue.
LEMMA QueueTaken ==
    ASSUME Limits, StreamInv, broker.sub.queue # <<>>, reader.phase = "live",
           NEW b, b = [broker EXCEPT !.sub.queue = Tail(@)]
    PROVE  /\ Same(b) /\ b.sub.queue = Tail(broker.sub.queue)
           /\ Head(broker.sub.queue) \in Int
           /\ broker.sub.replay => Head(broker.sub.queue) \in {Replay, Discard}
           /\ ~broker.sub.replay =>
                /\ Rest(b) /\ Following
                /\ Head(broker.sub.queue) \in 0..MaxEvents
                /\ Queued = EventsOf(b.sub.queue) \cup ({Head(broker.sub.queue)} \cap 1..MaxEvents)
                /\ Increasing(b.sub.queue)
                /\ Head(broker.sub.queue) > 0 =>
                      \A e \in EventsOf(b.sub.queue) : Head(broker.sub.queue) < e
<1>. DEFINE q == broker.sub.queue
            t == Tail(q)
<1>1. /\ broker \in Brokers /\ broker.sub \in Subscriptions /\ q \in Seq(Int)
      /\ created \in 0..MaxEvents /\ created \in Nat
  BY Parts DEF Brokers, Subscriptions, SourceTypes
<1>2. /\ Head(q) \in Int /\ Head(q) = q[1] /\ 1 \in DOMAIN q
      /\ t \in Seq(Int) /\ Len(t) = Len(q) - 1
      /\ \A i \in DOMAIN t : \E j \in DOMAIN q : t[i] = q[j]
      /\ EventsOf(q) = EventsOf(t) \cup ({Head(q)} \cap 1..MaxEvents)
      /\ Increasing(q) => Increasing(t)
      /\ Increasing(q) /\ Head(q) > 0 => \A e \in EventsOf(t) : Head(q) < e
  BY <1>1, HeadTaken
<1>3. b = [broker EXCEPT !.sub.queue = t]
  OBVIOUS
<1>4. Len(q) \in Nat /\ Len(q) <= QueueLimit
  BY <1>1, Parts DEF QueueSound
<1>5. Len(t) <= QueueLimit
  BY <1>2, <1>4 DEF Limits
<1>. HIDE DEF t
<1>6. /\ b \in Brokers /\ b.base = broker.base /\ b.buffer = broker.buffer
      /\ b.seqOf = broker.seqOf /\ b.replay = broker.replay /\ b.completed = broker.completed
      /\ b.sub.queue = t /\ b.sub.open = broker.sub.open /\ b.sub.replay = broker.sub.replay
      /\ b.sub.completed = broker.sub.completed
  <2>. DEFINE s == [broker.sub EXCEPT !.queue = t]
  <2>1. s \in Subscriptions /\ s.queue = t /\ s.open = broker.sub.open
        /\ s.replay = broker.sub.replay /\ s.completed = broker.sub.completed
    BY <1>1, <1>2 DEF Subscriptions
  <2>2. b = [broker EXCEPT !.sub = s]
    BY <1>3
  <2>. HIDE DEF s
  <2>. QED
    BY <1>1, <2>1, <2>2 DEF Brokers
<1>7. Same(b)
  BY <1>6 DEF Same
<1>8. ASSUME broker.sub.replay PROVE Head(q) \in {Replay, Discard}
  <2>1. q = <<Replay>> \/ q = <<Discard>>
    BY <1>8, Parts DEF QueueSound
  <2>. QED
    BY <2>1
<1>9. ASSUME ~broker.sub.replay
      PROVE  /\ Rest(b) /\ Following /\ Head(q) \in 0..MaxEvents /\ Increasing(q)
  <2>1. \A i \in DOMAIN q : q[i] \in 0..created
    BY <1>9, Parts DEF QueueSound
  <2>2. \A i \in DOMAIN t : t[i] \in 0..created
    BY <1>2, <2>1
  <2>3. Rest(b)
    BY <1>5, <1>6, <1>7, <1>9, <2>2 DEF Rest
  <2>4. Following
    BY <1>9, Parts DEF Following, QueueSound
  <2>5. Head(q) \in 0..MaxEvents
    <3>1. Head(q) \in 0..created
      BY <1>2, <2>1
    <3>. QED
      BY <1>1, <3>1 DEF Limits
  <2>6. Increasing(q)
    BY <2>4, Parts DEF FollowSound
  <2>. QED
    BY <2>3, <2>4, <2>5, <2>6
<1>10. Queued = EventsOf(q)
  BY DEF Queued
<1>11. b.sub.queue = Tail(broker.sub.queue)
  BY <1>6 DEF t
<1>. QED
  BY <1>2, <1>6, <1>7, <1>8, <1>9, <1>10, <1>11

\* A delta changes nothing that the stream counts.
LEMMA TextKeeps ==
    ASSUME Limits, StreamInv, UNCHANGED producerVars, NEW b, Rest(b), Following,
           EventsOf(b.sub.queue) = Queued, Increasing(b.sub.queue),
           reader.phase = "live", GoOn(reader, b)
    PROVE  StreamInv'
<1>1. /\ log' = log /\ failure' = failure /\ ended' = ended /\ created' = created
      /\ (Pure' <=> Pure) /\ \A e, i : IsHere(e, i)' <=> IsHere(e, i)
  BY SourceStays
<1>2. /\ reader' \in Readers /\ reader'.phase = "live" /\ reader'.start = reader.start
      /\ reader'.after = reader.after /\ reader'.cursor = reader.cursor
      /\ reader'.base = reader.base /\ reader'.aligning = reader.aligning
      /\ reader'.provisional = reader.provisional
      /\ reader'.acked = reader.acked /\ reader'.delivered = reader.delivered
      /\ reader'.counted = reader.counted
      /\ broker' = b /\ Buffered' = Buffered /\ Queued' = Queued /\ (Following' <=> Following)
      /\ Read' = Buffered \ EventsOf(b.sub.queue)
      /\ broker'.base = broker.base /\ broker'.replay = broker.replay
  BY Parts, Onward
<1>3. Read' = Read
  BY <1>2 DEF Read
<1>4. Ahead' = Ahead
  BY <1>1, <1>2, <1>3 DEF Ahead
<1>5. ReaderSound'
  BY <1>1, <1>2, Parts DEF ReaderSound
<1>6. FollowSound'
  BY <1>1, <1>2, <1>3, <1>4, Parts DEF FollowSound
<1>7. PureFollow'
  BY <1>1, <1>2, Parts DEF PureFollow, Stand
<1>8. PureSeen'
  BY <1>1, <1>2, Parts DEF PureSeen, Stand
<1>9. DeliverySound'
  BY <1>1, <1>2, Parts DEF DeliverySound, Miscounted
<1>10. Rest(broker')
  BY <1>2 DEF Rest, Same
<1>. QED
  BY <1>2, <1>5, <1>6, <1>7, <1>8, <1>9, <1>10, RestKeeps

\* An event without a number is held while the stream looks for its place.
LEMMA HoldKeeps ==
    ASSUME Limits, StreamInv, UNCHANGED producerVars, NEW b, Rest(b), NEW item \in 1..MaxEvents,
           Following, Reached(b, item), reader.phase = "live", reader.aligning,
           reader' = [reader EXCEPT !.phase = "held", !.held = item], broker' = b
    PROVE  StreamInv'
<1>1. /\ log' = log /\ failure' = failure /\ ended' = ended /\ created' = created
      /\ (Pure' <=> Pure)
  BY SourceStays
<1>2. /\ reader' \in Readers /\ reader'.phase = "held" /\ reader'.start = reader.start
      /\ reader'.held = item
      /\ reader'.after = reader.after /\ reader'.cursor = reader.cursor
      /\ reader'.base = reader.base /\ reader'.aligning
      /\ reader'.provisional = reader.provisional
      /\ reader'.acked = reader.acked /\ reader'.delivered = reader.delivered
      /\ reader'.counted = reader.counted
  <2>1. item \in Nat /\ "held" \in Phases /\ reader \in Readers
    BY Parts DEF Limits, Phases
  <2>2. reader' = [reader EXCEPT !.phase = "held", !.held = item]
    OBVIOUS
  <2>3. reader' \in Readers
    BY <2>1, <2>2 DEF Readers
  <2>. QED
    BY <2>1, <2>2, <2>3 DEF Readers
<1>3. /\ Buffered' = Buffered /\ Queued' = EventsOf(b.sub.queue)
      /\ broker'.base = broker.base /\ broker'.replay = broker.replay
  BY DEF Rest, Same, Buffered, Queued
<1>4. Read' = Buffered \ EventsOf(b.sub.queue)
  BY <1>3 DEF Read
<1>5. ReaderSound'
  BY <1>1, <1>2, Parts DEF ReaderSound
<1>6. FollowSound'
  BY <1>2, <1>3, <1>4, Parts DEF FollowSound, Reached
<1>7. PureFollow'
  BY <1>2 DEF PureFollow
<1>8. PureSeen'
  BY <1>1, <1>2, Parts DEF PureSeen, Stand
<1>9. DeliverySound'
  BY <1>1, <1>2, Parts DEF DeliverySound, Miscounted
<1>10. Rest(broker')
  BY DEF Rest, Same
<1>. QED
  BY <1>2, <1>5, <1>6, <1>7, <1>8, <1>9, <1>10, RestKeeps

\* The next item of the subscription.
LEMMA NextItemKeeps ==
    ASSUME Limits, StreamInv, NextItem
    PROVE  StreamInv'
<1>. DEFINE item == Head(broker.sub.queue)
            seq == broker.seqOf[item]
            b == [broker EXCEPT !.sub.queue = Tail(@)]
<1>1. /\ reader.phase = "live" /\ broker.sub.queue # <<>> /\ UNCHANGED producerVars
      /\ \/ item = Discard /\ FallBack(reader, b, 0)
         \/ item = Replay /\ FallBack(reader, b, reader.provisional)
         \/ item = Delta /\ GoOn(reader, b)
         \/ item > 0 /\ reader.aligning /\ seq = 0
            /\ reader' = [reader EXCEPT !.phase = "held", !.held = item] /\ broker' = b
         \/ item > 0 /\ reader.aligning /\ seq # 0 /\ Align(reader, b, item, seq)
         \/ item > 0 /\ ~reader.aligning /\ Take(reader, b, item, seq)
         \/ item \notin {Discard, Replay, Delta} /\ ~(item > 0)
  BY DEF NextItem
<1>. HIDE DEF b, seq
<1>2. b = [broker EXCEPT !.sub.queue = Tail(@)]
  BY DEF b
<1>3. /\ Same(b) /\ item \in Int
      /\ broker.sub.replay => item \in {Replay, Discard}
      /\ ~broker.sub.replay =>
           /\ Rest(b) /\ Following /\ item \in 0..MaxEvents
           /\ Queued = EventsOf(b.sub.queue) \cup ({item} \cap 1..MaxEvents)
           /\ Increasing(b.sub.queue)
           /\ item > 0 => \A e \in EventsOf(b.sub.queue) : item < e
  BY <1>1, <1>2, QueueTaken
<1>. HIDE DEF item
<1>4. CASE item = Discard /\ FallBack(reader, b, 0)
  BY <1>1, <1>3, <1>4, FallBackKeeps
<1>5. CASE item = Replay /\ FallBack(reader, b, reader.provisional)
  BY <1>1, <1>3, <1>5, FallBackKeeps
<1>6. CASE item = Delta /\ GoOn(reader, b)
  <2>1. ~broker.sub.replay
    BY <1>3, <1>6 DEF Delta, Replay, Discard
  <2>2. EventsOf(b.sub.queue) = Queued
    BY <1>3, <1>6, <2>1 DEF Delta
  <2>. QED
    BY <1>1, <1>3, <1>6, <2>1, <2>2, TextKeeps
<1>7. ASSUME item > 0
      PROVE  /\ Rest(b) /\ Following /\ item \in 1..MaxEvents /\ Reached(b, item)
             /\ Queued = EventsOf(b.sub.queue) \cup {item}
  <2>1. ~broker.sub.replay
    BY <1>3, <1>7 DEF Replay, Discard
  <2>2. item \in 1..MaxEvents
    BY <1>3, <1>7, <2>1 DEF Limits
  <2>3. Queued = EventsOf(b.sub.queue) \cup {item} /\ Following
    BY <1>3, <2>1, <2>2
  <2>4. Queued \subseteq Buffered /\ \A e \in Read, f \in Queued : e < f
    BY <2>3, Parts DEF FollowSound
  <2>5. /\ Increasing(b.sub.queue) /\ \A e \in EventsOf(b.sub.queue) : item < e
    BY <1>3, <1>7, <2>1
  <2>6. item \notin EventsOf(b.sub.queue)
    BY <1>3, <2>5
  <2>7. \A e \in Buffered \ EventsOf(b.sub.queue) : e = item \/ e \in Read
    BY <2>3 DEF Read
  <2>8. \A e \in Read : e < item /\ e \in Int
    BY <2>3, <2>4 DEF Read, Buffered, EventsOf
  <2>9. \A e \in Buffered \ EventsOf(b.sub.queue) : e <= item
    BY <1>3, <2>7, <2>8
  <2>10. \A e \in Buffered \ EventsOf(b.sub.queue), f \in EventsOf(b.sub.queue) : e < f
    BY <2>3, <2>4, <2>5, <2>7
  <2>11. Reached(b, item)
    BY <2>3, <2>4, <2>5, <2>6, <2>9, <2>10 DEF Reached
  <2>. QED
    BY <1>3, <2>1, <2>2, <2>3, <2>11
<1>8. CASE item > 0 /\ reader.aligning /\ seq = 0
           /\ reader' = [reader EXCEPT !.phase = "held", !.held = item] /\ broker' = b
  BY <1>1, <1>7, <1>8, HoldKeeps
<1>9. CASE item > 0 /\ reader.aligning /\ seq # 0 /\ Align(reader, b, item, seq)
  BY <1>1, <1>7, <1>9, AlignKeeps DEF seq
<1>10. CASE item > 0 /\ ~reader.aligning /\ Take(reader, b, item, seq)
  BY <1>1, <1>7, <1>10, TakeKeeps DEF seq
<1>11. ~(item \notin {Discard, Replay, Delta} /\ ~(item > 0))
  BY <1>3 DEF Delta
<1>. QED
  BY <1>1, <1>4, <1>5, <1>6, <1>8, <1>9, <1>10, <1>11

\* A held event gets its number, or the producer gives up.
LEMMA HeldKeeps ==
    ASSUME Limits, StreamInv, Held
    PROVE  StreamInv'
<1>. DEFINE r == [reader EXCEPT !.held = 0]
<1>1. /\ reader.phase = "held" /\ UNCHANGED producerVars
      /\ \/ broker.seqOf[reader.held] # 0
            /\ Align(r, broker, reader.held, broker.seqOf[reader.held])
         \/ FallBack(r, broker, 0)
  BY DEF Held
<1>2. reader.aligning /\ reader.held \in 1..MaxEvents
  BY <1>1, Parts DEF ReaderSound
<1>3. Same(broker) /\ Rest(broker)
  <2>1. Same(broker)
    BY Parts DEF Same
  <2>. QED
    BY <2>1, Parts DEF Rest, QueueSound
<1>4. Reached(broker, reader.held)
  BY <1>1, Parts DEF Reached, FollowSound, Queued, Read
<1>. DEFINE b == broker
            item == reader.held
<1>5. CASE broker.seqOf[reader.held] # 0 /\ Align(r, broker, reader.held, broker.seqOf[reader.held])
  BY <1>1, <1>2, <1>3, <1>4, <1>5, AlignKeeps
<1>6. CASE FallBack(r, broker, 0)
  BY <1>1, <1>3, <1>6, FallBackKeeps
<1>. QED
  BY <1>1, <1>5, <1>6

-----------------------------------------------------------------------------
(* The invariant. *)

\* At first there is nothing but a past.
LEMMA InitSound ==
    ASSUME Limits, Init
    PROVE  StreamInv
<1>1. /\ log \in {<<>>, <<Event("there", 1)>>} /\ ended = FALSE /\ failure = FALSE
      /\ worker = [stage |-> "none", count |-> 0, extra |-> 0, last |-> 0, end |-> FALSE]
      /\ tail = <<>>
      /\ broker = [base |-> -1, buffer |-> <<>>, seqOf |-> [e \in 1..MaxEvents |-> 0],
                   replay |-> FALSE, completed |-> FALSE, prepared |-> FALSE, sub |-> Closed]
      /\ reader = [phase |-> "idle", connections |-> 0, start |-> 0, after |-> 0,
                   cursor |-> 0, base |-> 0, aligning |-> FALSE, held |-> 0,
                   provisional |-> 0, skip |-> 0, late |-> FALSE,
                   acked |-> 0, delivered |-> {}, counted |-> FALSE]
      /\ created = Len(log)
  BY DEF Init
<1>2. /\ log \in Seq([by : {"here", "there"}, id : Nat])
      /\ Len(log) \in {0, 1} /\ \A i \in DOMAIN log : i = 1 /\ log[i].id = 1 /\ Len(log) = 1
  <2>1. CASE log = <<>>
    BY <2>1
  <2>2. CASE log = <<Event("there", 1)>>
    <3>. DEFINE e == Event("there", 1)
    <3>1. e \in [by : {"here", "there"}, id : Nat] /\ e.id = 1
      BY DEF Event
    <3>. HIDE DEF e
    <3>. QED
      BY <2>2, <3>1 DEF e
  <2>. QED
    BY <1>1, <2>1, <2>2
<1>3. SourceTypes
  <2>1. created \in 0..MaxEvents
    BY <1>1, <1>2 DEF Limits
  <2>2. worker \in Workers
    BY <1>1 DEF Workers, Stages
  <2>3. tail \in Seq(Nat)
    BY <1>1
  <2>. QED
    BY <1>1, <1>2, <2>1, <2>2, <2>3 DEF SourceTypes
<1>4. broker \in Brokers
  <2>1. Closed \in Subscriptions
    BY DEF Closed, Subscriptions
  <2>2. [e \in 1..MaxEvents |-> 0] \in [1..MaxEvents -> Nat]
    OBVIOUS
  <2>. QED
    BY <1>1, <2>1, <2>2 DEF Brokers
<1>5. reader \in Readers
  BY <1>1 DEF Readers, Phases
<1>6. worker.stage = "none" /\ tail = <<>> /\ DOMAIN tail = {} /\ Len(tail) = 0
  BY <1>1
<1>7. /\ broker.base = -1 /\ broker.buffer = <<>> /\ ~broker.replay /\ ~broker.completed
      /\ broker.sub.open = FALSE /\ broker.sub.queue = <<>> /\ broker.sub.replay = FALSE
      /\ broker.sub.completed = FALSE
      /\ broker.seqOf = [e \in 1..MaxEvents |-> 0]
  BY <1>1 DEF Closed
<1>8. /\ reader.phase = "idle" /\ reader.acked = 0 /\ reader.cursor = 0 /\ reader.start = 0
  BY <1>1
<1>9. SourceSound
  <2>1. LogSound
    BY <1>1, <1>2 DEF LogSound
  <2>2. TailSound /\ CommitSound
    BY <1>6 DEF TailSound, CommitSound, Working, Committed
  <2>3. Counted
    <3>1. created = Len(log) + 0
      BY <1>1, <1>2
    <3>. QED
      BY <1>1, <1>2, <1>6, <3>1 DEF Counted, Committed
  <2>4. EndSound
    BY <1>1 DEF EndSound
  <2>. QED
    BY <2>1, <2>2, <2>3, <2>4 DEF SourceSound
<1>10. BrokerSound
  <2>1. Numbered
    BY <1>7 DEF Numbered
  <2>2. /\ Buffered = {} /\ Increasing(broker.buffer) /\ Len(broker.buffer) <= QueueLimit
        /\ DOMAIN broker.buffer = {}
    BY <1>7 DEF Buffered, EventsOf, Increasing, Limits
  <2>3. BufferSound
    BY <1>2, <1>6, <1>7, <2>2 DEF BufferSound, Committed
  <2>4. OpenSound
    BY <1>6 DEF OpenSound, Working
  <2>5. PureBuffer
    BY <1>6, <2>2 DEF PureBuffer, Working
  <2>6. CompletionSound
    BY <1>6, <1>7 DEF CompletionSound, Working
  <2>. QED
    BY <2>1, <2>3, <2>4, <2>5, <2>6 DEF BrokerSound
<1>11. ReaderInv
  <2>1. QueueSound
    BY <1>7, <1>8 DEF QueueSound, Limits
  <2>2. ReaderSound
    BY <1>2, <1>8 DEF ReaderSound
  <2>3. FollowSound /\ PureFollow
    BY <1>7 DEF FollowSound, PureFollow, Following
  <2>4. PureSeen
    BY <1>8 DEF PureSeen
  <2>5. DeliverySound
    BY <1>8 DEF DeliverySound
  <2>. QED
    BY <2>1, <2>2, <2>3, <2>4, <2>5 DEF ReaderInv
<1>. QED
  BY <1>3, <1>4, <1>5, <1>9, <1>10, <1>11, TypesParts DEF StreamInv

\* Nothing happens to a stream that nobody touches.
LEMMA StutterKeeps ==
    ASSUME StreamInv, UNCHANGED vars
    PROVE  StreamInv'
<1>1. UNCHANGED producerVars /\ broker' = broker /\ reader' = reader
  BY DEF vars, producerVars, sourceVars
<1>2. /\ log' = log /\ ended' = ended /\ created' = created /\ worker' = worker
      /\ tail' = tail /\ failure' = failure
  BY <1>1, SourceStays
<1>3. broker' \in Brokers /\ reader' \in Readers
  BY <1>1, Parts
<1>4. BrokerSound'
  BY <1>1, <1>2, Parts DEF BrokerSound, Numbered, BufferSound, OpenSound, PureBuffer,
     CompletionSound, Buffered, IsHere, Later, Committed, Working, From, Own, Top, Pure
<1>5. QueueSound' /\ ReaderSound' /\ PureSeen' /\ DeliverySound'
  BY <1>1, <1>2, Parts DEF QueueSound, ReaderSound, PureSeen, DeliverySound, Miscounted, Stand, Pure
<1>6. FollowSound' /\ PureFollow'
  BY <1>1, <1>2, Parts DEF FollowSound, PureFollow, Following, Queued, Read, Buffered, Ahead,
     IsHere, Stand, Pure
<1>. QED
  BY <1>1, <1>3, <1>4, <1>5, <1>6, ReaderStep DEF ReaderInv

\* Every step keeps the invariant.
LEMMA NextKeeps ==
    ASSUME Limits, StreamInv, Next
    PROVE  StreamInv' \/ StraySound'
<1>1. CASE \E early \in BOOLEAN : Register(early)
  BY <1>1, RegisterKeeps
<1>2. CASE AppendEvent
  BY <1>2, AppendKeeps
<1>3. CASE StreamDelta
  BY <1>3, DeltaKeeps
<1>4. CASE Promote \/ \E end \in BOOLEAN : Checkpoint(end)
  BY <1>4, CommitKeeps
<1>5. CASE Acknowledge
  BY <1>5, AcknowledgeKeeps
<1>6. CASE \E published \in BOOLEAN : ReadBack(published)
  BY <1>6, ReadBackKeeps
<1>7. CASE WorkerFails
  BY <1>7, FailKeeps
<1>8. CASE LoseClaim
  BY <1>8, LoseKeeps
<1>9. CASE \E end, taken \in BOOLEAN : CommitElsewhere(end, taken)
  BY <1>9, ElsewhereKeeps
<1>10. CASE \E after \in 0..MaxEvents : Connect(after)
  BY <1>10, ConnectKeeps
<1>11. CASE Prefix
  BY <1>11, PrefixKeeps
<1>12. CASE NextItem
  BY <1>12, NextItemKeeps
<1>13. CASE Held
  BY <1>13, HeldKeeps
<1>14. CASE LiveEnds
  BY <1>14, LiveEndsKeeps
<1>15. CASE Settle
  BY <1>15, SettleKeeps
<1>16. CASE Page
  BY <1>16, PageKeeps
<1>17. CASE Status
  BY <1>17, StatusKeeps
<1>18. CASE Disconnect
  BY <1>18, DisconnectKeeps
<1>19. CASE WorkerLeaves
  BY <1>19, LeaveKeeps
<1>. QED
  BY <1>1, <1>2, <1>3, <1>4, <1>5, <1>6, <1>7, <1>8, <1>9, <1>10, <1>11, <1>12, <1>13, <1>14,
     <1>15, <1>16, <1>17, <1>18, <1>19 DEF Next

\* Whatever the reader takes from its queue, the broker keeps its numbers.
LEMMA StrayItem ==
    ASSUME broker \in Brokers, NextItem
    PROVE  UNCHANGED producerVars /\ broker' \in Brokers /\ broker'.seqOf = broker.seqOf
<1>. DEFINE b == [broker EXCEPT !.sub.queue = Tail(@)]
            item == Head(broker.sub.queue)
            seq == broker.seqOf[item]
<1>1. broker.sub.queue # <<>> /\ broker.sub \in Subscriptions
  BY DEF NextItem, Brokers
<1>2. b \in Brokers /\ b.seqOf = broker.seqOf
  <2>1. Tail(broker.sub.queue) \in Seq(Int)
    BY <1>1 DEF Subscriptions
  <2>2. [broker.sub EXCEPT !.queue = Tail(@)] \in Subscriptions
    BY <1>1, <2>1 DEF Subscriptions
  <2>3. b = [broker EXCEPT !.sub = [broker.sub EXCEPT !.queue = Tail(@)]]
    OBVIOUS
  <2>. QED
    BY <2>2, <2>3 DEF Brokers
<1>3. Close(b) \in Brokers /\ Close(b).seqOf = broker.seqOf
  <2>. HIDE DEF b
  <2>. QED
    BY <1>2, CloseFields
<1>4. broker' \in {b, Close(b)} /\ UNCHANGED producerVars
  <2>1. UNCHANGED producerVars
    BY DEF NextItem
  <2>2. \/ FallBack(reader, b, 0) \/ FallBack(reader, b, reader.provisional) \/ GoOn(reader, b)
        \/ broker' = b \/ Align(reader, b, item, seq) \/ Take(reader, b, item, seq)
    BY Zenon DEF NextItem
  <2>. QED
    BY <2>1, <2>2 DEF FallBack, GoOn, Stop, Align, Take, CatchUp
<1>. QED
  BY <1>2, <1>3, <1>4

\* Nothing is done about a stray event: what the reader does to the broker
\* leaves the numbers alone.
LEMMA StrayKeeps ==
    ASSUME StraySound, [Next]_vars
    PROVE  StraySound'
<1>1. ended /\ worker.stage = "over" /\ broker \in Brokers
  BY DEF StraySound
<1>2. CASE UNCHANGED vars
  BY <1>2 DEF StraySound, Strayed, vars
<1>3. ASSUME Next PROVE UNCHANGED producerVars /\ broker' \in Brokers /\ broker'.seqOf = broker.seqOf
  <2>1. /\ Subscribe(broker) \in Brokers /\ Subscribe(broker).seqOf = broker.seqOf
        /\ Close(broker) \in Brokers /\ Close(broker).seqOf = broker.seqOf
    BY <1>1, SubscribeFields, CloseFields
  <2>2. CASE \E after \in 0..MaxEvents : Connect(after)
    BY <1>1, <2>1, <2>2 DEF Connect, Attach
  <2>3. CASE Prefix
    BY <1>1, <2>3 DEF Prefix
  <2>4. CASE NextItem
    BY <1>1, <2>4, StrayItem
  <2>5. CASE Held
    BY <1>1, <2>1, <2>5 DEF Held, Align, CatchUp, GoOn, Stop, FallBack
  <2>6. CASE LiveEnds
    BY <1>1, <2>1, <2>6 DEF LiveEnds, Stop
  <2>7. CASE Settle
    BY <1>1, <2>7 DEF Settle
  <2>8. CASE Page
    BY <1>1, <2>8 DEF Page
  <2>9. CASE Status
    BY <1>1, <2>1, <2>9 DEF Status, Attach
  <2>10. CASE Disconnect
    BY <1>1, <2>1, <2>10 DEF Disconnect, Stop
  <2>. QED
    BY <1>1, <1>3, <2>2, <2>3, <2>4, <2>5, <2>6, <2>7, <2>8, <2>9, <2>10
       DEF Next, Register, AppendEvent, StreamDelta, Promote, Checkpoint, Land, Acknowledge, ReadBack,
           Working, WorkerLeaves, WorkerFails, LoseClaim, CommitElsewhere
<1>4. CASE Next
  <2>1. log' = log /\ ended' = ended /\ worker' = worker
    BY <1>3, <1>4 DEF producerVars, sourceVars
  <2>. QED
    BY <1>1, <1>3, <1>4, <2>1 DEF StraySound, Strayed
<1>. QED
  BY <1>2, <1>4

\* What the properties say is part of the invariant.
LEMMA StreamSays ==
    ASSUME StreamInv
    PROVE  EventsInv
<1>1. TypeOK
  <2>1. \A i \in DOMAIN log : log[i] \in [by : {"here", "there"}, id : Nat]
    BY Parts, ElementOfSeq, LogCounted DEF SourceTypes
  <2>2. \A i \in DOMAIN log : log[i].id \in 1..created /\ log[i].by \in {"here", "there"}
    BY <2>1, Parts DEF LogSound
  <2>. QED
    BY <2>2, Parts DEF TypeOK, BufferSound, QueueSound, ReaderSound
<1>2. Woken
  BY Parts DEF Woken, QueueSound, CompletionSound
<1>3. reader.phase = "unfinished" => worker.stage = "left"
  BY Parts DEF ReaderSound
<1>4. ASSUME ~Miscounted PROVE AtLeastOnce /\ NeverMistaken
  <2>1. /\ \A i \in (reader.start + 1)..reader.cursor : log[i].id \in reader.delivered
        /\ reader.phase # "corrupt"
    BY <1>4, Parts DEF DeliverySound
  <2>2. \A i \in (reader.start + 1)..reader.acked : i \in (reader.start + 1)..reader.cursor
    BY LogCounted
  <2>3. reader.phase = "done" => reader.cursor = Len(log)
    BY Parts DEF ReaderSound
  <2>. QED
    BY <1>3, <2>1, <2>2, <2>3 DEF AtLeastOnce, NeverMistaken
<1>. QED
  BY <1>1, <1>2, <1>4 DEF EventsInv

\* A stream delivers every durable event at least once and takes no record for
\* damage, whatever overflows, fails or is taken over, unless it went by its
\* count in a log that another runtime has written to; and one that follows a
\* producer that is gone has something to read.  The proof ends where the old
\* worker publishes what the new one wrote.
THEOREM StreamSafety ==
    ASSUME Limits
    PROVE  Spec => [](Strayed \/ EventsInv)
<1>1. Init => StreamInv \/ StraySound
  BY InitSound
<1>2. (StreamInv \/ StraySound) /\ [Next]_vars => (StreamInv \/ StraySound)'
  BY NextKeeps, StutterKeeps, StrayKeeps
<1>3. StreamInv \/ StraySound => Strayed \/ EventsInv
  BY StreamSays DEF StraySound
<1>. QED
  BY <1>1, <1>2, <1>3, PTL DEF Spec
=============================================================================
