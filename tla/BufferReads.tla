----------------------------- MODULE BufferReads -----------------------------
(***************************************************************************)
(* The read side of StorageBuffer with its StorageReadCache                *)
(* (storage/_write_cache.py), for one key and with read_pending.  A read   *)
(* takes the pending value, or the hot bytes of a lossy cache if their     *)
(* capture is young enough and no mutation of this owner came after it, or *)
(* loads the source and publishes what it found.  Meanwhile the owner's    *)
(* batches are written, and others may write the source directly.          *)
(* Values are numbered in the order in which they are written or accepted. *)
(* The uuid of a generation is only compared with the registered one, so   *)
(* its holders know whether theirs is that one (mine).                     *)
(***************************************************************************)
EXTENDS Integers

CONSTANTS
    Readers,   \* concurrent calls of get
    MaxAge,    \* max_age_seconds
    NoReader,  \* nobody holds the lock of the cache
    MaxClock,  \* bound: the wall clock
    MaxValues  \* bound: values written

VARIABLES
    clock,     \* time()
    last,      \* the number of the newest value
    own,       \* the newest value this buffer accepted, 0 if none
    stored,    \* the value in the source
    replaced,  \* value -> the time at which the source lost it, or -1
    pending,   \* the accepted value that is not settled, 0 if there is none
    writing,   \* the batch at the source: its value, 0 if none; and whether it landed
    failed,    \* _failure is set
    mutation,  \* state.mutation
    current,   \* _generations[key]: the time up to which it is invalid, Unregistered
               \* if the key has none
    cleared,   \* _cleared_at
    hot,       \* what the cache holds for the key
    lock,      \* the reader that publishes under _lock
    reads      \* reader -> its step, what it captured, and when it took its value

cacheVars == <<current, cleared, hot, lock>>
writeVars == <<last, own, stored, replaced, pending, writing, failed, mutation>>
vars == <<clock, writeVars, cacheVars, reads>>

NoTime == -1
Unregistered == -2
NoBytes == [value |-> 0, captured |-> NoTime, mine |-> FALSE]
NoRead == [step |-> "idle", mutation |-> 0, mine |-> FALSE,
           captured |-> NoTime, value |-> 0, floor |-> 0, at |-> NoTime]

Init ==
    /\ clock = 0
    /\ last = 1 /\ own = 0 /\ stored = 1 /\ pending = 0
    /\ replaced = [v \in 1..MaxValues |-> NoTime]
    /\ writing = [value |-> 0, landed |-> FALSE]
    /\ failed = FALSE
    /\ mutation = 0
    /\ current = Unregistered /\ cleared = NoTime
    /\ hot = NoBytes
    /\ lock = NoReader
    /\ reads = [r \in Readers |-> NoRead]

Tick ==
    /\ clock < MaxClock
    /\ clock' = clock + 1
    /\ UNCHANGED <<writeVars, cacheVars, reads>>

\* _generation with replace, or an eviction: whoever holds the old generation
\* holds a stale one.
Forgotten(h) == [h EXCEPT !.mine = FALSE]
Outdated == [r \in Readers |-> Forgotten(reads[r])]

-----------------------------------------------------------------------------
(* Writes. *)

Store(v) ==
    /\ stored' = v
    /\ replaced' = [replaced EXCEPT ![stored] = clock]

\* enqueue: the admitted value overlays the source at once.
Enqueue ==
    /\ last < MaxValues /\ ~failed
    /\ last' = last + 1
    /\ own' = last + 1
    /\ pending' = last + 1
    /\ mutation' = mutation + 1
    /\ UNCHANGED <<clock, stored, replaced, writing, failed, cacheVars, reads>>

\* Somebody else writes the source.
WriteElsewhere ==
    /\ last < MaxValues
    /\ last' = last + 1
    /\ Store(last + 1)
    /\ UNCHANGED <<clock, own, pending, writing, failed, mutation, cacheVars, reads>>

\* _consume_batch: the newest value is sent to the source,
BeginBatch ==
    /\ pending # 0 /\ writing.value = 0 /\ ~failed
    /\ writing' = [value |-> pending, landed |-> FALSE]
    /\ UNCHANGED <<clock, last, own, stored, replaced, pending, failed, mutation, cacheVars, reads>>

\* lands there,
LandBatch ==
    /\ writing.value # 0 /\ ~writing.landed
    /\ writing' = [writing EXCEPT !.landed = TRUE]
    /\ Store(writing.value)
    /\ UNCHANGED <<clock, last, own, pending, failed, mutation, cacheVars, reads>>

\* and whether or not that is known to have succeeded, the hot value is
\* invalidated and the key mutated before the pending value goes.
EndBatch ==
    /\ writing.value # 0
    /\ failed' \in {failed, TRUE} /\ (~writing.landed => failed')
    /\ current' = clock /\ hot' = Forgotten(hot) /\ reads' = Outdated
    /\ mutation' = mutation + 1
    /\ pending' = IF pending = writing.value THEN 0 ELSE pending
    /\ writing' = [value |-> 0, landed |-> FALSE]
    /\ UNCHANGED <<clock, last, own, stored, replaced, cleared, lock>>

-----------------------------------------------------------------------------
(* Reads. *)

Set(r, s) == reads' = [reads EXCEPT ![r] = s]

\* One round of _get_owned: the pending value answers at once; otherwise the
\* round notes the mutation and the generation; a failed buffer asks the source.
Round(r, floor) ==
    IF pending # 0 /\ ~failed
    THEN Set(r, NoRead) /\ UNCHANGED current
    ELSE /\ current' = IF current = Unregistered THEN NoTime ELSE current
         /\ Set(r, [NoRead EXCEPT !.step = IF failed THEN "source" ELSE "hot",
                                  !.floor = floor, !.mutation = mutation, !.mine = TRUE])

Get(r) ==
    /\ reads[r].step = "idle"
    /\ Round(r, own)
    /\ UNCHANGED <<clock, writeVars, cleared, hot, lock>>

\* As Decode, but the deadline includes its end.
DecodeAtDeadline ==
    /\ hot # NoBytes
    /\ hot.captured <= clock /\ clock <= hot.captured + MaxAge
    /\ hot.captured <= current \/ hot.captured <= cleared => hot.mine

\* _decode: young enough, and not captured before a mutation this owner knows
\* of, unless by the generation that replaced it.
Decode ==
    /\ hot # NoBytes
    /\ hot.captured <= clock /\ clock < hot.captured + MaxAge
    /\ hot.captured <= current \/ hot.captured <= cleared => hot.mine

\* StorageReadCache.get: a hit, or a new generation and a load of the source.
ReadHot(r) ==
    /\ reads[r].step = "hot" /\ lock = NoReader
    /\ \/ /\ reads[r].mine /\ Decode
          /\ Set(r, [reads[r] EXCEPT !.step = "check", !.value = hot.value, !.at = clock])
          /\ UNCHANGED <<current, hot>>
       \/ /\ reads[r].mine /\ ~Decode
          /\ current' = clock /\ hot' = Forgotten(hot)
          /\ reads' = [Outdated EXCEPT ![r] =
                [reads[r] EXCEPT !.step = "load", !.captured = clock]]
       \/ /\ ~reads[r].mine
          /\ Set(r, [reads[r] EXCEPT !.step = "load", !.captured = clock])
          /\ UNCHANGED <<current, hot>>
    /\ UNCHANGED <<clock, writeVars, cleared, lock>>

Load(r) ==
    /\ reads[r].step \in {"load", "source"}
    /\ Set(r, [reads[r] EXCEPT !.step = IF @ = "load" THEN "publish" ELSE "check",
                               !.value = stored, !.at = clock])
    /\ UNCHANGED <<clock, writeVars, cacheVars>>

\* As Publish, but the bytes go out under the generation of the moment.
PublishAsCurrent(r) ==
    /\ reads[r].step = "publish" /\ lock = NoReader
    /\ Set(r, [reads[r] EXCEPT !.step = "put", !.mine = current # Unregistered])
    /\ lock' = r
    /\ UNCHANGED <<clock, writeVars, current, cleared, hot>>

\* _publish: not if a later generation superseded this one, or if too old.
Publish(r) ==
    /\ reads[r].step = "publish" /\ lock = NoReader
    /\ IF reads[r].mine /\ clock < reads[r].captured + MaxAge
       THEN Set(r, [reads[r] EXCEPT !.step = "put"]) /\ lock' = r
       ELSE Set(r, [reads[r] EXCEPT !.step = "check"]) /\ UNCHANGED lock
    /\ UNCHANGED <<clock, writeVars, current, cleared, hot>>

\* The put lands, perhaps after a mutation, or is lost.
Put(r) ==
    /\ reads[r].step = "put"
    /\ hot' \in {hot, [value |-> reads[r].value, captured |-> reads[r].captured,
                       mine |-> reads[r].mine]}
    /\ lock' = NoReader
    /\ Set(r, [reads[r] EXCEPT !.step = "check"])
    /\ UNCHANGED <<clock, writeVars, current, cleared>>

\* The read answers if no mutation came in between, or starts over.
Check(r) ==
    /\ reads[r].step = "check"
    /\ \/ /\ mutation = reads[r].mutation
          /\ Set(r, NoRead)
          /\ UNCHANGED current
       \/ /\ mutation # reads[r].mutation
          /\ Round(r, reads[r].floor)
    /\ UNCHANGED <<clock, writeVars, cleared, hot, lock>>

\* The cache drops the bytes; the index of generations drops the key, keeping
\* its barrier for all keys.
EvictHot ==
    /\ hot # NoBytes
    /\ hot' = NoBytes
    /\ UNCHANGED <<clock, writeVars, current, cleared, lock, reads>>

EvictGeneration ==
    /\ current # Unregistered
    /\ current' = Unregistered /\ hot' = Forgotten(hot) /\ reads' = Outdated
    /\ cleared' = IF current > cleared THEN current ELSE cleared
    /\ UNCHANGED <<clock, writeVars, lock>>

Next ==
    \/ Tick \/ Enqueue \/ WriteElsewhere \/ BeginBatch \/ LandBatch \/ EndBatch
    \/ EvictHot \/ EvictGeneration
    \/ \E r \in Readers :
          Get(r) \/ ReadHot(r) \/ Load(r) \/ Publish(r) \/ Put(r) \/ Check(r)

Spec == Init /\ [][Next]_vars

-----------------------------------------------------------------------------
(* Properties. *)

\* What the variables hold; a stale generation or step would show here.
TypeOK ==
    /\ clock \in 0..MaxClock
    /\ last \in 1..MaxValues /\ stored \in 1..last /\ own \in 0..last
    /\ pending \in {0, own} /\ writing.value \in 0..own
    /\ failed \in BOOLEAN /\ mutation \in Nat
    /\ current <= clock /\ cleared <= clock
    /\ current = Unregistered => ~hot.mine /\ \A r \in Readers : ~reads[r].mine
    /\ hot.captured <= clock
    /\ lock \in {NoReader} \cup {r \in Readers : reads[r].step = "put"}
    /\ \A r \in Readers : reads[r].step = "put" => lock = r

\* What a read in this state returns is the value it took.
Answers(r) == reads[r].step = "check" /\ mutation = reads[r].mutation

\* A read never returns a value older than what its owner had accepted, or
\* written, when the read began: neither a slow load that publishes after a
\* mutation, nor a lost barrier, brings an old value back.  Values that others
\* wrote in the meantime are newer, a failed buffer promises nothing.
ReadsOwnWrites ==
    \A r \in Readers : Answers(r) /\ ~failed => reads[r].value >= reads[r].floor

\* Reads see their owner's writes, and one reader at a time publishes.
ReadsInv == TypeOK /\ ReadsOwnWrites

\* A value that is not the buffer's own pending one was the value of the
\* source less than MaxAge before the read decided, however late it was
\* published and whoever wrote the source since.
BoundedStaleness ==
    \A r \in Readers :
        Answers(r) =>
            LET lost == replaced[reads[r].value]
            IN lost = NoTime \/ lost > reads[r].at - MaxAge

=============================================================================
