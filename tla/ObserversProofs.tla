--------------------------- MODULE ObserversProofs ---------------------------
(***************************************************************************)
(* Proofs about what readers see of work that goes on: reads through the   *)
(* write buffer (BufferReads), turns of a session before they are durable  *)
(* (PendingTurn) and observers of the session beside them                  *)
(* (SessionObserver).                                                      *)
(***************************************************************************)
EXTENDS MCObservers, TLAPS

-----------------------------------------------------------------------------
(***************************************************************************)
(* Reads through the write buffer.  A value is as good as what the owner   *)
(* has accepted if it was loaded after the last batch of the owner ended.  *)
(* The cache cannot tell that from the value: it compares the capture time *)
(* with the two barriers, or the generation.  The inductive invariant says *)
(* that this comparison is right (Fresh) for the cached bytes and for      *)
(* every reader that may still put some.                                   *)
(***************************************************************************)

Steps == {"idle", "hot", "load", "source", "publish", "put", "check"}

\* What a reader holds, and the cache.
ReadRecord == [step : Steps, mutation : Nat, mine : BOOLEAN, captured : Int,
               value : 0..MaxValues, floor : 0..MaxValues, at : Int]
HotRecord == [value : 0..MaxValues, captured : Int, mine : BOOLEAN]

ReadTypes ==
    /\ clock \in Nat /\ clock <= MaxClock
    /\ last \in 1..MaxValues /\ stored \in 1..last /\ own \in 0..last /\ accepted \in {0, own}
    /\ writing \in [value : 0..MaxValues, landed : BOOLEAN]
    /\ failed \in BOOLEAN
    /\ mutation \in Nat
    /\ current \in Int /\ -2 <= current /\ current <= clock
    /\ cleared \in Int /\ -1 <= cleared /\ cleared <= clock
    /\ replaced \in [1..MaxValues -> Int]
    /\ hot \in HotRecord
    /\ reads \in [Readers -> ReadRecord]
    /\ lock \in Readers \cup {NoReader}

\* Everything the owner accepted has reached the source.
AllWritten == ~failed /\ accepted = 0

\* A value on its way to the source has never been there.
Unwritten(v) ==
    \/ v > last
    \/ accepted = v /\ writing.value # v
    \/ writing.value = v /\ ~writing.landed

Batches ==
    /\ writing.value <= own
    /\ accepted = 0 => writing.value = 0
    /\ writing.value # 0 /\ writing.landed => stored >= writing.value
    /\ AllWritten => stored >= own
    /\ replaced[stored] = -1
    /\ \A v \in 1..MaxValues : Unwritten(v) => replaced[v] = -1 /\ stored # v

\* What Decode accepts: bytes of the registered generation, or captured after
\* both barriers.
Fresh(h) == h.mine \/ (h.captured > current /\ h.captured > cleared)

\* The source had v at time t or later.
HeldAt(v, t) == replaced[v] = -1 \/ replaced[v] >= t

HotOK ==
    /\ hot.captured <= clock
    /\ current = -2 => ~hot.mine
    /\ hot.value = 0 => hot = Reads!NoBytes
    /\ hot.value # 0 => HeldAt(hot.value, hot.captured)
    /\ Fresh(hot) /\ AllWritten => hot.value >= own

Undisturbed(d) == mutation = d.mutation /\ ~failed

ReaderOK(d) ==
    /\ d.mutation <= mutation /\ d.floor <= own /\ d.captured <= clock /\ d.at <= clock
    /\ current = -2 => ~d.mine
    /\ d.step = "source" => failed
    /\ d.step # "idle" /\ Undisturbed(d) => accepted = 0
    /\ d.step \in {"publish", "put", "check"} => d.value # 0 /\ (Undisturbed(d) => d.value >= own)
    /\ d.step \in {"publish", "put"} =>
          /\ d.captured <= d.at /\ HeldAt(d.value, d.at)
          /\ Fresh(d) /\ AllWritten => d.value >= own
    /\ d.step = "check" => HeldAt(d.value, d.at - MaxAge + 1)

OnePublisher == \A r \in Readers : reads[r].step = "put" <=> lock = r

ReadsStrong == ReadTypes /\ Batches /\ HotOK /\ (\A r \in Readers : ReaderOK(reads[r])) /\ OnePublisher

\* The numbers that the parts compare.
ReadNumbers ==
    /\ clock \in Nat /\ mutation \in Nat /\ MaxValues \in Nat /\ MaxAge \in Nat /\ 0 < MaxAge
    /\ last \in Nat /\ last <= MaxValues /\ stored \in Nat /\ 0 < stored /\ stored <= last
    /\ own \in Nat /\ own <= last /\ accepted \in Nat /\ writing.value \in Nat
    /\ current \in Int /\ -2 <= current /\ current <= clock
    /\ cleared \in Int /\ -1 <= cleared /\ cleared <= clock
    /\ hot.value \in Nat /\ hot.value <= MaxValues /\ hot.captured \in Int
    /\ \A v \in 1..MaxValues : replaced[v] \in Int

RecordNumbers(d) ==
    /\ d.mutation \in Nat /\ d.captured \in Int /\ d.at \in Int
    /\ d.value \in Nat /\ d.value <= MaxValues /\ d.floor \in Nat

\* Numbers are numbers.
LEMMA ReadArithmetic ==
    ASSUME ReadsStrong
    PROVE  /\ ReadNumbers
           /\ \A r \in Readers : reads[r] \in ReadRecord /\ RecordNumbers(reads[r]) /\ ReaderOK(reads[r])
<1>1. ReadTypes
  BY DEF ReadsStrong
<1>2. ReadNumbers
  <2>1. writing.value \in Nat /\ hot.value \in 0..MaxValues /\ hot.captured \in Int
    BY <1>1, ReadsAssumption DEF ReadTypes, HotRecord, ReadsAssumption
  <2> QED
    BY <1>1, <2>1, ReadsAssumption DEF ReadTypes, ReadNumbers, ReadsAssumption
<1>3. ASSUME NEW r \in Readers PROVE reads[r] \in ReadRecord /\ RecordNumbers(reads[r]) /\ ReaderOK(reads[r])
  <2>1. reads[r] \in ReadRecord
    BY <1>1 DEF ReadTypes
  <2>2. RecordNumbers(reads[r])
    BY <2>1, ReadsAssumption DEF ReadRecord, RecordNumbers, ReadsAssumption
  <2> QED
    BY <2>1, <2>2 DEF ReadsStrong
<1> QED
  BY <1>2, <1>3

\* With nothing read, written or cached, all is in order.
LEMMA ReadsInit == Reads!Init => ReadsStrong
<1> SUFFICES ASSUME Reads!Init PROVE ReadsStrong
  OBVIOUS
<1> USE ReadsAssumption DEF ReadsAssumption
<1>1. ReadTypes
  <2>1. failed \in BOOLEAN
    BY Zenon DEF Reads!Init
  <2> QED
    BY <2>1 DEF Reads!Init, ReadTypes, Steps, ReadRecord, HotRecord, Reads!NoBytes, Reads!NoRead, Reads!NoTime,
                Reads!Unregistered
<1>2. Batches /\ HotOK
  BY DEF Reads!Init, Batches, HotOK, Unwritten, AllWritten, Fresh, Reads!NoBytes, Reads!NoTime, Reads!Unregistered
<1>3. (\A r \in Readers : ReaderOK(reads[r])) /\ OnePublisher
  BY DEF Reads!Init, ReaderOK, OnePublisher, Reads!NoRead, Reads!NoTime
<1> QED
  BY <1>1, <1>2, <1>3 DEF ReadsStrong

\* The clock and the writes before they reach the source.
LEMMA AdmissionKeeps ==
    ASSUME ReadsStrong, Reads!Tick \/ Reads!Enqueue \/ Reads!BeginBatch
    PROVE  ReadsStrong'
<1> USE ReadsAssumption DEF ReadsAssumption, Reads!writeVars, Reads!cacheVars
<1>0. ReadNumbers
  BY ReadArithmetic
<1>1. ReadTypes /\ Batches /\ HotOK /\ OnePublisher
  BY DEF ReadsStrong
<1>2. \A r \in Readers : RecordNumbers(reads[r]) /\ ReaderOK(reads[r])
  BY ReadArithmetic
<1>3. CASE Reads!Tick
  <2>1. ReadTypes' /\ OnePublisher'
    BY <1>1, <1>3 DEF Reads!Tick, ReadTypes, OnePublisher
  <2>2. Batches' /\ HotOK'
    BY <1>0, <1>1, <1>3 DEF Reads!Tick, ReadNumbers, Batches, HotOK, Unwritten, AllWritten, Fresh, HeldAt
  <2>3. ASSUME NEW r \in Readers PROVE ReaderOK(reads[r])'
    <3>1. clock <= clock' /\ UNCHANGED <<mutation, own, accepted, failed, current, cleared, replaced, reads>>
      BY <1>0, <1>3 DEF Reads!Tick, ReadNumbers
    <3>2. RecordNumbers(reads[r]) /\ ReaderOK(reads[r]) /\ clock \in Int /\ clock' \in Int
      BY <1>0, <1>2, <1>3 DEF Reads!Tick, ReadNumbers
    <3> QED
      BY <3>1, <3>2 DEF RecordNumbers, ReaderOK, Undisturbed, AllWritten, Fresh, HeldAt
  <2> QED
    BY <2>1, <2>2, <2>3 DEF ReadsStrong
<1>4. CASE Reads!Enqueue
  <2>1. ReadTypes' /\ OnePublisher'
    BY <1>1, <1>4 DEF Reads!Enqueue, ReadTypes, OnePublisher
  <2>2. Batches'
    BY <1>0, <1>1, <1>4 DEF Reads!Enqueue, ReadNumbers, Batches, Unwritten, AllWritten
  <2>3. HotOK'
    BY <1>0, <1>1, <1>4 DEF Reads!Enqueue, ReadNumbers, HotOK, AllWritten, HeldAt
  <2>4. ASSUME NEW r \in Readers PROVE ReaderOK(reads[r])'
    <3>1. /\ own <= own' /\ own' # 0 /\ own' \in Nat /\ own \in Nat /\ accepted' # 0
          /\ mutation' = mutation + 1 /\ mutation \in Nat
          /\ UNCHANGED <<clock, failed, current, cleared, replaced, reads>>
      BY <1>0, <1>4 DEF Reads!Enqueue, ReadNumbers
    <3>2. RecordNumbers(reads[r]) /\ ReaderOK(reads[r])
      BY <1>2
    <3>3. mutation' # reads[r].mutation /\ reads[r].mutation <= mutation' /\ reads[r].floor <= own'
      BY <3>1, <3>2 DEF RecordNumbers, ReaderOK
    <3> QED
      BY <3>1, <3>2, <3>3 DEF ReaderOK, Undisturbed, AllWritten, HeldAt
  <2> QED
    BY <2>1, <2>2, <2>3, <2>4 DEF ReadsStrong
<1>5. CASE Reads!BeginBatch
  <2>1. ReadTypes' /\ OnePublisher'
    BY <1>1, <1>5 DEF Reads!BeginBatch, ReadTypes, OnePublisher
  <2>2. Batches'
    BY <1>0, <1>1, <1>5 DEF Reads!BeginBatch, ReadTypes, Batches, Unwritten, AllWritten
  <2>3. HotOK'
    BY <1>1, <1>5 DEF Reads!BeginBatch, HotOK, AllWritten, HeldAt, Fresh
  <2>4. ASSUME NEW r \in Readers PROVE ReaderOK(reads[r])'
    BY <1>1, <1>2, <1>5 DEF Reads!BeginBatch, ReaderOK, Undisturbed, AllWritten, HeldAt, Fresh
  <2> QED
    BY <2>1, <2>2, <2>3, <2>4 DEF ReadsStrong
<1> QED
  BY <1>3, <1>4, <1>5

\* The source gets a value, of this buffer or of somebody else: a value that the
\* source loses now it had at every time before.
LEMMA SourceKeeps ==
    ASSUME ReadsStrong, Reads!WriteElsewhere \/ Reads!LandBatch
    PROVE  ReadsStrong'
<1> USE ReadsAssumption DEF ReadsAssumption, Reads!writeVars, Reads!cacheVars
<1>0. ReadNumbers
  BY ReadArithmetic
<1>1. ReadTypes /\ Batches /\ HotOK /\ OnePublisher
  BY DEF ReadsStrong
<1>2. \A r \in Readers : RecordNumbers(reads[r]) /\ ReaderOK(reads[r])
  BY ReadArithmetic
<1>3. \E v \in 1..MaxValues :
         /\ Reads!Store(v) /\ Unwritten(v) /\ last' \in Nat /\ last <= last' /\ v <= last' /\ last' <= MaxValues
         /\ writing' \in [value : 0..MaxValues, landed : BOOLEAN]
  <2>1. CASE Reads!WriteElsewhere
    <3>1. last + 1 \in 1..MaxValues
      BY <1>0, <2>1 DEF Reads!WriteElsewhere, ReadNumbers
    <3> QED
      BY <1>0, <1>1, <2>1, <3>1 DEF Reads!WriteElsewhere, Unwritten, ReadNumbers, ReadTypes
  <2>2. CASE Reads!LandBatch
    <3>1. writing.value \in 1..MaxValues /\ writing.value <= last
      BY <1>0, <1>1, <2>2 DEF Reads!LandBatch, ReadNumbers, Batches
    <3>2. writing' \in [value : 0..MaxValues, landed : BOOLEAN]
      BY <1>1, <2>2 DEF Reads!LandBatch, ReadTypes
    <3> QED
      BY <1>0, <2>2, <3>1, <3>2 DEF Reads!LandBatch, Unwritten, ReadNumbers
  <2> QED
    BY <2>1, <2>2
<1>4. PICK v \in 1..MaxValues :
         /\ Reads!Store(v) /\ Unwritten(v) /\ last' \in Nat /\ last <= last' /\ v <= last' /\ last' <= MaxValues
         /\ writing' \in [value : 0..MaxValues, landed : BOOLEAN]
  BY <1>3
<1>5. UNCHANGED <<clock, own, accepted, failed, mutation, current, cleared, hot, lock, reads>>
  BY DEF Reads!WriteElsewhere, Reads!LandBatch
<1>6. /\ replaced' \in [1..MaxValues -> Int] /\ stored' = v /\ replaced'[stored] = clock
      /\ \A w \in 1..MaxValues : w # stored => replaced'[w] = replaced[w]
  BY <1>0, <1>1, <1>4 DEF ReadTypes, ReadNumbers, Reads!Store
<1>7. ReadTypes' /\ OnePublisher'
  <2>1. last' \in 1..MaxValues /\ stored' \in 1..last' /\ own' \in 0..last' /\ accepted' \in {0, own'}
    BY <1>0, <1>1, <1>4, <1>5, <1>6 DEF ReadTypes, ReadNumbers
  <2> QED
    BY <1>1, <1>4, <1>5, <1>6, <2>1 DEF ReadTypes, OnePublisher
<1>8. Batches'
  <2>1. replaced'[v] = -1 /\ v # stored
    BY <1>1, <1>4, <1>6 DEF Batches
  <2>2. ASSUME NEW w \in 1..MaxValues, Unwritten(w)' PROVE Unwritten(w) /\ w # v
    <3>1. CASE Reads!WriteElsewhere
      <4>1. v = last + 1 /\ last' = last + 1 /\ writing' = writing /\ accepted' = accepted
        BY <1>6, <3>1 DEF Reads!WriteElsewhere, Reads!Store
      <4>2. accepted <= last /\ writing.value <= last
        BY <1>0, <1>1 DEF ReadTypes, ReadNumbers, Batches
      <4> QED
        BY <1>0, <2>2, <4>1, <4>2 DEF Unwritten, ReadNumbers
    <3>2. CASE Reads!LandBatch
      <4>1. v = writing.value /\ writing'.value = writing.value /\ writing'.landed = TRUE /\ last' = last
            /\ accepted' = accepted
        BY <1>1, <1>6, <3>2 DEF Reads!LandBatch, Reads!Store, ReadTypes
      <4> QED
        BY <1>0, <1>1, <2>2, <4>1 DEF Unwritten, Batches, ReadNumbers
    <3> QED
      BY <3>1, <3>2
  <2>3. \A w \in 1..MaxValues : Unwritten(w)' => replaced'[w] = -1 /\ stored' # w
    BY <1>1, <1>6, <2>2 DEF Batches
  <2>4. writing'.value = writing.value /\ (writing'.landed => stored' >= writing.value)
    <3>1. CASE Reads!WriteElsewhere
      <4>1. writing' = writing /\ stored' = last + 1 /\ writing.value <= last
        BY <1>0, <1>1, <3>1 DEF Reads!WriteElsewhere, Reads!Store, Batches, ReadNumbers
      <4> QED
        BY <1>0, <4>1 DEF ReadNumbers
    <3>2. CASE Reads!LandBatch
      BY <1>0, <1>1, <3>2 DEF Reads!LandBatch, Reads!Store, ReadTypes, ReadNumbers
    <3> QED
      BY <3>1, <3>2
  <2>5. AllWritten' => stored' >= own
    <3>1. CASE Reads!WriteElsewhere
      BY <1>0, <3>1 DEF Reads!WriteElsewhere, Reads!Store, ReadNumbers
    <3>2. CASE Reads!LandBatch
      BY <1>1, <1>5, <3>2 DEF Reads!LandBatch, AllWritten, Batches
    <3> QED
      BY <3>1, <3>2
  <2> QED
    BY <1>1, <1>5, <1>6, <2>1, <2>3, <2>4, <2>5 DEF Batches
<1>9. HotOK'
  <2>1. ASSUME hot.value # 0 PROVE replaced'[hot.value] = -1 \/ replaced'[hot.value] >= hot.captured
    BY SMTT(30), <1>0, <1>1, <1>6, <2>1 DEF HotOK, HeldAt, ReadNumbers
  <2> QED
    BY <1>1, <1>5, <2>1 DEF HotOK, AllWritten, Fresh, HeldAt
<1>10. ASSUME NEW r \in Readers PROVE ReaderOK(reads[r])'
  <2>1. RecordNumbers(reads[r]) /\ ReaderOK(reads[r])
    BY <1>2
  <2>2. ASSUME reads[r].step \in {"publish", "put"}
        PROVE  replaced'[reads[r].value] = -1 \/ replaced'[reads[r].value] >= reads[r].at
    <3>1. reads[r].value \in 1..MaxValues /\ HeldAt(reads[r].value, reads[r].at)
      BY <1>0, <2>1, <2>2 DEF ReaderOK, RecordNumbers, ReadNumbers
    <3>2. reads[r].at <= clock
      BY <2>1 DEF ReaderOK
    <3> QED
      BY <1>6, <3>1, <3>2 DEF HeldAt
  <2>3. ASSUME reads[r].step = "check"
        PROVE  replaced'[reads[r].value] = -1 \/ replaced'[reads[r].value] >= reads[r].at - MaxAge + 1
    <3>1. reads[r].value \in 1..MaxValues /\ HeldAt(reads[r].value, reads[r].at - MaxAge + 1)
      BY <1>0, <2>1, <2>3 DEF ReaderOK, RecordNumbers, ReadNumbers
    <3>2. reads[r].at - MaxAge + 1 <= clock
      BY <1>0, <2>1 DEF ReaderOK, RecordNumbers, ReadNumbers
    <3> QED
      BY <1>6, <3>1, <3>2 DEF HeldAt
  <2> QED
    BY <1>5, <2>1, <2>2, <2>3 DEF ReaderOK, Undisturbed, AllWritten, Fresh, HeldAt
<1> QED
  BY <1>7, <1>8, <1>9, <1>10 DEF ReadsStrong

\* A new generation: whatever was captured before it is not fresh.
LEMMA EndBatchKeeps ==
    ASSUME ReadsStrong, Reads!EndBatch
    PROVE  ReadsStrong'
<1> USE ReadsAssumption DEF ReadsAssumption
<1>0. ReadNumbers
  BY ReadArithmetic
<1>1. ReadTypes /\ Batches /\ HotOK /\ OnePublisher
  BY DEF ReadsStrong
<1>2. \A r \in Readers : reads[r] \in ReadRecord /\ RecordNumbers(reads[r]) /\ ReaderOK(reads[r])
  BY ReadArithmetic
<1>3. /\ current' = clock /\ mutation' = mutation + 1 /\ accepted' = (IF accepted = writing.value THEN 0 ELSE accepted)
      /\ writing' = [value |-> 0, landed |-> FALSE]
      /\ UNCHANGED <<clock, last, own, stored, replaced, cleared, lock>>
      /\ writing.value # 0
  BY DEF Reads!EndBatch
<1>4. failed' \in BOOLEAN /\ (~failed' => ~failed /\ writing.landed)
  <2>1. failed \in BOOLEAN
    BY <1>1 DEF ReadTypes
  <2>2. (failed' = failed \/ failed' = TRUE) /\ (~writing.landed => failed')
    BY DEF Reads!EndBatch
  <2>3. CASE failed' = failed
    BY <2>1, <2>2, <2>3
  <2>4. CASE failed' = TRUE
    BY <2>4
  <2> QED
    BY <2>2, <2>3, <2>4
<1>5. hot' = [hot EXCEPT !.mine = FALSE] /\ reads' = [r \in Readers |-> [reads[r] EXCEPT !.mine = FALSE]]
  BY DEF Reads!EndBatch, Reads!Forgotten, Reads!Outdated
<1>6. /\ hot' \in HotRecord /\ hot'.value = hot.value /\ hot'.captured = hot.captured /\ hot'.mine = FALSE
      /\ hot = Reads!NoBytes => hot' = Reads!NoBytes
  <2>1. hot' \in HotRecord /\ hot'.value = hot.value /\ hot'.captured = hot.captured /\ hot'.mine = FALSE
    BY <1>1, <1>5 DEF ReadTypes, HotRecord
  <2>2. ASSUME hot = Reads!NoBytes PROVE hot' = Reads!NoBytes
    BY <1>5, <2>2 DEF Reads!NoBytes
  <2> QED
    BY <2>1, <2>2
<1>7. ASSUME NEW r \in Readers
      PROVE  /\ reads'[r] \in ReadRecord /\ reads'[r].step = reads[r].step /\ reads'[r].mutation = reads[r].mutation
             /\ reads'[r].captured = reads[r].captured /\ reads'[r].value = reads[r].value
             /\ reads'[r].floor = reads[r].floor /\ reads'[r].at = reads[r].at /\ reads'[r].mine = FALSE
  BY <1>2, <1>5 DEF ReadRecord
<1>8. ReadTypes' /\ OnePublisher'
  <2>1. reads' \in [Readers -> ReadRecord]
    <3>1. \A r \in Readers : [reads[r] EXCEPT !.mine = FALSE] \in ReadRecord
      BY <1>5, <1>7
    <3> QED
      BY <1>5, <3>1
  <2>2. OnePublisher'
    BY <1>1, <1>3, <1>7 DEF OnePublisher
  <2>3. mutation' \in Nat /\ current' \in Int /\ -2 <= current' /\ current' <= clock /\ accepted' \in {0, own}
        /\ writing' \in [value : 0..MaxValues, landed : BOOLEAN]
    BY <1>0, <1>1, <1>3 DEF ReadNumbers, ReadTypes
  <2> QED
    BY <1>1, <1>3, <1>4, <1>6, <2>1, <2>2, <2>3 DEF ReadTypes
<1>9. Batches'
  BY <1>0, <1>1, <1>3, <1>4 DEF ReadNumbers, ReadTypes, Batches, Unwritten, AllWritten
<1>10. HotOK'
  BY <1>0, <1>1, <1>3, <1>6 DEF ReadNumbers, HotOK, Fresh, HeldAt
<1>11. ASSUME NEW r \in Readers PROVE ReaderOK(reads[r])'
  <2>1. RecordNumbers(reads[r]) /\ ReaderOK(reads[r])
    BY <1>2
  <2>2. mutation' # reads[r].mutation /\ reads[r].mutation <= mutation' /\ ~(reads[r].captured > current') /\ current' # -2
        /\ (failed => failed')
    BY <1>0, <1>3, <1>4, <2>1 DEF ReaderOK, RecordNumbers, ReadNumbers
  <2>3. ~Undisturbed(reads[r])' /\ ~Fresh(reads[r])'
    BY <1>7, <2>2 DEF Undisturbed, Fresh
  <2>4. \A t : HeldAt(reads[r].value, t) = (replaced[reads[r].value] = -1 \/ replaced[reads[r].value] >= t)
    BY DEF HeldAt
  <2> QED
    BY <1>3, <1>7, <2>1, <2>2, <2>3, <2>4 DEF ReaderOK, HeldAt
<1> QED
  BY <1>8, <1>9, <1>10, <1>11 DEF ReadsStrong

\* A step of a reader, or of an eviction: the barriers do not go back.
ReadStep ==
    /\ UNCHANGED <<clock, last, own, stored, replaced, accepted, writing, failed, mutation>>
    /\ current' \in Int /\ -2 <= current' /\ current' <= clock
    /\ cleared' \in Int /\ -1 <= cleared' /\ cleared' <= clock
    /\ current <= current' \/ current <= cleared'
    /\ cleared <= cleared'

\* The source does not move in such a step.
LEMMA BatchesStay == ASSUME ReadsStrong, ReadStep PROVE Batches'
BY DEF ReadsStrong, ReadStep, Batches, Unwritten, AllWritten

\* The cached bytes, if they stay, lose their generation or are dropped.
LEMMA HotStays ==
    ASSUME ReadsStrong, ReadStep, hot' \in {hot, Reads!Forgotten(hot), Reads!NoBytes}, current' = -2 => ~hot'.mine
    PROVE  HotOK'
<1>0. ReadNumbers /\ HotOK /\ hot \in HotRecord
  BY ReadArithmetic DEF ReadsStrong, ReadTypes
<1>1. CASE hot' = Reads!NoBytes
  BY <1>0, <1>1 DEF ReadNumbers, ReadStep, HotOK, Fresh, Reads!NoBytes, Reads!NoTime
<1>2. CASE hot' \in {hot, Reads!Forgotten(hot)}
  <2>1. /\ hot'.value = hot.value /\ hot'.captured = hot.captured /\ (hot'.mine => hot.mine)
        /\ hot.value = 0 => hot' = Reads!NoBytes
    <3>1. CASE hot' = hot
      BY <1>0, <3>1 DEF HotOK
    <3>2. CASE hot' = Reads!Forgotten(hot)
      <4>1. hot' = [hot EXCEPT !.mine = FALSE]
        BY <3>2 DEF Reads!Forgotten
      <4>2. hot'.value = hot.value /\ hot'.captured = hot.captured /\ ~hot'.mine
        BY <1>0, <4>1 DEF HotRecord
      <4>3. ASSUME hot.value = 0 PROVE hot' = Reads!NoBytes
        <5>1. hot = Reads!NoBytes
          BY <1>0, <4>3 DEF HotOK
        <5> QED
          BY <4>1, <5>1 DEF Reads!NoBytes
      <4> QED
        BY <4>2, <4>3
    <3> QED
      BY <1>2, <3>1, <3>2
  <2>2. Fresh(hot)' => Fresh(hot)
    BY <1>0, <2>1 DEF ReadNumbers, ReadStep, Fresh
  <2> QED
    BY <1>0, <2>1, <2>2 DEF ReadStep, HotOK, HeldAt, AllWritten
<1> QED
  BY <1>1, <1>2

\* A reader that another step leaves alone, or takes the generation from.
LEMMA ReaderStays ==
    ASSUME ReadsStrong, ReadStep, NEW q \in Readers, reads'[q] \in {reads[q], Reads!Forgotten(reads[q])},
           current' = -2 => ~reads'[q].mine
    PROVE  ReaderOK(reads[q])' /\ reads'[q] \in ReadRecord /\ reads'[q].step = reads[q].step
<1>0. ReadNumbers /\ reads[q] \in ReadRecord /\ RecordNumbers(reads[q]) /\ ReaderOK(reads[q])
  BY ReadArithmetic
<1>1. /\ reads'[q] \in ReadRecord /\ reads'[q].step = reads[q].step /\ reads'[q].mutation = reads[q].mutation
      /\ reads'[q].captured = reads[q].captured /\ reads'[q].value = reads[q].value
      /\ reads'[q].floor = reads[q].floor /\ reads'[q].at = reads[q].at /\ (reads'[q].mine => reads[q].mine)
  BY <1>0 DEF ReadRecord, Reads!Forgotten
<1>2. Fresh(reads[q])' => Fresh(reads[q])
  BY <1>0, <1>1 DEF ReadNumbers, RecordNumbers, ReadStep, Fresh
<1>3. ReaderOK(reads[q])'
  BY <1>0, <1>1, <1>2 DEF ReadStep, ReaderOK, Undisturbed, HeldAt, AllWritten
<1> QED
  BY <1>1, <1>3

\* A step of reader r keeps the invariant if it leaves r and the bytes in order.
LEMMA ReaderSteps ==
    ASSUME ReadsStrong, ReadStep, NEW r \in Readers,
           hot' \in HotRecord, HotOK',
           reads' = [q \in Readers |-> reads'[q]],
           reads'[r] \in ReadRecord, ReaderOK(reads[r])',
           \A q \in Readers \ {r} : /\ reads'[q] \in {reads[q], Reads!Forgotten(reads[q])}
                                    /\ current' = -2 => ~reads'[q].mine,
           \/ reads[r].step # "put" /\ reads'[r].step # "put" /\ lock' = lock
           \/ lock = NoReader /\ reads'[r].step = "put" /\ lock' = r
           \/ reads[r].step = "put" /\ reads'[r].step # "put" /\ lock' = NoReader
    PROVE  ReadsStrong'
<1> USE ReadsAssumption DEF ReadsAssumption
<1>1. ReadTypes /\ OnePublisher
  BY DEF ReadsStrong
<1>2. \A q \in Readers \ {r} : ReaderOK(reads[q])' /\ reads'[q] \in ReadRecord /\ reads'[q].step = reads[q].step
  BY ReaderStays
<1>3. \A q \in Readers : ReaderOK(reads[q])' /\ reads'[q] \in ReadRecord
  BY <1>2
<1>4. ReadTypes'
  <2>1. reads' \in [Readers -> ReadRecord]
    BY <1>3
  <2>2. lock' \in Readers \cup {NoReader}
    BY <1>1 DEF ReadTypes
  <2> QED
    BY <1>1, <2>1, <2>2 DEF ReadTypes, ReadStep
<1>5. OnePublisher'
  <2>1. ASSUME NEW q \in Readers, q # r PROVE reads'[q].step = "put" <=> lock' = q
    <3>1. reads'[q].step = reads[q].step /\ (reads[q].step = "put" <=> lock = q) /\ (reads[r].step = "put" <=> lock = r)
      BY <1>1, <1>2, <2>1 DEF OnePublisher
    <3> QED
      BY <2>1, <3>1
  <2>2. reads'[r].step = "put" <=> lock' = r
    BY <1>1 DEF OnePublisher
  <2> QED
    BY <2>1, <2>2 DEF OnePublisher
<1> QED
  BY <1>3, <1>4, <1>5, BatchesStay DEF ReadsStrong

\* A round of a read.
LEMMA RoundKeeps ==
    ASSUME ReadsStrong, NEW r \in Readers, Reads!Get(r) \/ Reads!Check(r)
    PROVE  ReadsStrong'
<1> USE ReadsAssumption DEF ReadsAssumption, Reads!writeVars
<1>0. ReadNumbers /\ RecordNumbers(reads[r]) /\ ReaderOK(reads[r])
  BY ReadArithmetic
<1>1. ReadTypes /\ HotOK
  BY DEF ReadsStrong
<1>2. /\ UNCHANGED <<clock, last, own, stored, replaced, accepted, writing, failed, mutation, cleared, hot, lock>>
      /\ reads[r].step \in {"idle", "check"}
  BY DEF Reads!Get, Reads!Check
<1>3. PICK d : /\ reads' = [reads EXCEPT ![r] = d]
               /\ \/ d = Reads!NoRead /\ current' = current
                  \/ /\ accepted = 0 \/ failed
                     /\ current' = IF current = -2 THEN -1 ELSE current
                     /\ \E floor \in 0..own :
                           d = [Reads!NoRead EXCEPT !.step = IF failed THEN "source" ELSE "hot",
                                                    !.floor = floor, !.mutation = mutation, !.mine = TRUE]
  <2>1. own \in 0..own /\ reads[r].floor \in 0..own
    BY <1>0 DEF ReadNumbers, RecordNumbers, ReaderOK
  <2>2. CASE Reads!Get(r)
    BY <2>1, <2>2 DEF Reads!Get, Reads!Round, Reads!Set, Reads!Unregistered, Reads!NoTime
  <2>3. CASE Reads!Check(r)
    BY <2>1, <2>3 DEF Reads!Check, Reads!Round, Reads!Set, Reads!Unregistered, Reads!NoTime
  <2> QED
    BY <2>2, <2>3
<1>4. ReadStep /\ (current' = -2 => current = -2) /\ (d # Reads!NoRead => current' # -2 /\ (accepted = 0 \/ failed))
  <2>1. \/ d = Reads!NoRead /\ current' = current
        \/ (accepted = 0 \/ failed) /\ current' = IF current = -2 THEN -1 ELSE current
    BY <1>3, Zenon
  <2> QED
    BY <1>0, <1>2, <2>1 DEF ReadStep, ReadNumbers
<1>5. /\ reads'[r] = d /\ reads' = [q \in Readers |-> reads'[q]]
      /\ \A q \in Readers \ {r} : reads'[q] = reads[q]
  BY <1>1, <1>3 DEF ReadTypes
<1>6. CASE d = Reads!NoRead
  <2>1. d \in ReadRecord /\ d.step = "idle"
    BY <1>6 DEF ReadRecord, Steps, Reads!NoRead, Reads!NoTime
  <2>2. ReaderOK(reads[r])'
    BY <1>0, <1>2, <1>5, <1>6 DEF ReadNumbers, ReaderOK, Reads!NoRead, Reads!NoTime
  <2>3. HotOK' /\ hot' \in HotRecord
    BY <1>1, <1>2, <1>4, HotStays DEF HotOK, ReadTypes
  <2>4. \A q \in Readers \ {r} : current' = -2 => ~reads'[q].mine
    BY <1>4, <1>5 DEF ReadsStrong, ReaderOK
  <2> QED
    BY <1>2, <1>4, <1>5, <2>1, <2>2, <2>3, <2>4, ReaderSteps
<1>7. CASE d # Reads!NoRead
  <2>1. PICK floor \in 0..own :
           d = [step |-> IF failed THEN "source" ELSE "hot", mutation |-> mutation, mine |-> TRUE,
                captured |-> -1, value |-> 0, floor |-> floor, at |-> -1]
    BY <1>3, <1>7 DEF Reads!NoRead, Reads!NoTime
  <2>2. d \in ReadRecord /\ d.step \in {"source", "hot"}
    BY <1>0, <2>1 DEF ReadRecord, Steps, ReadNumbers
  <2>3. current' # -2 /\ (accepted = 0 \/ failed)
    BY <1>4, <1>7
  <2>4. ReaderOK(reads[r])'
    BY <1>0, <1>2, <1>5, <2>1, <2>3 DEF ReadNumbers, ReaderOK, Undisturbed
  <2>5. HotOK' /\ hot' \in HotRecord
    BY <1>1, <1>2, <1>4, HotStays DEF HotOK, ReadTypes
  <2> QED
    BY <1>2, <1>4, <1>5, <2>2, <2>3, <2>4, <2>5, ReaderSteps
<1> QED
  BY <1>6, <1>7

\* A hit is as good as the source.
LEMMA HitKeeps ==
    ASSUME ReadsStrong, NEW r \in Readers, reads[r].step = "hot", Reads!Decode,
           reads' = [reads EXCEPT ![r] = [reads[r] EXCEPT !.step = "check", !.value = hot.value, !.at = clock]],
           UNCHANGED <<clock, last, own, stored, replaced, accepted, writing, failed, mutation, current, cleared, hot, lock>>
    PROVE  ReadsStrong'
<1> USE ReadsAssumption DEF ReadsAssumption
<1>0. ReadNumbers /\ reads[r] \in ReadRecord /\ RecordNumbers(reads[r]) /\ ReaderOK(reads[r])
  BY ReadArithmetic
<1>1. ReadTypes /\ HotOK
  BY DEF ReadsStrong
<1>2. ReadStep
  BY <1>0 DEF ReadStep, ReadNumbers
<1>3. /\ reads'[r] = [reads[r] EXCEPT !.step = "check", !.value = hot.value, !.at = clock]
      /\ reads' = [q \in Readers |-> reads'[q]] /\ \A q \in Readers \ {r} : reads'[q] = reads[q]
  BY <1>1 DEF ReadTypes
<1>4. /\ reads'[r] \in ReadRecord /\ reads'[r].step = "check" /\ reads'[r].value = hot.value /\ reads'[r].at = clock
      /\ reads'[r].mutation = reads[r].mutation /\ reads'[r].floor = reads[r].floor
      /\ reads'[r].captured = reads[r].captured /\ reads'[r].mine = reads[r].mine
  <2>1. hot.value \in 0..MaxValues /\ clock \in Int
    BY <1>0 DEF ReadNumbers
  <2>2. reads'[r] \in ReadRecord
    BY <1>0, <1>3, <2>1 DEF ReadRecord, Steps
  <2> QED
    BY <1>0, <1>3, <2>2 DEF ReadRecord
<1>5. hot.value # 0 /\ Fresh(hot) /\ clock < hot.captured + MaxAge /\ HeldAt(hot.value, hot.captured)
  BY <1>0, <1>1 DEF Reads!Decode, HotOK, Fresh, ReadNumbers
<1>6. Undisturbed(reads[r]) => accepted = 0 /\ hot.value >= own
  BY <1>0, <1>1, <1>5 DEF ReaderOK, Undisturbed, AllWritten, HotOK
<1>7. replaced[hot.value] = -1 \/ replaced[hot.value] >= clock - MaxAge + 1
  <2>1. hot.value \in 1..MaxValues
    BY <1>0, <1>5 DEF ReadNumbers
  <2>2. replaced[hot.value] \in Int
    BY <1>0, <2>1 DEF ReadNumbers
  <2> QED
    BY <1>0, <1>5, <2>2 DEF HeldAt, ReadNumbers
<1>8. ReaderOK(reads[r])'
  <2>1. ~failed' /\ mutation' = reads'[r].mutation => Undisturbed(reads[r])
    BY <1>4 DEF Undisturbed
  <2>2. clock <= clock
    BY <1>0 DEF ReadNumbers
  <2> QED
    BY <1>0, <1>4, <1>5, <1>6, <1>7, <2>1, <2>2 DEF ReaderOK, Undisturbed, HeldAt
<1>9. HotOK' /\ hot' \in HotRecord
  BY <1>1, <1>2, HotStays DEF HotOK, ReadTypes
<1>10. \A q \in Readers \ {r} : current' = -2 => ~reads'[q].mine
  BY <1>3 DEF ReadsStrong, ReaderOK
<1> QED
  BY <1>2, <1>3, <1>4, <1>8, <1>9, <1>10, ReaderSteps

\* A miss: a new generation unless somebody else has begun one since.
LEMMA MissKeeps ==
    ASSUME ReadsStrong, NEW r \in Readers, reads[r].step = "hot",
           \/ /\ current' = clock /\ hot' = Reads!Forgotten(hot)
              /\ reads' = [Reads!Outdated EXCEPT ![r] = [reads[r] EXCEPT !.step = "load", !.captured = clock]]
           \/ /\ ~reads[r].mine /\ current' = current /\ hot' = hot
              /\ reads' = [reads EXCEPT ![r] = [reads[r] EXCEPT !.step = "load", !.captured = clock]],
           UNCHANGED <<clock, last, own, stored, replaced, accepted, writing, failed, mutation, cleared, lock>>
    PROVE  ReadsStrong'
<1> USE ReadsAssumption DEF ReadsAssumption
<1>0. ReadNumbers /\ reads[r] \in ReadRecord /\ RecordNumbers(reads[r]) /\ ReaderOK(reads[r])
  BY ReadArithmetic
<1>1. ReadTypes /\ HotOK
  BY DEF ReadsStrong
<1>2. ReadStep
  BY <1>0 DEF ReadStep, ReadNumbers
<1>3. /\ reads'[r] = [reads[r] EXCEPT !.step = "load", !.captured = clock]
      /\ reads' = [q \in Readers |-> reads'[q]]
      /\ \A q \in Readers \ {r} : reads'[q] \in {reads[q], Reads!Forgotten(reads[q])}
      /\ \A q \in Readers \ {r} : current' = clock \/ reads'[q] = reads[q]
  BY <1>1 DEF ReadTypes, Reads!Outdated
<1>4. /\ reads'[r] \in ReadRecord /\ reads'[r].step = "load" /\ reads'[r].captured = clock
      /\ reads'[r].mutation = reads[r].mutation /\ reads'[r].floor = reads[r].floor
      /\ reads'[r].value = reads[r].value /\ reads'[r].at = reads[r].at /\ reads'[r].mine = reads[r].mine
  <2>1. clock \in Int
    BY <1>0 DEF ReadNumbers
  <2>2. reads'[r] \in ReadRecord
    BY <1>0, <1>3, <2>1 DEF ReadRecord, Steps
  <2> QED
    BY <1>0, <1>3, <2>2 DEF ReadRecord
<1>5. clock # -2 /\ clock <= clock
  BY <1>0 DEF ReadNumbers
<1>6. ReaderOK(reads[r])'
  <2>1. current' = -2 => ~reads[r].mine
    BY <1>5
  <2> QED
    BY <1>0, <1>4, <1>5, <2>1 DEF ReaderOK, Undisturbed
<1>7. HotOK' /\ hot' \in HotRecord
  <2>1. hot' \in HotRecord
    BY <1>1 DEF ReadTypes, HotRecord, Reads!Forgotten
  <2>2. current' = -2 => ~hot'.mine
    BY <1>1, <1>5 DEF HotOK
  <2> QED
    BY <1>2, <2>1, <2>2, HotStays
<1>8. \A q \in Readers \ {r} : current' = -2 => ~reads'[q].mine
  BY <1>3, <1>5 DEF ReadsStrong, ReaderOK
<1> QED
  BY <1>2, <1>3, <1>4, <1>6, <1>7, <1>8, ReaderSteps

\* A look at the cache.
LEMMA ReadHotKeeps ==
    ASSUME ReadsStrong, NEW r \in Readers, Reads!ReadHot(r)
    PROVE  ReadsStrong'
<1>1. /\ UNCHANGED <<clock, last, own, stored, replaced, accepted, writing, failed, mutation, cleared, lock>>
      /\ reads[r].step = "hot"
      /\ \/ /\ Reads!Decode
            /\ reads' = [reads EXCEPT ![r] = [reads[r] EXCEPT !.step = "check", !.value = hot.value, !.at = clock]]
            /\ UNCHANGED <<current, hot>>
         \/ /\ current' = clock /\ hot' = Reads!Forgotten(hot)
            /\ reads' = [Reads!Outdated EXCEPT ![r] = [reads[r] EXCEPT !.step = "load", !.captured = clock]]
         \/ /\ ~reads[r].mine /\ current' = current /\ hot' = hot
            /\ reads' = [reads EXCEPT ![r] = [reads[r] EXCEPT !.step = "load", !.captured = clock]]
  BY DEF Reads!ReadHot, Reads!Set, Reads!writeVars
<1> QED
  BY <1>1, HitKeeps, MissKeeps

\* A load takes the value of the source.
LEMMA LoadKeeps ==
    ASSUME ReadsStrong, NEW r \in Readers, Reads!Load(r)
    PROVE  ReadsStrong'
<1> USE ReadsAssumption DEF ReadsAssumption
<1>0. ReadNumbers /\ reads[r] \in ReadRecord /\ RecordNumbers(reads[r]) /\ ReaderOK(reads[r])
  BY ReadArithmetic
<1>1. ReadTypes /\ Batches /\ HotOK
  BY DEF ReadsStrong
<1>2. /\ UNCHANGED <<clock, last, own, stored, replaced, accepted, writing, failed, mutation, current, cleared, hot, lock>>
      /\ reads[r].step \in {"load", "source"}
      /\ reads' = [reads EXCEPT ![r] = [reads[r] EXCEPT !.step = IF reads[r].step = "load" THEN "publish" ELSE "check",
                                                        !.value = stored, !.at = clock]]
  BY DEF Reads!Load, Reads!Set, Reads!writeVars, Reads!cacheVars
<1>3. ReadStep
  BY <1>0, <1>2 DEF ReadStep, ReadNumbers
<1>4. /\ reads'[r] = [reads[r] EXCEPT !.step = IF reads[r].step = "load" THEN "publish" ELSE "check",
                                      !.value = stored, !.at = clock]
      /\ reads' = [q \in Readers |-> reads'[q]] /\ \A q \in Readers \ {r} : reads'[q] = reads[q]
  BY <1>1, <1>2 DEF ReadTypes
<1>5. /\ reads'[r] \in ReadRecord /\ reads'[r].step = (IF reads[r].step = "load" THEN "publish" ELSE "check")
      /\ reads'[r].value = stored /\ reads'[r].at = clock
      /\ reads'[r].mutation = reads[r].mutation /\ reads'[r].floor = reads[r].floor
      /\ reads'[r].captured = reads[r].captured /\ reads'[r].mine = reads[r].mine
  <2>1. stored \in 0..MaxValues /\ clock \in Int
    BY <1>0 DEF ReadNumbers
  <2>2. reads'[r] \in ReadRecord
    BY <1>0, <1>4, <2>1 DEF ReadRecord, Steps
  <2> QED
    BY <1>0, <1>4, <2>2 DEF ReadRecord
<1>6. ReaderOK(reads[r])'
  <2>1. stored # 0 /\ replaced[stored] = -1 /\ (AllWritten => stored >= own) /\ clock <= clock
    BY <1>0, <1>1 DEF ReadNumbers, Batches
  <2>2. Undisturbed(reads[r]) => AllWritten
    BY <1>0, <1>2 DEF ReaderOK, Undisturbed, AllWritten
  <2>3. reads[r].step = "source" => failed
    BY <1>0 DEF ReaderOK
  <2> QED
    BY <1>0, <1>2, <1>5, <2>1, <2>2, <2>3 DEF ReaderOK, Undisturbed, AllWritten, HeldAt
<1>7. HotOK' /\ hot' \in HotRecord
  BY <1>1, <1>2, <1>3, HotStays DEF HotOK, ReadTypes
<1>8. \A q \in Readers \ {r} : current' = -2 => ~reads'[q].mine
  BY <1>2, <1>4 DEF ReadsStrong, ReaderOK
<1>9. reads'[r].step # "put" /\ reads[r].step # "put"
  BY <1>2, <1>5
<1> QED
  BY <1>2, <1>3, <1>4, <1>5, <1>6, <1>7, <1>8, <1>9, ReaderSteps

\* The two steps of a publication.
LEMMA PublishKeeps ==
    ASSUME ReadsStrong, NEW r \in Readers, Reads!Publish(r) \/ Reads!Put(r)
    PROVE  ReadsStrong'
<1> USE ReadsAssumption DEF ReadsAssumption
<1>0. ReadNumbers /\ reads[r] \in ReadRecord /\ RecordNumbers(reads[r]) /\ ReaderOK(reads[r])
  BY ReadArithmetic
<1>1. ReadTypes /\ HotOK
  BY DEF ReadsStrong
<1>2. /\ UNCHANGED <<clock, last, own, stored, replaced, accepted, writing, failed, mutation, current, cleared>>
      /\ reads[r].step \in {"publish", "put"}
      /\ hot' = hot \/ hot' = [value |-> reads[r].value, captured |-> reads[r].captured, mine |-> reads[r].mine]
  BY DEF Reads!Publish, Reads!Put, Reads!writeVars
<1>3. PICK s \in {"put", "check"} :
         /\ reads' = [reads EXCEPT ![r] = [reads[r] EXCEPT !.step = s]]
         /\ \/ reads[r].step = "publish" /\ s = "check" /\ lock' = lock
            \/ reads[r].step = "publish" /\ s = "put" /\ lock = NoReader /\ lock' = r
            \/ reads[r].step = "put" /\ s = "check" /\ lock' = NoReader
  BY DEF Reads!Publish, Reads!Put, Reads!Set
<1>4. ReadStep
  BY <1>0, <1>2 DEF ReadStep, ReadNumbers
<1>5. /\ reads'[r] = [reads[r] EXCEPT !.step = s]
      /\ reads' = [q \in Readers |-> reads'[q]] /\ \A q \in Readers \ {r} : reads'[q] = reads[q]
  BY <1>1, <1>3 DEF ReadTypes
<1>6. /\ reads'[r] \in ReadRecord /\ reads'[r].step = s
      /\ reads'[r].value = reads[r].value /\ reads'[r].at = reads[r].at
      /\ reads'[r].mutation = reads[r].mutation /\ reads'[r].floor = reads[r].floor
      /\ reads'[r].captured = reads[r].captured /\ reads'[r].mine = reads[r].mine
  <2>1. reads'[r] \in ReadRecord
    BY <1>0, <1>5 DEF ReadRecord, Steps
  <2> QED
    BY <1>0, <1>5, <2>1 DEF ReadRecord
<1>7. /\ reads[r].value \in 1..MaxValues /\ replaced[reads[r].value] \in Int
      /\ HeldAt(reads[r].value, reads[r].at) /\ reads[r].captured <= reads[r].at
  BY <1>0, <1>2 DEF ReaderOK, RecordNumbers, ReadNumbers
<1>8. ReaderOK(reads[r])'
  <2>1. replaced[reads[r].value] = -1 \/ replaced[reads[r].value] >= reads[r].at - MaxAge + 1
    BY <1>0, <1>7 DEF RecordNumbers, ReadNumbers, HeldAt
  <2>2. ReaderOK(reads[r]) /\ reads[r].step \in {"publish", "put"}
    BY <1>0, <1>2
  <2> QED
    BY <1>2, <1>6, <2>1, <2>2 DEF ReaderOK, Undisturbed, AllWritten, HeldAt, Fresh
<1>9. HotOK' /\ hot' \in HotRecord
  <2>1. CASE hot' = hot
    BY <1>1, <1>2, <1>4, <2>1, HotStays DEF HotOK, ReadTypes
  <2>2. CASE hot' = [value |-> reads[r].value, captured |-> reads[r].captured, mine |-> reads[r].mine]
    <3>1. hot' \in HotRecord
      BY <1>0, <2>2 DEF ReadRecord, HotRecord
    <3>2. hot'.value = reads[r].value /\ hot'.captured = reads[r].captured /\ hot'.mine = reads[r].mine
      BY <2>2
    <3>3. replaced[reads[r].value] = -1 \/ replaced[reads[r].value] >= reads[r].captured
      BY <1>0, <1>7 DEF RecordNumbers, HeldAt
    <3>4. ReaderOK(reads[r]) /\ reads[r].step \in {"publish", "put"} /\ reads[r].value # 0
      BY <1>0, <1>2, <1>7
    <3>5. HotOK'
      BY <1>2, <3>2, <3>3, <3>4 DEF HotOK, ReaderOK, AllWritten, HeldAt, Fresh
    <3> QED
      BY <3>1, <3>5
  <2> QED
    BY <1>2, <2>1, <2>2
<1>10. \A q \in Readers \ {r} : current' = -2 => ~reads'[q].mine
  BY <1>2, <1>5 DEF ReadsStrong, ReaderOK
<1> QED
  BY <1>3, <1>4, <1>5, <1>6, <1>8, <1>9, <1>10, ReaderSteps

\* Evictions: the bytes are gone, or nobody has the generation any more and the
\* barrier moves to the one for all keys.
LEMMA EvictKeeps ==
    ASSUME ReadsStrong, Reads!EvictHot \/ Reads!EvictGeneration
    PROVE  ReadsStrong'
<1> USE ReadsAssumption DEF ReadsAssumption
<1>0. ReadNumbers
  BY ReadArithmetic
<1>1. ReadTypes /\ OnePublisher
  BY DEF ReadsStrong
<1>2. /\ UNCHANGED <<clock, last, own, stored, replaced, accepted, writing, failed, mutation, lock>>
      /\ \/ hot' = Reads!NoBytes /\ UNCHANGED <<current, cleared, reads>>
         \/ /\ current' = -2 /\ cleared' = (IF current > cleared THEN current ELSE cleared)
            /\ hot' = Reads!Forgotten(hot) /\ reads' = Reads!Outdated
  BY DEF Reads!EvictHot, Reads!EvictGeneration, Reads!writeVars, Reads!Unregistered
<1>3. ReadStep
  BY <1>0, <1>2 DEF ReadStep, ReadNumbers
<1>4. hot' \in {Reads!NoBytes, Reads!Forgotten(hot)} /\ ~hot'.mine /\ hot' \in HotRecord
  <2>1. Reads!NoBytes \in HotRecord /\ ~Reads!NoBytes.mine
    BY DEF Reads!NoBytes, Reads!NoTime, HotRecord
  <2>2. Reads!Forgotten(hot) \in HotRecord /\ ~Reads!Forgotten(hot).mine
    BY <1>1 DEF Reads!Forgotten, HotRecord, ReadTypes
  <2> QED
    BY <1>2, <2>1, <2>2
<1>5. /\ reads' = [q \in Readers |-> reads'[q]]
      /\ \A q \in Readers : reads'[q] \in {reads[q], Reads!Forgotten(reads[q])}
      /\ \A q \in Readers : current' = -2 => ~reads'[q].mine
  <2>1. CASE UNCHANGED <<current, reads>>
    BY <1>1, <2>1 DEF ReadTypes, ReadsStrong, ReaderOK
  <2>2. CASE reads' = Reads!Outdated
    <3>1. \A q \in Readers : reads[q] \in ReadRecord
      BY <1>1 DEF ReadTypes
    <3> QED
      BY <2>2, <3>1 DEF Reads!Outdated, Reads!Forgotten, ReadRecord
  <2> QED
    BY <1>2, <2>1, <2>2
<1>6. \A q \in Readers : ReaderOK(reads[q])' /\ reads'[q] \in ReadRecord /\ reads'[q].step = reads[q].step
  BY <1>3, <1>5, ReaderStays
<1>7. ReadTypes'
  <2>1. reads' \in [Readers -> ReadRecord]
    BY <1>5, <1>6
  <2> QED
    BY <1>1, <1>2, <1>3, <1>4, <2>1 DEF ReadTypes, ReadStep
<1>8. OnePublisher'
  BY <1>1, <1>2, <1>6 DEF OnePublisher
<1> QED
  BY <1>3, <1>4, <1>6, <1>7, <1>8, HotStays, BatchesStay DEF ReadsStrong

\* Every step of reads and writes preserves the invariant.
LEMMA ReadsNext == ReadsStrong /\ [Reads!Next]_Reads!vars => ReadsStrong'
<1> SUFFICES ASSUME ReadsStrong, [Reads!Next]_Reads!vars PROVE ReadsStrong'
  OBVIOUS
<1>1. CASE Reads!Next
  BY <1>1, AdmissionKeeps, SourceKeeps, EndBatchKeeps, RoundKeeps, ReadHotKeeps, LoadKeeps, PublishKeeps, EvictKeeps
     DEF Reads!Next
<1>2. CASE UNCHANGED Reads!vars
  <2>1. UNCHANGED <<clock, last, own, stored, replaced, accepted, writing, failed, mutation, current, cleared, hot, lock,
                    reads>>
    BY <1>2 DEF Reads!vars, Reads!writeVars, Reads!cacheVars
  <2>2. ReadTypes' /\ Batches' /\ HotOK' /\ OnePublisher'
    BY <2>1 DEF ReadsStrong, ReadTypes, Batches, HotOK, OnePublisher, Unwritten, AllWritten, Fresh, HeldAt
  <2>3. \A r \in Readers : ReaderOK(reads[r])'
    BY <2>1 DEF ReadsStrong, ReaderOK, Undisturbed, AllWritten, Fresh, HeldAt
  <2> QED
    BY <2>2, <2>3 DEF ReadsStrong
<1> QED
  BY <1>1, <1>2

\* The comparison of capture times and generations is right at all times.
THEOREM ReadsInvariance == Reads!Spec => []ReadsStrong
BY ReadsInit, ReadsNext, PTL DEF Reads!Spec

\* What the run checks of reads follows from it.
LEMMA ReadsFromStrong == ReadsStrong => Reads!ReadsInv /\ Reads!BoundedStaleness
<1> USE ReadsAssumption DEF ReadsAssumption
<1> SUFFICES ASSUME ReadsStrong PROVE Reads!ReadsInv /\ Reads!BoundedStaleness
  OBVIOUS
<1>0. ReadNumbers /\ \A r \in Readers : RecordNumbers(reads[r]) /\ ReaderOK(reads[r])
  BY ReadArithmetic
<1>1. ReadTypes /\ Batches /\ HotOK /\ OnePublisher
  BY DEF ReadsStrong
<1>2. Reads!TypeOK
  <2>1. /\ clock \in 0..MaxClock /\ last \in 1..MaxValues /\ stored \in 1..last /\ own \in 0..last
        /\ accepted \in {0, own} /\ writing.value \in 0..own /\ failed \in BOOLEAN /\ mutation \in Nat
        /\ current <= clock /\ cleared <= clock /\ hot.captured <= clock
    BY <1>0, <1>1 DEF ReadTypes, ReadNumbers, Batches, HotOK
  <2>2. current = -2 => ~hot.mine /\ \A r \in Readers : ~reads[r].mine
    BY <1>0, <1>1 DEF HotOK, ReaderOK
  <2>3. /\ lock \in {NoReader} \cup {r \in Readers : reads[r].step = "put"}
        /\ \A r \in Readers : reads[r].step = "put" => lock = r
    BY <1>1 DEF OnePublisher, ReadTypes
  <2> QED
    BY <2>1, <2>2, <2>3 DEF Reads!TypeOK, Reads!Unregistered
<1>3. Reads!ReadsOwnWrites
  BY <1>0 DEF Reads!ReadsOwnWrites, Reads!Answers, ReaderOK, Undisturbed, ReadNumbers, RecordNumbers
<1>4. Reads!BoundedStaleness
  <2>1. ASSUME NEW r \in Readers, Reads!Answers(r)
        PROVE  replaced[reads[r].value] = -1 \/ replaced[reads[r].value] > reads[r].at - MaxAge
    <3>1. reads[r].value \in 1..MaxValues /\ HeldAt(reads[r].value, reads[r].at - MaxAge + 1)
      BY <1>0, <2>1 DEF Reads!Answers, ReaderOK, RecordNumbers, ReadNumbers
    <3>2. replaced[reads[r].value] \in Int /\ reads[r].at \in Int /\ MaxAge \in Int
      BY <1>0, <3>1 DEF ReadNumbers, RecordNumbers
    <3> QED
      BY <3>1, <3>2 DEF HeldAt
  <2> QED
    BY <2>1 DEF Reads!BoundedStaleness, Reads!NoTime
<1> QED
  BY <1>2, <1>3, <1>4 DEF Reads!ReadsInv

\* A read through the buffer never answers with less than what its owner had
\* accepted when it began, whatever is loaded, published or evicted meanwhile,
\* and one reader at a time publishes.
THEOREM OwnWritesSeen == Reads!Spec => [](Reads!ReadsInv /\ OwnWritesRead)
<1>1. ReadsStrong => Reads!ReadsInv /\ OwnWritesRead
  BY ReadsFromStrong DEF OwnWritesRead
<1> QED
  BY <1>1, ReadsInvariance, PTL

\* No answer is staler than the maximal age, however late it was published and
\* whoever writes the source.
THEOREM NeverTooStale == Reads!Spec => [](Reads!BoundedStaleness /\ StalenessBounded)
<1>1. ReadsStrong => Reads!BoundedStaleness /\ StalenessBounded
  BY ReadsFromStrong DEF StalenessBounded
<1> QED
  BY <1>1, ReadsInvariance, PTL

-----------------------------------------------------------------------------
(***************************************************************************)
(* Turns.  What makes a late commit harmless is spread over the turn's own *)
(* record: a submission is outstanding only for a worker that has raised   *)
(* "unknown", and stays so until the turn is confirmed, loses to another   *)
(* turn or is dropped.  The source keeps a started turn's session as it    *)
(* was when the turn was admitted, so its history continues what the turn  *)
(* was computed on.                                                        *)
(***************************************************************************)

\* Stages of a turn that has been admitted.
Entered == {"admitted", "running", "stopped", "promoted", "done", "forgotten"}

\* Something of t may be, or come to be, in the source.
Exposed(t) == outstanding[t] \/ source.rows[t] # "none"

TurnOK(t) ==
    /\ stage[t] \in Entered => expected[t].active = NoTurn
    /\ Exposed(t) \/ call[t] = "waiting" => stage[t] \in Entered \ {"admitted"}
    /\ call[t] = "waiting" =>
          stage[t] = "running" /\ ~Exposed(t) /\ boundary[t].kind # "none" /\ boundary[t].tool = tool[t]
    /\ outstanding[t] => boundary[t].kind # "none" \/ Beaten(t)
    /\ source.rows[t] # "none" => boundary[t].kind # "none"
    /\ Exposed(t) /\ stage[t] = "running" => error[t] = "unknown"
    /\ Exposed(t) /\ stage[t] = "stopped" => failure[t] \in {"unknown", "lost"} \/ Beaten(t)
    /\ stage[t] = "forgotten" => boundary[t].kind = "none"
    /\ stage[t] \in {"promoted", "done"} => source.rows[t] # "none" /\ source.tools[t] = tool[t]
    /\ stage[t] \notin {"promoted", "done"} /\ source.rows[t] # "none" => source.tools[t] = boundary[t].tool
    /\ boundary[t].kind \in Terminal => boundary[t].tool = tool[t] /\ tool[t] # "claimed" /\ committing[t]
    /\ source.rows[t] = "started" => source.session.history = expected[t].history

HistoryOK ==
    LET h == source.session.history
    IN \A i \in DOMAIN h : source.rows[h[i]] # "none"

PendingStrong ==
    /\ TypeOK
    /\ OneExecutionPerRequest
    /\ ActiveMeansStarted
    /\ LinearHistory
    /\ HistoryOK
    /\ \A t \in Turns : TurnOK(t)

(***************************************************************************)
(* Observers.                                                              *)
(***************************************************************************)
ObserverStrong ==
    /\ AskingLookup /\ Unclaimed => witness
    /\ phase = "identity again" /\ source.identity[Asked] = NoTurn => witness
    /\ phase = "local" \/ Confirming =>
          /\ Inactive => witness
          /\ session.active \in Turns \cup {NoTurn} /\ session.revision \in Nat
          /\ session.revision <= source.session.revision
          /\ session.revision = source.session.revision => session.active = source.session.active
    /\ Confirming /\ ~moved => Locals = {}
    /\ phase = "execution" => session.active # NoTurn
    /\ phase \in {"owner", "session again"} /\ session.active # NoTurn => session.revision < source.session.revision
    /\ phase = "session again" /\ session.revision = source.session.revision /\ ~moved => witness
    /\ phase = "local again" /\ ~moved => witness
    /\ phase \in {"inactive", "absent"} => witness

SourceRecord == [session : Session, identity : [Requests -> Turns \cup {NoTurn}],
                 rows : [Turns -> Row], tools : [Turns -> Tool]]

\* The parts of TypeOK that are not about truth values, and those that are.
TypeOfNames ==
    /\ attempt \in Attempts
    /\ owner \in Turns \cup {NoTurn}
    /\ source \in SourceRecord
    /\ stage \in [Turns -> Stage]
    /\ expected \in [Turns -> Session]
    /\ failure \in [Turns -> Error]
    /\ boundary \in [Turns -> [kind : Kind, tool : Tool]]
    /\ call \in [Turns -> {"idle", "waiting"}]
    /\ error \in [Turns -> Error]
    /\ tool \in [Turns -> Tool]

TypeOfFlags ==
    /\ scoped \in [Turns -> BOOLEAN]
    /\ listed \in [Turns -> BOOLEAN]
    /\ admitted \in [Turns -> BOOLEAN]
    /\ uncertain \in [Turns -> BOOLEAN]
    /\ committing \in [Turns -> BOOLEAN]
    /\ outstanding \in [Turns -> BOOLEAN]

\* The type invariant in two parts.
LEMMA TypeParts == TypeOK <=> TypeOfNames /\ TypeOfFlags
  BY Zenon DEF TypeOK, TypeOfNames, TypeOfFlags, SourceRecord

\* A turn's request is a request.
LEMMA RequestType ==
    ASSUME attempt \in Attempts, NEW t \in Turns
    PROVE  RequestOf(t) \in Requests
  BY DEF RequestOf, Requests

\* What a promotion or a terminal commit of a turn changes in the source.
LEMMA PublishedFields ==
    ASSUME TypeOfNames, NEW t \in Turns, source' = Published(t)
    PROVE  /\ source'.identity = [source.identity EXCEPT ![RequestOf(t)] = t]
           /\ source'.rows = [source.rows EXCEPT ![t] =
                 IF boundary[t].kind = "promote" THEN "started" ELSE boundary[t].kind]
           /\ source'.tools = [source.tools EXCEPT ![t] = boundary[t].tool]
           /\ source'.session.active =
                 IF boundary[t].kind = "promote" THEN t ELSE source.session.active
           /\ source'.session.history =
                 IF boundary[t].kind = "succeeded" THEN Append(source.session.history, t)
                 ELSE source.session.history
           /\ source'.session.revision = source.session.revision + 1
  BY DEF TypeOfNames, Published, SourceRecord

\* The source keeps its type when a turn is published.
LEMMA PublishedType ==
    ASSUME TypeOfNames, NEW t \in Turns
    PROVE  Published(t) \in SourceRecord
  <1> DEFINE kind == boundary[t].kind
             next == [active |-> IF kind = "promote" THEN t ELSE source.session.active,
                      history |-> IF kind = "succeeded" THEN Append(source.session.history, t)
                                  ELSE source.session.history,
                      revision |-> source.session.revision + 1]
  <1>1. source.session \in Session /\ kind \in Kind /\ boundary[t].tool \in Tool
    BY DEF TypeOfNames, SourceRecord
  <1>2. next \in Session
    BY <1>1 DEF Session
  <1>3. (IF kind = "promote" THEN "started" ELSE kind) \in Row
    BY <1>1 DEF Kind, Row
  <1>4. Published(t) = [source EXCEPT !.identity[RequestOf(t)] = t,
            !.rows[t] = IF kind = "promote" THEN "started" ELSE kind,
            !.tools[t] = boundary[t].tool, !.session = next]
    BY DEF Published
  <1>5. source \in SourceRecord
    BY DEF TypeOfNames
  <1> DEFINE mark == IF kind = "promote" THEN "started" ELSE kind
             names == [source.identity EXCEPT ![RequestOf(t)] = t]
             rows == [source.rows EXCEPT ![t] = mark]
             tools == [source.tools EXCEPT ![t] = boundary[t].tool]
  <1>6. /\ names \in [Requests -> Turns \cup {NoTurn}]
        /\ rows \in [Turns -> Row]
        /\ tools \in [Turns -> Tool]
    BY <1>1, <1>3, <1>5 DEF SourceRecord
  <1>7. Published(t) = [session |-> next, identity |-> names, rows |-> rows, tools |-> tools]
    BY <1>4, <1>5 DEF SourceRecord
  <1> HIDE DEF next, names, rows, tools
  <1> QED
    BY <1>2, <1>6, <1>7 DEF SourceRecord

\* The session and the row after a promoted turn has ended.
LEMMA FinishedFields ==
    ASSUME TypeOfNames, NEW t \in Turns, NEW kind \in Terminal, FinishPromoted(t, kind)
    PROVE  /\ source' \in SourceRecord
           /\ source'.identity = source.identity
           /\ source'.rows = [source.rows EXCEPT ![t] = kind]
           /\ source'.tools = source.tools
           /\ source'.session.active = NoTurn
           /\ source'.session.history =
                 IF kind = "succeeded" THEN Append(source.session.history, t)
                 ELSE source.session.history
           /\ source'.session.revision = source.session.revision + 1
  <1> DEFINE next == [active |-> NoTurn,
                      history |-> IF kind = "succeeded" THEN Append(source.session.history, t)
                                  ELSE source.session.history,
                      revision |-> source.session.revision + 1]
  <1>1. source.session \in Session /\ source \in SourceRecord /\ kind \in Row
    BY DEF TypeOfNames, SourceRecord, Terminal, Row
  <1>2. next \in Session
    BY <1>1 DEF Session
  <1>3. source' = [source EXCEPT !.rows[t] = kind, !.session = next]
    BY <1>1 DEF FinishPromoted, SourceRecord
  <1>4. /\ next.active = NoTurn
        /\ next.history = IF kind = "succeeded" THEN Append(source.session.history, t)
                          ELSE source.session.history
        /\ next.revision = source.session.revision + 1
    OBVIOUS
  <1> HIDE DEF next
  <1>5. source'.session = next
    BY <1>1, <1>3 DEF SourceRecord
  <1> QED
    BY <1>1, <1>2, <1>3, <1>4, <1>5 DEF SourceRecord

\* Setting one flag of a turn keeps the flags' type.
LEMMA FlagSet ==
    ASSUME NEW f \in [Turns -> BOOLEAN], NEW t \in Turns, NEW b \in BOOLEAN
    PROVE  [f EXCEPT ![t] = b] \in [Turns -> BOOLEAN]
  BY Zenon

\* The actions of turn t.
StepOf(t) ==
    \/ Request(t) \/ Claim(t) \/ CheckIdentity(t) \/ Admit(t) \/ StartWorker(t)
    \/ StageTool(t) \/ SettleTool(t) \/ SettlePromotedTool(t)
    \/ BeginPromotion(t) \/ Accepted(t) \/ Refused(t) \/ Unknown(t)
    \/ Land(t) \/ Drop(t) \/ WorkerStops(t) \/ Reconcile(t)
    \/ Notice(t) \/ Exit(t) \/ Forget(t)
    \/ \E kind \in Terminal : BeginCommit(t, kind) \/ FinishPromoted(t, kind)

\* Every step keeps the flags' types.
LEMMA FlagsStep ==
    ASSUME TypeOfFlags, NEW t \in Turns, StepOf(t)
    PROVE  TypeOfFlags'
  <1> USE FlagSet DEF TypeOfFlags, runtimeVars, storeVars
  <1>0. ASSUME NEW code, Fail(t, code)
        PROVE  /\ uncertain' \in [Turns -> BOOLEAN]
               /\ admitted' \in [Turns -> BOOLEAN]
    <2>1. (code = "unknown") \in BOOLEAN /\ (admitted[t] /\ code = "unknown") \in BOOLEAN
      BY Zenon
    <2> QED
      BY <1>0, <2>1, Zenon DEF Fail
  <1>1. ASSUME Release(t)
        PROVE  /\ listed' \in [Turns -> BOOLEAN]
               /\ admitted' \in [Turns -> BOOLEAN]
               /\ uncertain' \in [Turns -> BOOLEAN]
    BY <1>1, Zenon DEF Release
  <1>2. ASSUME GiveWay(t)
        PROVE  /\ committing' \in [Turns -> BOOLEAN]
               /\ uncertain' \in [Turns -> BOOLEAN]
               /\ admitted' \in [Turns -> BOOLEAN]
    BY <1>0, <1>2, Zenon DEF GiveWay
  <1>3. CASE Request(t)
    BY <1>3, Zenon DEF Request
  <1>4. CASE Claim(t)
    BY <1>4, Zenon DEF Claim
  <1>5. CASE CheckIdentity(t)
    BY <1>5, Zenon DEF CheckIdentity
  <1>6. CASE Admit(t)
    BY <1>6, Zenon DEF Admit
  <1>7. CASE StartWorker(t)
    BY <1>0, <1>7, Zenon DEF StartWorker
  <1>8. CASE StageTool(t) \/ SettleTool(t) \/ SettlePromotedTool(t)
    BY <1>8, Zenon DEF StageTool, SettleTool, SettlePromotedTool
  <1>9. CASE BeginPromotion(t)
    BY <1>9, Zenon DEF BeginPromotion, Submit
  <1>10. CASE Accepted(t)
    BY <1>1, <1>10, Zenon DEF Accepted
  <1>11. CASE Refused(t)
    BY <1>2, <1>11, Zenon DEF Refused
  <1>12. CASE Unknown(t)
    <2>1. (uncertain[t] \/ boundary[t].kind = "promote") \in BOOLEAN
      BY Zenon
    <2> QED
      BY <1>12, <2>1, Zenon DEF Unknown
  <1>13. CASE Land(t) \/ Drop(t)
    BY <1>13, Zenon DEF Land, Drop
  <1>14. CASE WorkerStops(t)
    BY <1>0, <1>14, Zenon DEF WorkerStops
  <1>15. CASE Reconcile(t)
    <2>1. UNCHANGED <<scoped, outstanding>>
      BY <1>15 DEF Reconcile
    <2>2. CASE ConfirmPromotion(t)
      BY <1>1, <2>1, <2>2, Zenon DEF ConfirmPromotion
    <2>3. CASE ConfirmCommit(t)
      BY <1>1, <1>2, <2>1, <2>3, Zenon DEF ConfirmCommit
    <2> QED
      BY <1>15, <2>2, <2>3 DEF Reconcile
  <1>16. CASE Notice(t)
    BY <1>0, <1>16, Zenon DEF Notice
  <1>17. CASE Exit(t) \/ Forget(t)
    BY <1>17, Zenon DEF Exit, Forget
  <1>18. ASSUME NEW kind \in Terminal, BeginCommit(t, kind) PROVE TypeOfFlags'
    BY <1>18, Zenon DEF BeginCommit, Submit
  <1>19. ASSUME NEW kind \in Terminal, FinishPromoted(t, kind) PROVE TypeOfFlags'
    BY <1>19, Zenon DEF FinishPromoted
  <1> QED
    BY <1>3, <1>4, <1>5, <1>6, <1>7, <1>8, <1>9, <1>10, <1>11, <1>12, <1>13, <1>14, <1>15, <1>16,
       <1>17, <1>18, <1>19, Zenon DEF StepOf

\* Every step keeps the other types.
LEMMA NamesStep ==
    ASSUME TypeOfNames, NEW t \in Turns, StepOf(t), UNCHANGED attempt
    PROVE  TypeOfNames'
  <1> USE DEF TypeOfNames, runtimeVars, storeVars, Stage, Error, Kind, Tool, Terminal
  <1>0. ASSUME NEW code \in Error, Fail(t, code) PROVE failure' \in [Turns -> Error]
    BY <1>0 DEF Fail
  <1>1. ASSUME Release(t) PROVE failure' \in [Turns -> Error]
    BY <1>1 DEF Release
  <1>2. ASSUME GiveWay(t)
        PROVE  /\ failure' \in [Turns -> Error]
               /\ boundary' \in [Turns -> [kind : Kind, tool : Tool]]
    BY <1>0, <1>2 DEF GiveWay
  <1>3. CASE Request(t)
    BY <1>3 DEF Request, SourceRecord
  <1>4. CASE Claim(t)
    BY <1>4 DEF Claim
  <1>5. CASE CheckIdentity(t)
    BY <1>5 DEF CheckIdentity
  <1>6. CASE Admit(t)
    <2>1. UNCHANGED <<owner, source, failure, boundary, call, error, tool>>
      BY <1>6 DEF Admit
    <2>2. expected' = expected \/ expected' = [expected EXCEPT ![t] = source.session]
      BY <1>6, Zenon DEF Admit
    <2>3. \E s \in Stage : stage' = [stage EXCEPT ![t] = s]
      BY <1>6 DEF Admit
    <2>4. stage' \in [Turns -> Stage]
      BY <2>3
    <2>5. expected' \in [Turns -> Session]
      BY <2>2 DEF SourceRecord
    <2> QED
      BY <2>1, <2>4, <2>5
  <1>7. CASE StartWorker(t)
    BY <1>0, <1>7 DEF StartWorker
  <1>8. CASE StageTool(t) \/ SettleTool(t)
    BY ZenonT(60), <1>8 DEF StageTool, SettleTool
  <1>9. CASE SettlePromotedTool(t)
    BY <1>9 DEF SettlePromotedTool, SourceRecord
  <1>10. CASE BeginPromotion(t)
    BY <1>10 DEF BeginPromotion, Submit
  <1>11. CASE Accepted(t)
    <2>1. source' \in SourceRecord
      BY <1>11, PublishedType DEF Accepted
    <2> QED
      BY <1>1, <1>11, <2>1 DEF Accepted, Raise
  <1>12. CASE Refused(t)
    BY SMTT(30), <1>2, <1>12 DEF Refused, Raise
  <1>13. CASE Unknown(t)
    BY <1>13 DEF Unknown, Raise
  <1>14. CASE Land(t) \/ Drop(t)
    <2>1. source' \in SourceRecord
      BY <1>14, PublishedType DEF Land, Drop
    <2> QED
      BY <1>14, <2>1 DEF Land, Drop
  <1>15. CASE WorkerStops(t)
    BY <1>0, <1>15 DEF WorkerStops, Raise
  <1>16. CASE Reconcile(t)
    <2>1. UNCHANGED <<owner, expected, call, error, tool>>
      BY <1>16 DEF Reconcile
    <2>2. CASE ConfirmPromotion(t)
      BY <1>1, <2>1, <2>2 DEF ConfirmPromotion, SourceRecord
    <2>3. CASE ConfirmCommit(t)
      BY <1>1, <1>2, <2>1, <2>3 DEF ConfirmCommit
    <2> QED
      BY <1>16, <2>2, <2>3 DEF Reconcile
  <1>17. CASE Notice(t)
    BY <1>0, <1>17 DEF Notice
  <1>18. CASE Exit(t) \/ Forget(t)
    BY <1>18 DEF Exit, Forget
  <1>19. ASSUME NEW kind \in Terminal, BeginCommit(t, kind) PROVE TypeOfNames'
    BY <1>19 DEF BeginCommit, Submit
  <1>20. ASSUME NEW kind \in Terminal, FinishPromoted(t, kind) PROVE TypeOfNames'
    <2>1. source' \in SourceRecord
      BY <1>20, FinishedFields
    <2> QED
      BY <1>20, <2>1 DEF FinishPromoted
  <1> QED
    BY <1>3, <1>4, <1>5, <1>6, <1>7, <1>8, <1>9, <1>10, <1>11, <1>12, <1>13, <1>14, <1>15, <1>16,
       <1>17, <1>18, <1>19, <1>20, Zenon DEF StepOf

\* Appending keeps the prefixes of a sequence, and makes the sequence itself one.
LEMMA AppendPrefixes ==
    ASSUME NEW S, NEW s \in Seq(S), NEW x \in S, NEW i \in 1..Len(s)
    PROVE  /\ SubSeq(Append(s, x), 1, i - 1) = SubSeq(s, 1, i - 1)
           /\ SubSeq(Append(s, x), 1, Len(s)) = s
           /\ Append(s, x)[i] = s[i]
  <1>1. Append(s, x)[i] = s[i] /\ Append(s, x) \in Seq(S) /\ Len(Append(s, x)) = Len(s) + 1
    OBVIOUS
  <1>2. SubSeq(Append(s, x), 1, Len(s)) = s
    OBVIOUS
  <1>3. SubSeq(Append(s, x), 1, i - 1) = SubSeq(s, 1, i - 1)
    OBVIOUS
  <1> QED
    BY <1>1, <1>2, <1>3

\* The same for the whole sequence, which may be empty.
LEMMA AppendWhole ==
    ASSUME NEW S, NEW s \in Seq(S), NEW x \in S
    PROVE  /\ SubSeq(Append(s, x), 1, Len(s)) = s
           /\ Append(s, x)[Len(s) + 1] = x
           /\ DOMAIN Append(s, x) = 1..(Len(s) + 1)
  OBVIOUS

\* What a step of turn t leaves of the source, and keeps true of it.
SourceKept(t) ==
    /\ \A u \in Turns \ {t} :
          /\ source'.rows[u] = source.rows[u]
          /\ source'.tools[u] = source.tools[u]
          /\ source.rows[u] = "started" => source'.session.history = source.session.history
    /\ \A r \in Requests : source.identity[r] # NoTurn => source'.identity[r] = source.identity[r]
    /\ \A u \in Turns : source.rows[u] \in Terminal => source'.rows[u] = source.rows[u]
    /\ OneExecutionPerRequest' /\ ActiveMeansStarted' /\ HistoryOK' /\ LinearHistory'

\* A step that changes no more of the source than the tool record of t.
LEMMA SourceStill ==
    ASSUME PendingStrong, TypeOfNames, NEW t \in Turns, UNCHANGED attempt,
           source'.session = source.session, source'.identity = source.identity,
           source'.rows = source.rows,
           \A u \in Turns \ {t} : source'.tools[u] = source.tools[u],
           \A u \in Turns : source.rows[u] # "none" => expected'[u] = expected[u]
    PROVE  SourceKept(t)
  <1> DEFINE h == source.session.history
  <1>0. h \in Seq(Turns)
    BY DEF TypeOfNames, SourceRecord, Session
  <1>1. OneExecutionPerRequest' /\ ActiveMeansStarted'
    BY DEF PendingStrong, OneExecutionPerRequest, ActiveMeansStarted, RequestOf
  <1>2. HistoryOK'
    BY DEF PendingStrong, HistoryOK
  <1>3. \A i \in DOMAIN h : expected'[h[i]] = expected[h[i]]
    BY <1>0 DEF PendingStrong, HistoryOK
  <1>4. LinearHistory'
    BY <1>3 DEF PendingStrong, LinearHistory
  <1> QED
    BY <1>1, <1>2, <1>4 DEF SourceKept

\* An appended turn that was computed on the history keeps it linear.
LEMMA HistoryAppend ==
    ASSUME PendingStrong, TypeOfNames, NEW t \in Turns, UNCHANGED expected,
           source.session.history = expected[t].history,
           source'.session.history \in {source.session.history, Append(source.session.history, t)},
           source'.rows[t] # "none",
           \A u \in Turns \ {t} : source'.rows[u] = source.rows[u]
    PROVE  HistoryOK' /\ LinearHistory'
  <1> DEFINE h == source.session.history
  <1>0. h \in Seq(Turns)
    BY DEF TypeOfNames, SourceRecord, Session
  <1>1. ASSUME NEW i \in DOMAIN h PROVE h[i] \in Turns /\ source'.rows[h[i]] # "none"
    BY <1>0 DEF PendingStrong, HistoryOK
  <1>2. ASSUME NEW i \in DOMAIN h PROVE expected'[h[i]].history = SubSeq(h, 1, i - 1)
    BY DEF PendingStrong, LinearHistory
  <1>3. CASE source'.session.history = h
    BY <1>1, <1>2, <1>3 DEF HistoryOK, LinearHistory
  <1>4. CASE source'.session.history = Append(h, t)
    <2>1. DOMAIN Append(h, t) = 1..(Len(h) + 1) /\ DOMAIN h = 1..Len(h) /\ Len(h) \in Nat
      BY <1>0, AppendWhole
    <2>2. ASSUME NEW i \in 1..(Len(h) + 1)
          PROVE  /\ source'.rows[Append(h, t)[i]] # "none"
                 /\ expected'[Append(h, t)[i]].history = SubSeq(Append(h, t), 1, i - 1)
      <3>1. CASE i = Len(h) + 1
        <4>1. Append(h, t)[i] = t /\ SubSeq(Append(h, t), 1, Len(h)) = h /\ i - 1 = Len(h)
          BY <1>0, <2>1, <3>1, AppendWhole
        <4> QED
          BY <4>1
      <3>2. CASE i # Len(h) + 1
        <4>1. i \in 1..Len(h)
          BY <2>1, <3>2
        <4>2. Append(h, t)[i] = h[i] /\ SubSeq(Append(h, t), 1, i - 1) = SubSeq(h, 1, i - 1)
          BY <1>0, <4>1, AppendPrefixes
        <4> QED
          BY <1>1, <1>2, <2>1, <4>1, <4>2
      <3> QED
        BY <3>1, <3>2
    <2> QED
      BY <1>4, <2>1, <2>2 DEF HistoryOK, LinearHistory
  <1> QED
    BY <1>3, <1>4

\* A promotion or a terminal commit: nobody else is started, since the turn was
\* admitted against a session without an active execution.
LEMMA SourcePublished ==
    ASSUME PendingStrong, TypeOfNames, NEW t \in Turns, UNCHANGED <<attempt, expected>>,
           Fits(t), source' = Published(t), boundary[t].kind # "none", expected[t].active = NoTurn
    PROVE  /\ SourceKept(t)
           /\ source.rows[t] = "none"
           /\ source'.rows[t] = IF boundary[t].kind = "promote" THEN "started" ELSE boundary[t].kind
           /\ source'.rows[t] # "none"
           /\ source'.tools[t] = boundary[t].tool
           /\ source'.rows[t] = "started" => source'.session.history = expected[t].history
  <1> DEFINE kind == boundary[t].kind
             r == RequestOf(t)
  <1>0. kind \in Kind /\ r \in Requests /\ source \in SourceRecord /\ NoTurn \notin Turns
    BY RequestType, TurnsAssumption DEF TypeOfNames
  <1>1. source.session.active = NoTurn /\ source.session.history = expected[t].history
        /\ source.identity[r] = NoTurn
    BY DEF Fits
  <1>2. \A u \in Turns : source.rows[u] # "started"
    BY <1>0, <1>1 DEF PendingStrong, ActiveMeansStarted
  <1>3. source.rows[t] = "none"
    BY <1>0, <1>1 DEF PendingStrong, OneExecutionPerRequest
  <1>4. /\ source'.identity = [source.identity EXCEPT ![r] = t]
        /\ source'.rows = [source.rows EXCEPT ![t] = IF kind = "promote" THEN "started" ELSE kind]
        /\ source'.tools = [source.tools EXCEPT ![t] = boundary[t].tool]
        /\ source'.session.active = IF kind = "promote" THEN t ELSE source.session.active
        /\ source'.session.history = IF kind = "succeeded" THEN Append(source.session.history, t)
                                     ELSE source.session.history
    BY PublishedFields
  <1>5. /\ source.rows \in [Turns -> Row] /\ source.tools \in [Turns -> Tool]
        /\ source.identity \in [Requests -> Turns \cup {NoTurn}]
    BY <1>0 DEF SourceRecord
  <1> HIDE DEF kind, r
  <1>6. /\ \A u \in Turns \ {t} : source'.rows[u] = source.rows[u] /\ source'.tools[u] = source.tools[u]
        /\ source'.rows[t] = IF kind = "promote" THEN "started" ELSE kind
        /\ source'.tools[t] = boundary[t].tool
        /\ source'.identity[r] = t
        /\ \A q \in Requests \ {r} : source'.identity[q] = source.identity[q]
    BY <1>0, <1>4, <1>5
  <1>7. source'.rows[t] # "none"
    BY <1>6 DEF kind
  <1>8. HistoryOK' /\ LinearHistory'
    BY <1>1, <1>4, <1>6, <1>7, HistoryAppend
  <1>9. ActiveMeansStarted'
    BY <1>0, <1>1, <1>2, <1>4, <1>6 DEF ActiveMeansStarted, Kind
  <1>10. OneExecutionPerRequest'
    <2>1. ASSUME NEW u \in Turns
          PROVE  source'.rows[u] # "none" <=> source'.identity[RequestOf(u)] = u
      <3>0. RequestOf(u) \in Requests
        BY RequestType DEF TypeOfNames
      <3>1. CASE u = t
        BY <1>6, <1>7, <3>1 DEF r
      <3>2. CASE u # t
        <4>1. source'.rows[u] = source.rows[u]
          BY <1>6, <3>2
        <4>2. source.rows[u] # "none" <=> source.identity[RequestOf(u)] = u
          BY DEF PendingStrong, OneExecutionPerRequest
        <4>3. CASE RequestOf(u) = r
          BY <1>0, <1>1, <1>6, <3>2, <4>1, <4>2, <4>3
        <4>4. CASE RequestOf(u) # r
          BY <1>6, <3>0, <4>1, <4>2, <4>4
        <4> QED
          BY <4>3, <4>4
      <3> QED
        BY <3>1, <3>2
    <2> QED
      BY <2>1 DEF OneExecutionPerRequest, RequestOf
  <1>11. source'.rows[t] = "started" => source'.session.history = expected[t].history
    BY <1>0, <1>1, <1>4, <1>6 DEF Kind
  <1>12. /\ \A q \in Requests : source.identity[q] # NoTurn => source'.identity[q] = source.identity[q]
         /\ \A u \in Turns : source.rows[u] \in Terminal => source'.rows[u] = source.rows[u]
    BY <1>1, <1>3, <1>6 DEF Terminal
  <1>13. SourceKept(t)
    BY <1>2, <1>6, <1>8, <1>9, <1>10, <1>12 DEF SourceKept
  <1> QED
    BY <1>3, <1>6, <1>7, <1>11, <1>13 DEF kind

\* A promoted turn ends: it was the active one.
LEMMA SourceFinished ==
    ASSUME PendingStrong, TypeOfNames, NEW t \in Turns, NEW kind \in Terminal,
           FinishPromoted(t, kind), UNCHANGED attempt
    PROVE  SourceKept(t) /\ source'.rows[t] = kind /\ source'.tools[t] = source.tools[t]
  <1>0. source \in SourceRecord /\ NoTurn \notin Turns
    BY TurnsAssumption DEF TypeOfNames
  <1>1. source.rows[t] = "started" /\ expected' = expected
    BY DEF FinishPromoted
  <1>2. source.session.active = t /\ source.session.history = expected[t].history
    BY <1>1 DEF PendingStrong, ActiveMeansStarted, TurnOK
  <1>3. \A u \in Turns \ {t} : source.rows[u] # "started"
    BY <1>2 DEF PendingStrong, ActiveMeansStarted
  <1>4. /\ source'.identity = source.identity
        /\ source'.rows = [source.rows EXCEPT ![t] = kind]
        /\ source'.tools = source.tools
        /\ source'.session.active = NoTurn
        /\ source'.session.history \in {source.session.history, Append(source.session.history, t)}
    BY FinishedFields
  <1>5. source'.rows[t] = kind /\ \A u \in Turns \ {t} : source'.rows[u] = source.rows[u]
    BY <1>0, <1>4 DEF SourceRecord
  <1>6. kind # "none" /\ kind # "started"
    BY DEF Terminal
  <1>7. HistoryOK' /\ LinearHistory'
    BY <1>1, <1>2, <1>4, <1>5, <1>6, HistoryAppend
  <1>8. ActiveMeansStarted'
    BY <1>0, <1>3, <1>4, <1>5, <1>6 DEF ActiveMeansStarted
  <1>9. OneExecutionPerRequest'
    BY <1>1, <1>4, <1>5, <1>6 DEF PendingStrong, OneExecutionPerRequest, RequestOf
  <1>10. /\ \A q \in Requests : source.identity[q] # NoTurn => source'.identity[q] = source.identity[q]
         /\ \A u \in Turns : source.rows[u] \in Terminal => source'.rows[u] = source.rows[u]
    BY <1>1, <1>4, <1>5 DEF Terminal
  <1> QED
    BY <1>3, <1>4, <1>5, <1>7, <1>8, <1>9, <1>10 DEF SourceKept

\* The record of turn u stays as it is.
Kept(u) ==
    /\ stage'[u] = stage[u]
    /\ expected'[u] = expected[u]
    /\ failure'[u] = failure[u]
    /\ committing'[u] = committing[u]
    /\ boundary'[u] = boundary[u]
    /\ call'[u] = call[u]
    /\ outstanding'[u] = outstanding[u]
    /\ error'[u] = error[u]
    /\ tool'[u] = tool[u]

\* A step of one turn leaves the records of the others alone.
LEMMA OthersKept ==
    ASSUME TypeOfNames, TypeOfFlags, NEW t \in Turns, StepOf(t), NEW u \in Turns, u # t
    PROVE  Kept(u)
  <1>0. \A S : \A f \in [Turns -> S] : \A e : [f EXCEPT ![t] = e][u] = f[u]
    OBVIOUS
  <1> USE <1>0 DEF TypeOfNames, TypeOfFlags, runtimeVars, storeVars, Kept
  <1>1. ASSUME NEW code, Fail(t, code) PROVE failure'[u] = failure[u]
    BY <1>1, Zenon DEF Fail
  <1>2. ASSUME Release(t) PROVE failure'[u] = failure[u]
    BY <1>2, Zenon DEF Release
  <1>3. ASSUME GiveWay(t)
        PROVE  failure'[u] = failure[u] /\ committing'[u] = committing[u] /\ boundary'[u] = boundary[u]
    <2>1. boundary'[u] = boundary[u]
      BY <1>3 DEF GiveWay
    <2> QED
      BY <1>1, <1>3, <2>1, Zenon DEF GiveWay
  <1>4. CASE Request(t) \/ Claim(t) \/ CheckIdentity(t)
    BY <1>4, Zenon DEF Request, Claim, CheckIdentity
  <1>6. CASE Admit(t)
    <2>1. stage'[u] = stage[u] /\ expected'[u] = expected[u]
      BY <1>6, Zenon DEF Admit
    <2> QED
      BY <1>6, <2>1, Zenon DEF Admit
  <1>7. CASE StartWorker(t)
    BY <1>1, <1>7, Zenon DEF StartWorker
  <1>8. CASE StageTool(t) \/ SettleTool(t)
    BY <1>8, Zenon DEF StageTool, SettleTool
  <1>9. CASE SettlePromotedTool(t)
    BY <1>9, Zenon DEF SettlePromotedTool
  <1>10. CASE BeginPromotion(t)
    BY <1>10, Zenon DEF BeginPromotion, Submit
  <1>11. CASE Accepted(t)
    BY <1>2, <1>11, Zenon DEF Accepted, Raise
  <1>12. CASE Refused(t)
    BY <1>3, <1>12, Zenon DEF Refused, Raise
  <1>13. CASE Unknown(t)
    BY <1>13, Zenon DEF Unknown, Raise
  <1>14. CASE Land(t) \/ Drop(t)
    BY <1>14, Zenon DEF Land, Drop
  <1>15. CASE WorkerStops(t)
    BY <1>1, <1>15, Zenon DEF WorkerStops, Raise
  <1>16. CASE Reconcile(t)
    <2>1. UNCHANGED <<expected, call, error, tool, outstanding>>
      BY <1>16 DEF Reconcile
    <2>2. CASE ConfirmPromotion(t)
      BY <1>2, <2>1, <2>2, Zenon DEF ConfirmPromotion
    <2>3. CASE ConfirmCommit(t)
      BY <1>2, <1>3, <2>1, <2>3, Zenon DEF ConfirmCommit
    <2> QED
      BY <1>16, <2>2, <2>3 DEF Reconcile
  <1>17. CASE Notice(t)
    BY <1>1, <1>17, Zenon DEF Notice
  <1>18. CASE Exit(t) \/ Forget(t)
    BY <1>18, Zenon DEF Exit, Forget
  <1>19. ASSUME NEW kind \in Terminal, BeginCommit(t, kind) PROVE Kept(u)
    BY <1>19, Zenon DEF BeginCommit, Submit
  <1>20. ASSUME NEW kind \in Terminal, FinishPromoted(t, kind) PROVE Kept(u)
    BY <1>20, Zenon DEF FinishPromoted
  <1> QED
    BY <1>4, <1>6, <1>7, <1>8, <1>9, <1>10, <1>11, <1>12, <1>13, <1>14, <1>15, <1>16,
       <1>17, <1>18, <1>19, <1>20, Zenon DEF StepOf

\* A turn that has lost its request has lost it for good.
LEMMA BeatenStays ==
    ASSUME TypeOfNames, NEW t \in Turns, SourceKept(t), UNCHANGED attempt,
           NEW u \in Turns, Beaten(u)
    PROVE  Beaten(u)'
  <1> DEFINE r == RequestOf(u)
             w == source.identity[r]
  <1>1. r \in Requests /\ source.identity \in [Requests -> Turns \cup {NoTurn}] /\ RequestOf(u)' = r
    BY RequestType DEF TypeOfNames, SourceRecord, RequestOf
  <1>2. w \in Turns /\ w # u /\ w # NoTurn /\ source.rows[w] \in Terminal
    BY <1>1 DEF Beaten
  <1>3. source'.identity[r] = w /\ source'.rows[w] \in Terminal
    BY <1>1, <1>2 DEF SourceKept
  <1> QED
    BY <1>1, <1>2, <1>3 DEF Beaten

\* The other turns keep their part of the invariant.
LEMMA OtherTurns ==
    ASSUME PendingStrong, TypeOfNames, TypeOfFlags, NEW t \in Turns, StepOf(t), SourceKept(t),
           UNCHANGED attempt, NEW u \in Turns, u # t
    PROVE  TurnOK(u)'
  <1>1. Kept(u)
    BY OthersKept
  <1>2. Beaten(u) => Beaten(u)'
    BY BeatenStays
  <1>3. /\ source'.rows[u] = source.rows[u]
        /\ source'.tools[u] = source.tools[u]
        /\ source.rows[u] = "started" => source'.session.history = source.session.history
    BY DEF SourceKept
  <1>4. Exposed(u)' <=> Exposed(u)
    BY <1>1, <1>3, Zenon DEF Exposed, Kept
  <1>5. TurnOK(u)
    BY DEF PendingStrong
  <1> QED
    BY <1>1, <1>2, <1>3, <1>4, <1>5, Zenon DEF TurnOK, Kept

\* The source keeps its parts of the invariant when a step does not touch it.
LEMMA SourceUntouched ==
    ASSUME PendingStrong, TypeOfNames, NEW t \in Turns, UNCHANGED <<attempt, source>>,
           expected' = expected
           \/ (source.rows[t] = "none" /\ \A u \in Turns \ {t} : expected'[u] = expected[u])
    PROVE  SourceKept(t)
  BY SourceStill

\* A step of turn t keeps the source's and the turn's own part of the invariant.
OwnStep(t) == SourceKept(t) /\ TurnOK(t)'

\* Admission: nothing of the turn can be in the source yet.
LEMMA OwnAdmission ==
    ASSUME PendingStrong, TypeOfNames, TypeOfFlags, NEW t \in Turns, UNCHANGED attempt,
           Request(t) \/ Claim(t) \/ CheckIdentity(t) \/ Admit(t) \/ StartWorker(t)
    PROVE  OwnStep(t)
  <1>0. TurnOK(t) /\ TypeOK
    BY DEF PendingStrong
  <1> USE DEF TypeOfNames, runtimeVars, storeVars
  <1>1. stage[t] \in {"new", "requested", "claimed", "checked", "admitted"}
    BY DEF Request, Claim, CheckIdentity, Admit, StartWorker
  <1>2. ~Exposed(t) /\ call[t] # "waiting" /\ source.rows[t] = "none"
    BY <1>0, <1>1 DEF TurnOK, Entered, Exposed
  <1>3. /\ UNCHANGED <<source, committing, boundary, call, outstanding, error, tool>>
        /\ \/ expected' = expected /\ stage[t] = "admitted"
           \/ expected' = expected /\ stage'[t] \notin Entered
           \/ expected' = [expected EXCEPT ![t] = source.session] /\ stage'[t] \notin Entered
           \/ /\ expected' = [expected EXCEPT ![t] = source.session]
              /\ source.session.active = NoTurn
              /\ stage'[t] = "admitted"
        /\ stage'[t] \notin {"promoted", "done", "forgotten"}
    BY DEF Request, Claim, CheckIdentity, Admit, StartWorker, Entered
  <1>4. stage'[t] \in Entered => expected'[t].active = NoTurn
    BY <1>0, <1>1, <1>3 DEF TurnOK, Entered
  <1>5. SourceKept(t)
    BY <1>2, <1>3, SourceUntouched
  <1>6. ~Exposed(t)' /\ call'[t] # "waiting" /\ source'.rows[t] = "none" /\ ~outstanding'[t]
    BY <1>2, <1>3, Zenon DEF Exposed
  <1>7. boundary'[t].kind \in Terminal =>
           boundary'[t].tool = tool'[t] /\ tool'[t] # "claimed" /\ committing'[t]
    BY <1>0, <1>3, Zenon DEF TurnOK
  <1>8. source'.rows[t] # "started"
    BY <1>6
  <1>9. TurnOK(t)'
    BY <1>3, <1>4, <1>6, <1>7, <1>8, Zenon DEF TurnOK
  <1> QED
    BY <1>5, <1>9 DEF OwnStep

\* Tool operations.
LEMMA OwnTool ==
    ASSUME PendingStrong, TypeOfNames, TypeOfFlags, NEW t \in Turns, UNCHANGED attempt,
           StageTool(t) \/ SettleTool(t)
    PROVE  OwnStep(t)
  <1>0. TurnOK(t) /\ TypeOK
    BY DEF PendingStrong
  <1> USE DEF TypeOfNames, runtimeVars, storeVars
  <1>1. UNCHANGED <<source, stage, expected, failure, committing, boundary, call, outstanding, error>>
    BY DEF StageTool, SettleTool
  <1>2. SourceKept(t)
    BY <1>1, SourceUntouched
  <1>3. stage[t] \in {"running", "stopped"} /\ ~committing[t] /\ call[t] = "idle"
    BY DEF StageTool, SettleTool, Idle
  <1>4. boundary[t].kind \notin Terminal
    BY <1>0, <1>3, Zenon DEF TurnOK
  <1>5. (Beaten(t)' <=> Beaten(t)) /\ (Exposed(t)' <=> Exposed(t))
    BY <1>1, Zenon DEF Beaten, Exposed, RequestOf
  <1>6. stage[t] \notin {"promoted", "done"} /\ call[t] # "waiting"
    BY <1>3
  <1>7. TurnOK(t)'
    BY <1>0, <1>1, <1>4, <1>5, <1>6, Zenon DEF TurnOK
  <1> QED
    BY <1>2, <1>7 DEF OwnStep

\* A tool outcome of a promoted turn goes to the source at once.
LEMMA OwnPromotedTool ==
    ASSUME PendingStrong, TypeOfNames, TypeOfFlags, NEW t \in Turns, UNCHANGED attempt,
           SettlePromotedTool(t)
    PROVE  OwnStep(t)
  <1>0. TurnOK(t) /\ TypeOK
    BY DEF PendingStrong
  <1> USE DEF TypeOfNames, runtimeVars, storeVars
  <1>1. UNCHANGED <<stage, expected, failure, committing, boundary, call, outstanding, error>>
    BY DEF SettlePromotedTool
  <1>2. /\ source'.session = source.session /\ source'.identity = source.identity
        /\ source'.rows = source.rows
        /\ \A u \in Turns \ {t} : source'.tools[u] = source.tools[u]
        /\ source'.tools[t] = "completed" /\ tool'[t] = "completed"
    BY DEF SettlePromotedTool, SourceRecord
  <1>3. SourceKept(t)
    BY <1>1, <1>2, SourceStill
  <1>4. stage[t] = "promoted" /\ tool[t] = "claimed"
    BY DEF SettlePromotedTool
  <1>5. boundary[t].kind \notin Terminal
    BY <1>0, <1>4, Zenon DEF TurnOK
  <1>6. (Beaten(t)' <=> Beaten(t)) /\ (Exposed(t)' <=> Exposed(t))
    BY <1>1, <1>2, Zenon DEF Beaten, Exposed, RequestOf
  <1>7. stage[t] \in {"promoted", "done"} /\ call[t] # "waiting"
    BY <1>0, <1>4 DEF TurnOK
  <1>8. source'.tools[t] = tool'[t]
    BY <1>2
  <1>9. TurnOK(t)'
    BY <1>0, <1>1, <1>2, <1>5, <1>6, <1>7, <1>8, Zenon DEF TurnOK
  <1> QED
    BY <1>3, <1>9 DEF OwnStep

\* Submitting a boundary.
LEMMA OwnSubmit ==
    ASSUME PendingStrong, TypeOfNames, TypeOfFlags, NEW t \in Turns, UNCHANGED attempt,
           BeginPromotion(t) \/ \E kind \in Terminal : BeginCommit(t, kind)
    PROVE  OwnStep(t)
  <1>0. TurnOK(t) /\ TypeOK
    BY DEF PendingStrong
  <1> USE DEF TypeOfNames, runtimeVars, storeVars
  <1>1. PICK kind \in Kind \ {"none"} :
            /\ Submit(t, kind)
            /\ kind \in Terminal => tool[t] # "claimed" /\ committing' = [committing EXCEPT ![t] = TRUE]
            /\ error[t] \in {"none", "rejected"}
    BY DEF BeginPromotion, BeginCommit, Kind, Terminal
  <1>2. UNCHANGED <<source, stage, expected, failure, outstanding, error, tool>>
    BY <1>1 DEF Submit
  <1>3. SourceKept(t)
    BY <1>2, SourceUntouched
  <1>4. stage[t] = "running" /\ error[t] # "unknown"
    BY <1>1 DEF Submit
  <1>5. ~Exposed(t)
    BY <1>0, <1>4, Zenon DEF TurnOK
  <1>6. boundary'[t].kind = kind /\ boundary'[t].tool = tool'[t] /\ call'[t] = "waiting"
    BY <1>1, <1>2 DEF Submit
  <1>7. kind \in Terminal => tool'[t] # "claimed" /\ committing'[t]
    BY <1>1, <1>2, Zenon DEF TypeOfFlags
  <1>8. ~Exposed(t)' /\ ~outstanding'[t] /\ source'.rows[t] = "none"
    BY <1>2, <1>5, Zenon DEF Exposed
  <1>9. expected'[t].active = NoTurn /\ stage'[t] = "running" /\ source'.rows[t] # "started"
        /\ kind # "none" /\ stage'[t] \in Entered \ {"admitted"}
    BY <1>0, <1>2, <1>4, <1>8 DEF TurnOK, Entered
  <1>10. stage'[t] \notin {"forgotten", "promoted", "done"}
    BY <1>9
  <1>11. TurnOK(t)'
    BY <1>6, <1>7, <1>8, <1>9, <1>10, Zenon DEF TurnOK
  <1> QED
    BY <1>3, <1>11 DEF OwnStep

\* The store publishes the boundary and says so.
LEMMA OwnAccepted ==
    ASSUME PendingStrong, TypeOfNames, TypeOfFlags, NEW t \in Turns, UNCHANGED attempt, Accepted(t)
    PROVE  OwnStep(t)
  <1>0. TurnOK(t) /\ TypeOK
    BY DEF PendingStrong
  <1> USE DEF TypeOfNames, runtimeVars, storeVars
  <1>1. /\ call[t] = "waiting" /\ Fits(t) /\ source' = Published(t)
        /\ UNCHANGED <<expected, committing, boundary, outstanding, tool>>
    BY DEF Accepted
  <1>2. stage'[t] \in {"promoted", "done"} /\ call'[t] = "idle"
    BY DEF Accepted
  <1>3. /\ stage[t] = "running" /\ ~Exposed(t)
        /\ boundary[t].kind # "none" /\ boundary[t].tool = tool[t]
    BY <1>0, <1>1, Zenon DEF TurnOK
  <1>4. expected[t].active = NoTurn
    BY <1>0, <1>3 DEF TurnOK, Entered
  <1>5. /\ SourceKept(t)
        /\ source'.rows[t] # "none"
        /\ source'.tools[t] = boundary[t].tool
        /\ source'.rows[t] = "started" => source'.session.history = expected[t].history
    BY <1>1, <1>3, <1>4, SourcePublished
  <1>6. ~outstanding'[t]
    BY <1>1, <1>3, Zenon DEF Exposed
  <1>7. boundary'[t].kind \in Terminal =>
           boundary'[t].tool = tool'[t] /\ tool'[t] # "claimed" /\ committing'[t]
    BY <1>0, <1>1, Zenon DEF TurnOK
  <1>8. /\ stage'[t] \in Entered \ {"admitted"}
        /\ stage'[t] # "running" /\ stage'[t] # "stopped" /\ stage'[t] # "forgotten"
        /\ call'[t] # "waiting"
    BY <1>2 DEF Entered
  <1>9. TurnOK(t)'
    BY <1>1, <1>2, <1>3, <1>4, <1>5, <1>6, <1>7, <1>8, Zenon DEF TurnOK
  <1> QED
    BY <1>5, <1>9 DEF OwnStep

\* The store refuses, or nobody knows.
LEMMA OwnAnswered ==
    ASSUME PendingStrong, TypeOfNames, TypeOfFlags, NEW t \in Turns, UNCHANGED attempt,
           Refused(t) \/ Unknown(t)
    PROVE  OwnStep(t)
  <1>0. TurnOK(t) /\ TypeOK
    BY DEF PendingStrong
  <1> USE DEF TypeOfNames, runtimeVars, storeVars
  <1>1. /\ call[t] = "waiting" /\ call'[t] = "idle"
        /\ UNCHANGED <<source, stage, expected, tool>>
    BY DEF Refused, Unknown
  <1>2. SourceKept(t)
    BY <1>1, SourceUntouched
  <1>3. /\ stage[t] = "running" /\ ~Exposed(t)
        /\ boundary[t].kind # "none" /\ boundary[t].tool = tool[t]
    BY <1>0, <1>1, Zenon DEF TurnOK
  <1>4. source'.rows[t] = "none" /\ ~outstanding[t]
    BY <1>1, <1>3, Zenon DEF Exposed
  <1>5. /\ stage'[t] = "running" /\ expected'[t].active = NoTurn /\ source'.rows[t] # "started"
        /\ stage'[t] \in Entered \ {"admitted"} /\ stage'[t] \notin {"stopped", "forgotten", "promoted", "done"}
        /\ call'[t] # "waiting"
    BY <1>0, <1>1, <1>3, <1>4 DEF TurnOK, Entered
  <1>6. boundary[t].kind \in Terminal => tool[t] # "claimed" /\ committing[t]
    BY <1>0, Zenon DEF TurnOK
  <1>7. CASE Refused(t)
    <2>1. outstanding' = outstanding
      BY <1>7 DEF Refused
    <2>2. (boundary' = boundary /\ committing' = committing) \/ boundary'[t].kind = "none"
      BY <1>7 DEF Refused, GiveWay
    <2>3. boundary'[t].kind \in Terminal =>
             boundary'[t].tool = tool'[t] /\ tool'[t] # "claimed" /\ committing'[t]
      <3>1. CASE boundary' = boundary /\ committing' = committing
        BY <1>1, <1>3, <1>6, <3>1, Zenon
      <3>2. CASE boundary'[t].kind = "none"
        BY <3>2 DEF Terminal
      <3> QED
        BY <2>2, <3>1, <3>2
    <2>4. ~outstanding'[t] /\ ~Exposed(t)'
      BY <1>4, <2>1, Zenon DEF Exposed
    <2>5. TurnOK(t)'
      BY <1>4, <1>5, <2>3, <2>4, Zenon DEF TurnOK
    <2> QED
      BY <1>2, <2>5 DEF OwnStep
  <1>8. CASE Unknown(t)
    <2>1. boundary' = boundary /\ committing' = committing /\ error'[t] = "unknown"
      BY <1>8 DEF Unknown, Raise
    <2>2. /\ boundary'[t].kind # "none"
          /\ boundary'[t].kind \in Terminal =>
                boundary'[t].tool = tool'[t] /\ tool'[t] # "claimed" /\ committing'[t]
      BY <1>1, <1>3, <1>6, <2>1, Zenon
    <2>3. stage'[t] # "stopped" /\ stage'[t] # "forgotten"
      BY <1>5
    <2>4. TurnOK(t)'
      BY <1>4, <1>5, <2>1, <2>2, <2>3, Zenon DEF TurnOK
    <2> QED
      BY <1>2, <2>4 DEF OwnStep
  <1> QED
    BY <1>7, <1>8

\* A forsaken submission lands, or is gone.
LEMMA OwnLanding ==
    ASSUME PendingStrong, TypeOfNames, TypeOfFlags, NEW t \in Turns, UNCHANGED attempt,
           Land(t) \/ Drop(t)
    PROVE  OwnStep(t)
  <1>0. TurnOK(t) /\ TypeOK
    BY DEF PendingStrong
  <1> USE DEF TypeOfNames, runtimeVars, storeVars
  <1>1. /\ outstanding[t]
        /\ UNCHANGED <<stage, expected, failure, committing, boundary, call, error, tool>>
        /\ outstanding' = [outstanding EXCEPT ![t] = FALSE]
    BY DEF Land, Drop
  <1>2. ~outstanding'[t]
    BY <1>1, Zenon DEF TypeOfFlags
  <1>3. Exposed(t) /\ stage[t] \in Entered \ {"admitted"} /\ call[t] # "waiting"
    BY <1>0, <1>1, Zenon DEF TurnOK, Exposed
  <1>4. expected[t].active = NoTurn
    BY <1>0, <1>3 DEF TurnOK
  <1>5. (source' = Published(t) /\ Fits(t)) \/ source' = source
    BY DEF Land, Drop
  <1>6. CASE source' = source
    <2>1. SourceKept(t)
      BY <1>1, <1>6, SourceUntouched
    <2>2. (Exposed(t)' => Exposed(t)) /\ (Beaten(t)' <=> Beaten(t))
      BY <1>2, <1>6, Zenon DEF Exposed, Beaten, RequestOf
    <2>3. TurnOK(t)'
      BY <1>0, <1>1, <1>2, <1>3, <1>6, <2>2, Zenon DEF TurnOK
    <2> QED
      BY <2>1, <2>3 DEF OwnStep
  <1>7. CASE source' = Published(t) /\ Fits(t)
    <2>1. ~Beaten(t)
      BY <1>7 DEF Fits, Beaten
    <2>2. boundary[t].kind # "none"
      BY <1>0, <1>1, <2>1, Zenon DEF TurnOK
    <2>3. /\ SourceKept(t)
          /\ source.rows[t] = "none" /\ source'.rows[t] # "none"
          /\ source'.tools[t] = boundary[t].tool
          /\ source'.rows[t] = "started" => source'.session.history = expected[t].history
      BY <1>1, <1>4, <1>7, <2>2, SourcePublished
    <2>4. stage[t] \notin {"promoted", "done"} /\ stage[t] # "forgotten"
      BY <1>0, <2>2, <2>3 DEF TurnOK
    <2>5. /\ stage[t] = "running" => error[t] = "unknown"
          /\ stage[t] = "stopped" => failure[t] \in {"unknown", "lost"}
      BY <1>0, <1>3, <2>1, Zenon DEF TurnOK
    <2>6. boundary[t].kind \in Terminal => boundary[t].tool = tool[t] /\ tool[t] # "claimed" /\ committing[t]
      BY <1>0, Zenon DEF TurnOK
    <2>7. TurnOK(t)'
      BY <1>1, <1>2, <1>3, <1>4, <2>2, <2>3, <2>4, <2>5, <2>6, Zenon DEF TurnOK
    <2> QED
      BY <2>3, <2>7 DEF OwnStep
  <1> QED
    BY <1>5, <1>6, <1>7

\* The end of a worker, a loss of authority, the end of the scope and of the
\* turn's record: the source does not move.
LEMMA OwnEnding ==
    ASSUME PendingStrong, TypeOfNames, TypeOfFlags, NEW t \in Turns, UNCHANGED attempt,
           WorkerStops(t) \/ Notice(t) \/ Exit(t) \/ Forget(t)
    PROVE  OwnStep(t)
  <1>0. TurnOK(t) /\ TypeOK
    BY DEF PendingStrong
  <1> USE DEF TypeOfNames, runtimeVars, storeVars
  <1>1. UNCHANGED <<source, expected, committing, boundary, call, outstanding, tool>>
    BY DEF WorkerStops, Notice, Exit, Forget
  <1>2. SourceKept(t)
    BY <1>1, SourceUntouched
  <1>3. (Exposed(t)' <=> Exposed(t)) /\ (Beaten(t)' <=> Beaten(t))
    BY <1>1, Zenon DEF Exposed, Beaten, RequestOf
  <1>4. /\ Exposed(t) /\ stage[t] = "running" => error[t] = "unknown"
        /\ Exposed(t) /\ stage[t] = "stopped" => failure[t] \in {"unknown", "lost"} \/ Beaten(t)
    BY <1>0, Zenon DEF TurnOK
  <1>5. \/ stage' = stage
        \/ stage[t] = "running" /\ stage'[t] = "stopped" /\ call[t] = "idle"
        \/ stage[t] = "stopped" /\ stage'[t] = "forgotten" /\ boundary[t].kind = "none" /\ call[t] = "idle"
    BY DEF WorkerStops, Notice, Exit, Forget, Idle
  <1>6. /\ Exposed(t) /\ stage'[t] = "running" => error'[t] = "unknown"
        /\ Exposed(t) /\ stage'[t] = "stopped" => failure'[t] \in {"unknown", "lost"} \/ Beaten(t)
    BY <1>4 DEF WorkerStops, Notice, Exit, Forget, Fail, Raise
  <1>7. CASE stage' = stage
    <2>1. TurnOK(t)'
      BY <1>0, <1>1, <1>3, <1>6, <1>7, Zenon DEF TurnOK
    <2> QED
      BY <1>2, <2>1 DEF OwnStep
  <1>8. CASE stage' # stage
    <2>1. /\ stage[t] \in Entered \ {"admitted"} /\ stage'[t] \in Entered \ {"admitted"}
          /\ stage'[t] \notin {"promoted", "done"} /\ stage[t] \notin {"promoted", "done"}
          /\ stage'[t] = "forgotten" => boundary[t].kind = "none"
          /\ call[t] # "waiting"
      BY <1>5, <1>8 DEF Entered
    <2>2. TurnOK(t)'
      BY <1>0, <1>1, <1>3, <1>6, <2>1, Zenon DEF TurnOK
    <2> QED
      BY <1>2, <2>2 DEF OwnStep
  <1> QED
    BY <1>7, <1>8

\* A boundary of unknown outcome is found in the source, or another turn's
\* result in its place.
LEMMA OwnReconcile ==
    ASSUME PendingStrong, TypeOfNames, TypeOfFlags, NEW t \in Turns, UNCHANGED attempt, Reconcile(t)
    PROVE  OwnStep(t)
  <1>0. TurnOK(t) /\ TypeOK
    BY DEF PendingStrong
  <1> USE DEF TypeOfNames, runtimeVars, storeVars
  <1>1. call[t] = "idle" /\ UNCHANGED <<expected, call, outstanding, error, tool>>
    BY DEF Reconcile, Idle
  <1>2. call[t] # "waiting"
    BY <1>1
  <1>3. \/ ConfirmPromotion(t)
        \/ ConfirmCommit(t) /\ source.rows[t] \in Terminal /\ stage'[t] = "done"
           /\ UNCHANGED <<source, committing, boundary>>
        \/ Beaten(t) /\ GiveWay(t) /\ UNCHANGED <<source, stage>>
    BY DEF Reconcile, ConfirmCommit
  <1>4. boundary[t].kind \in Terminal => boundary[t].tool = tool[t] /\ tool[t] # "claimed" /\ committing[t]
    BY <1>0, Zenon DEF TurnOK
  <1>5. CASE ConfirmPromotion(t)
    <2>1. /\ UNCHANGED <<committing, boundary>>
          /\ stage'[t] = "promoted" /\ source.rows[t] = "started"
          /\ source'.session = source.session /\ source'.identity = source.identity
          /\ source'.rows = source.rows
          /\ \A u \in Turns \ {t} : source'.tools[u] = source.tools[u]
          /\ source'.tools[t] = tool[t]
      BY <1>5 DEF ConfirmPromotion, SourceRecord
    <2>2. SourceKept(t)
      BY <1>1, <2>1, SourceStill
    <2>3. /\ stage'[t] \in Entered \ {"admitted"} /\ stage'[t] \in {"promoted", "done"}
          /\ stage'[t] # "running" /\ stage'[t] # "stopped" /\ stage'[t] # "forgotten"
          /\ source.rows[t] # "none"
      BY <2>1 DEF Entered
    <2>4. stage[t] \in Entered /\ boundary[t].kind # "none" /\ source.session.history = expected[t].history
      BY <1>0, <2>1, <2>3, Zenon DEF TurnOK, Exposed
    <2>5. expected[t].active = NoTurn
      BY <1>0, <2>4, Zenon DEF TurnOK
    <2>6. TurnOK(t)'
      BY <1>1, <1>2, <1>4, <2>1, <2>3, <2>4, <2>5, Zenon DEF TurnOK
    <2> QED
      BY <2>2, <2>6 DEF OwnStep
  <1>6. CASE ConfirmCommit(t) /\ source.rows[t] \in Terminal /\ stage'[t] = "done"
             /\ UNCHANGED <<source, committing, boundary>>
    <2>1. SourceKept(t)
      BY <1>1, <1>6, SourceUntouched
    <2>2. /\ stage'[t] \in Entered \ {"admitted"} /\ stage'[t] \in {"promoted", "done"}
          /\ stage'[t] # "running" /\ stage'[t] # "stopped" /\ stage'[t] # "forgotten"
          /\ source.rows[t] # "none" /\ source.rows[t] # "started" /\ boundary[t].kind \in Terminal
      BY <1>6 DEF Entered, Terminal, ConfirmCommit
    <2>3. /\ stage[t] \in Entered /\ boundary[t].kind # "none"
          /\ source.tools[t] = tool[t]
      BY <1>0, <1>4, <2>2, Zenon DEF TurnOK, Exposed
    <2>4. expected[t].active = NoTurn
      BY <1>0, <2>3, Zenon DEF TurnOK
    <2>5. TurnOK(t)'
      BY <1>1, <1>2, <1>4, <1>6, <2>2, <2>3, <2>4, Zenon DEF TurnOK
    <2> QED
      BY <2>1, <2>5 DEF OwnStep
  <1>7. CASE Beaten(t) /\ GiveWay(t) /\ UNCHANGED <<source, stage>>
    <2>1. SourceKept(t)
      BY <1>1, <1>7, SourceUntouched
    <2>2. boundary'[t].kind = "none" /\ "none" \notin Terminal
      BY <1>7 DEF GiveWay, Terminal
    <2>3. source.rows[t] = "none"
      BY <1>7 DEF PendingStrong, OneExecutionPerRequest, Beaten
    <2>4. Beaten(t)' /\ (Exposed(t)' <=> Exposed(t)) /\ source.rows[t] # "started"
      BY <1>1, <1>7, <2>3, Zenon DEF Exposed, Beaten, RequestOf
    <2>5. TurnOK(t)'
      BY <1>0, <1>1, <1>2, <1>7, <2>2, <2>3, <2>4, Zenon DEF TurnOK
    <2> QED
      BY <2>1, <2>5 DEF OwnStep
  <1> QED
    BY <1>3, <1>5, <1>6, <1>7

\* A promoted turn ends.
LEMMA OwnFinish ==
    ASSUME PendingStrong, TypeOfNames, TypeOfFlags, NEW t \in Turns, UNCHANGED attempt,
           NEW kind \in Terminal, FinishPromoted(t, kind)
    PROVE  OwnStep(t)
  <1>0. TurnOK(t) /\ TypeOK
    BY DEF PendingStrong
  <1> USE DEF TypeOfNames, runtimeVars, storeVars
  <1>1. /\ stage[t] = "promoted" /\ stage'[t] = "done" /\ source.rows[t] = "started"
        /\ UNCHANGED <<expected, failure, committing, boundary, call, outstanding, error, tool>>
    BY DEF FinishPromoted
  <1>2. SourceKept(t) /\ source'.rows[t] = kind /\ source'.tools[t] = source.tools[t]
    BY SourceFinished
  <1>3. /\ stage'[t] \in Entered \ {"admitted"} /\ stage'[t] \in {"promoted", "done"}
        /\ stage'[t] # "running" /\ stage'[t] # "stopped" /\ stage'[t] # "forgotten"
        /\ kind # "none" /\ kind # "started" /\ call[t] # "waiting"
    BY <1>0, <1>1 DEF Entered, Terminal, TurnOK
  <1>4. stage[t] \in Entered /\ stage[t] \in {"promoted", "done"} /\ source.rows[t] # "none"
    BY <1>1 DEF Entered
  <1>5. /\ expected[t].active = NoTurn /\ source.tools[t] = tool[t] /\ boundary[t].kind # "none"
        /\ boundary[t].kind \in Terminal => boundary[t].tool = tool[t] /\ tool[t] # "claimed" /\ committing[t]
    BY <1>0, <1>4, Zenon DEF TurnOK
  <1>6. TurnOK(t)'
    BY <1>1, <1>2, <1>3, <1>5, Zenon DEF TurnOK
  <1> QED
    BY <1>2, <1>6 DEF OwnStep

\* Every step keeps the invariant.
LEMMA PendingStep == PendingStrong /\ [Next]_vars => PendingStrong'
  <1> SUFFICES ASSUME PendingStrong, [Next]_vars PROVE PendingStrong'
    OBVIOUS
  <1>0. TypeOfNames /\ TypeOfFlags
    BY TypeParts DEF PendingStrong
  <1>1. ASSUME NEW t \in Turns, StepOf(t), UNCHANGED attempt PROVE PendingStrong'
    <2>1. TypeOK'
      <3>1. TypeOfNames' /\ TypeOfFlags'
        BY <1>0, <1>1, NamesStep, FlagsStep
      <3> QED
        BY <3>1, Zenon DEF TypeOK, TypeOfNames, TypeOfFlags, SourceRecord
    <2>2. OwnStep(t)
      <3>1. ASSUME NEW kind \in Terminal, FinishPromoted(t, kind) PROVE OwnStep(t)
        BY <1>0, <1>1, <3>1, OwnFinish
      <3>2. CASE Request(t) \/ Claim(t) \/ CheckIdentity(t) \/ Admit(t) \/ StartWorker(t)
        BY <1>0, <1>1, <3>2, OwnAdmission
      <3>3. CASE StageTool(t) \/ SettleTool(t)
        BY <1>0, <1>1, <3>3, OwnTool
      <3>4. CASE SettlePromotedTool(t)
        BY <1>0, <1>1, <3>4, OwnPromotedTool
      <3>5. CASE BeginPromotion(t) \/ \E kind \in Terminal : BeginCommit(t, kind)
        BY <1>0, <1>1, <3>5, OwnSubmit
      <3>6. CASE Accepted(t)
        BY <1>0, <1>1, <3>6, OwnAccepted
      <3>7. CASE Refused(t) \/ Unknown(t)
        BY <1>0, <1>1, <3>7, OwnAnswered
      <3>8. CASE Land(t) \/ Drop(t)
        BY <1>0, <1>1, <3>8, OwnLanding
      <3>9. CASE Reconcile(t)
        BY <1>0, <1>1, <3>9, OwnReconcile
      <3>10. CASE WorkerStops(t) \/ Notice(t) \/ Exit(t) \/ Forget(t)
        BY <1>0, <1>1, <3>10, OwnEnding
      <3> QED
        BY <1>1, <3>1, <3>2, <3>3, <3>4, <3>5, <3>6, <3>7, <3>8, <3>9, <3>10, Zenon DEF StepOf
    <2>3. \A u \in Turns : TurnOK(u)'
      BY <1>0, <1>1, <2>2, OtherTurns DEF OwnStep
    <2> QED
      BY <2>1, <2>2, <2>3, Zenon DEF PendingStrong, OwnStep, SourceKept
  <1>2. ASSUME Expire \/ UNCHANGED vars, UNCHANGED attempt PROVE PendingStrong'
    <2>1. /\ UNCHANGED <<attempt, source, stage, scoped, expected, listed, admitted, failure, uncertain,
                         committing, boundary, call, outstanding, error, tool>>
          /\ owner' \in {NoTurn, owner}
      BY <1>2 DEF Expire, vars, runtimeVars, storeVars
    <2>2. TypeOK'
      BY <1>0, <2>1, Zenon DEF TypeOK, TypeOfNames, TypeOfFlags, SourceRecord
    <2>3. \A u \in Turns : TurnOK(u)'
      BY ZenonT(60), <2>1 DEF PendingStrong, TurnOK, Exposed, Beaten, RequestOf
    <2>4. OneExecutionPerRequest' /\ ActiveMeansStarted' /\ LinearHistory' /\ HistoryOK'
      BY <2>1, Zenon DEF PendingStrong, OneExecutionPerRequest, ActiveMeansStarted, LinearHistory,
                         HistoryOK, RequestOf
    <2> QED
      BY <2>2, <2>3, <2>4, Zenon DEF PendingStrong
  <1>3. Next => \/ \E t \in Turns : StepOf(t) /\ UNCHANGED attempt
                \/ Expire /\ UNCHANGED attempt
    BY Zenon DEF Next, StepOf
  <1>4. UNCHANGED vars => UNCHANGED attempt
    BY DEF vars
  <1> QED
    BY <1>1, <1>2, <1>3, <1>4, Zenon

\* Turns start without a trace in the source.
LEMMA PendingInit == Init => PendingStrong
  <1> SUFFICES ASSUME Init PROVE PendingStrong
    OBVIOUS
  <1>0. NoTurn \notin Turns
    BY TurnsAssumption
  <1> DEFINE s0 == [active |-> NoTurn, history |-> <<>>, revision |-> 0]
  <1>1. /\ s0 \in Session /\ s0.active = NoTurn /\ s0.history = <<>>
        /\ source \in SourceRecord
        /\ source.session = s0 /\ source.identity = [r \in Requests |-> NoTurn]
        /\ source.rows = [t \in Turns |-> "none"]
    BY DEF Init, SourceRecord, Session, Row, Tool
  <1> HIDE DEF s0
  <1>2. TypeOfNames
    BY <1>1 DEF Init, TypeOfNames, Stage, Error, Kind, Tool
  <1>3. TypeOfFlags
    BY Zenon DEF Init, TypeOfFlags
  <1>4. OneExecutionPerRequest
    <2>1. \A t \in Turns : source.rows[t] = "none" /\ source.identity[RequestOf(t)] = NoTurn
      BY <1>1, <1>2, RequestType DEF TypeOfNames
    <2> QED
      BY <1>0, <2>1 DEF OneExecutionPerRequest
  <1>5. ActiveMeansStarted
    BY <1>0, <1>1 DEF ActiveMeansStarted
  <1>6. LinearHistory /\ HistoryOK
    BY <1>1 DEF LinearHistory, HistoryOK
  <1>7. ASSUME NEW t \in Turns PROVE TurnOK(t)
    <2>1. /\ stage[t] = "new" /\ source.rows[t] = "none" /\ call[t] = "idle"
          /\ boundary[t].kind = "none"
      BY <1>1 DEF Init
    <2>2. ~outstanding[t]
      BY Zenon DEF Init
    <2>3. ~Exposed(t)
      BY <2>1, <2>2, Zenon DEF Exposed
    <2>4. /\ stage[t] \notin Entered /\ call[t] # "waiting" /\ boundary[t].kind \notin Terminal
          /\ stage[t] # "forgotten" /\ stage[t] \notin {"promoted", "done"}
          /\ source.rows[t] # "started"
      BY <2>1 DEF Entered, Terminal
    <2> QED
      BY <2>1, <2>2, <2>3, <2>4, Zenon DEF TurnOK
  <1> QED
    BY <1>2, <1>3, <1>4, <1>5, <1>6, <1>7, TypeParts DEF PendingStrong

\* PendingTurn: the inductive invariant of the turns holds in every state.
THEOREM PendingInvariance == Spec => []PendingStrong
  BY PendingInit, PendingStep, PTL DEF Spec

\* What the invariant says of a turn that failed or was forgotten.
LEMMA FailureFollows == PendingStrong => FailureIsFinal
  <1> SUFFICES ASSUME PendingStrong, NEW t \in Turns,
                      stage[t] = "forgotten"
                      \/ (stage[t] = "stopped" /\ failure[t] \in {"rejected", "conflict"})
               PROVE  source.rows[t] = "none" /\ (outstanding[t] => Beaten(t))
    BY Zenon DEF FailureIsFinal
  <1>1. TurnOK(t)
    BY DEF PendingStrong
  <1>2. Beaten(t) => source.rows[t] = "none"
    BY DEF PendingStrong, OneExecutionPerRequest, Beaten
  <1>3. CASE stage[t] = "forgotten"
    BY <1>1, <1>3, Zenon DEF TurnOK
  <1>4. CASE stage[t] = "stopped" /\ failure[t] \in {"rejected", "conflict"}
    <2>1. failure[t] \notin {"unknown", "lost"}
      BY <1>4
    <2>2. Exposed(t) => Beaten(t)
      BY <1>1, <1>4, <2>1, Zenon DEF TurnOK
    <2> QED
      BY <1>2, <2>2, Zenon DEF Exposed
  <1> QED
    BY <1>3, <1>4

\* PendingTurn: whatever lands late, one request gives one durable execution, a
\* reported failure is final and a session is active exactly while a promoted
\* turn of it is unfinished.
THEOREM OneExecutionEach == Spec => [](PendingInv /\ OneExecution)
  <1>1. PendingStrong => PendingInv /\ OneExecution
    BY FailureFollows DEF PendingStrong, PendingInv, OneExecution
  <1> QED
    BY <1>1, PendingInvariance, PTL

\* PendingTurn: the history of a session is linear, each published turn was
\* computed on exactly the turns before it.
THEOREM HistoryLinear == Spec => [](LinearHistory /\ OneHistory)
  <1>1. PendingStrong => LinearHistory /\ OneHistory
    BY DEF PendingStrong, OneHistory
  <1> QED
    BY <1>1, PendingInvariance, PTL

\* PendingTurn: the source has the outcome of the tool operation of every
\* promoted turn, one that came in while the promotion was uncertain included.
THEOREM ToolOutcomesKept == Spec => [](ToolOutcomeKept /\ ToolsKept)
  <1>1. PendingStrong => ToolOutcomeKept /\ ToolsKept
    BY DEF PendingStrong, TurnOK, ToolOutcomeKept, ToolsKept
  <1> QED
    BY <1>1, PendingInvariance, PTL

(***************************************************************************)
(* Observers.  Their reads lie apart, so what they rely on is what moves   *)
(* one way: the revision of the session goes up whenever the session       *)
(* changes, and a recorded request stays recorded.                         *)
(***************************************************************************)

\* A change of the session raises its revision, and a request that is not
\* recorded after a step was not recorded before.
LEMMA SourceForward ==
    ASSUME PendingStrong, [Next]_vars
    PROVE  /\ source.session.revision \in Nat
           /\ source'.session = source.session \/ source'.session.revision = source.session.revision + 1
           /\ \A r \in Requests : source'.identity[r] = NoTurn => source.identity[r] = NoTurn
  <1>0. TypeOfNames /\ source.session.revision \in Nat /\ NoTurn \notin Turns
    BY TypeParts, TurnsAssumption DEF PendingStrong, TypeOfNames, SourceRecord, Session
  <1>1. CASE source'.session = source.session /\ source'.identity = source.identity
    BY <1>0, <1>1
  <1>2. ASSUME NEW t \in Turns, source' = Published(t), Fits(t)
        PROVE  /\ source'.session.revision = source.session.revision + 1
               /\ \A r \in Requests : source'.identity[r] = NoTurn => source.identity[r] = NoTurn
    <2>1. /\ source'.session.revision = source.session.revision + 1
          /\ source'.identity = [source.identity EXCEPT ![RequestOf(t)] = t]
      BY <1>0, <1>2, PublishedFields
    <2>2. source.identity \in [Requests -> Turns \cup {NoTurn}]
      BY <1>0 DEF TypeOfNames, SourceRecord
    <2> QED
      BY <1>0, <2>1, <2>2
  <1>3. ASSUME NEW t \in Turns, NEW kind \in Terminal, FinishPromoted(t, kind)
        PROVE  /\ source'.session.revision = source.session.revision + 1
               /\ source'.identity = source.identity
    BY <1>0, <1>3, FinishedFields
  <1>4. ASSUME NEW t \in Turns, StepOf(t)
        PROVE  \/ source'.session = source.session /\ source'.identity = source.identity
               \/ source' = Published(t) /\ Fits(t)
               \/ \E kind \in Terminal : FinishPromoted(t, kind)
    <2>1. \/ source' = source
          \/ \E x : source' = [source EXCEPT !.tools[t] = x]
          \/ source' = Published(t) /\ Fits(t)
          \/ \E kind \in Terminal : FinishPromoted(t, kind)
      BY <1>4, Zenon DEF StepOf, Request, Claim, CheckIdentity, Admit, StartWorker, StageTool, SettleTool,
         SettlePromotedTool, BeginPromotion, BeginCommit, Submit, Accepted, Refused, Unknown, Land, Drop,
         WorkerStops, Reconcile, ConfirmPromotion, ConfirmCommit, Notice, Exit, Forget
    <2>2. ASSUME NEW x, source' = [source EXCEPT !.tools[t] = x]
          PROVE  source'.session = source.session /\ source'.identity = source.identity
      BY <1>0, <2>2 DEF TypeOfNames, SourceRecord
    <2> QED
      BY <2>1, <2>2, Zenon
  <1>5. \/ \E t \in Turns : StepOf(t)
        \/ source' = source
    BY DEF Next, StepOf, Expire, vars
  <1> QED
    BY <1>0, <1>1, <1>2, <1>3, <1>4, <1>5

\* A step of the turns keeps what the observer relies on.
LEMMA ObserverTurnStep ==
    ASSUME PendingStrong, PendingStrong', ObserverStrong, TurnStep
    PROVE  ObserverStrong'
  <1>0. /\ source.session.revision \in Nat
        /\ source'.session = source.session \/ source'.session.revision = source.session.revision + 1
        /\ source'.identity[Asked] = NoTurn => source.identity[Asked] = NoTurn
    BY SourceForward, ObserverAssumption DEF TurnStep
  <1>1. UNCHANGED <<phase, session>>
    BY DEF TurnStep
  <1>2. (witness => witness') /\ (AskingLookup /\ Unclaimed' => witness')
    BY Zenon DEF TurnStep, Asking
  <1>3. phase = "local" \/ Confirming => ~AskingLookup
    BY DEF Confirming, AskingLookup
  <1>4. (phase = "local" \/ Confirming) /\ Inactive' => witness'
    BY <1>3, Zenon DEF TurnStep, Asking
  <1>5. ~moved' => ~moved /\ (Confirming => Locals' = Locals)
    BY Zenon DEF TurnStep
  <1>6. (AskingLookup' <=> AskingLookup) /\ (Confirming' <=> Confirming)
    BY <1>1, Zenon DEF AskingLookup, Confirming
  <1>7. phase = "local" \/ Confirming =>
           /\ session.active \in Turns \cup {NoTurn} /\ session.revision \in Nat
           /\ session.revision <= source.session.revision
           /\ session.revision = source.session.revision => session.active = source.session.active
    BY Zenon DEF ObserverStrong
  <1>8. phase = "local" \/ Confirming =>
           /\ session.revision <= source'.session.revision
           /\ session.revision = source'.session.revision => session.active = source'.session.active
           /\ session.revision = source'.session.revision => session.revision = source.session.revision
           /\ session.revision < source.session.revision => session.revision < source'.session.revision
    BY <1>0, <1>7
  <1>9. phase \in {"owner", "session again"} => Confirming
    BY DEF Confirming
  <1>10. /\ phase \in {"owner", "session again"} /\ session.active # NoTurn =>
               session.revision < source'.session.revision
         /\ phase = "session again" /\ session.revision = source'.session.revision /\ ~moved' => witness'
    <2>1. /\ phase \in {"owner", "session again"} /\ session.active # NoTurn =>
                session.revision < source.session.revision
          /\ phase = "session again" /\ session.revision = source.session.revision /\ ~moved => witness
      BY Zenon DEF ObserverStrong
    <2>2. phase = "session again" => Confirming
      BY DEF Confirming
    <2> QED
      BY <1>2, <1>5, <1>8, <1>9, <2>1, <2>2, Zenon
  <1>11. Confirming /\ ~moved' => Locals' = {}
    BY <1>5, Zenon DEF ObserverStrong
  <1>12. /\ phase = "local again" /\ ~moved' => witness'
         /\ phase \in {"inactive", "absent"} => witness'
         /\ phase = "execution" => session.active # NoTurn
         /\ phase = "identity again" /\ source'.identity[Asked] = NoTurn => witness'
    BY <1>0, <1>2, <1>5, Zenon DEF ObserverStrong
  <1> QED
    BY <1>1, <1>2, <1>4, <1>6, <1>7, <1>8, <1>10, <1>11, <1>12, Zenon DEF ObserverStrong

\* A read of the observer changes nothing it reads.
LEMMA ObserverReadStep ==
    ASSUME PendingStrong, ObserverStrong, ObserverStep
    PROVE  ObserverStrong'
  <1>0. /\ UNCHANGED vars
        /\ source.session.revision \in Nat /\ source.session.active \in Turns \cup {NoTurn}
        /\ NoTurn \notin Turns
    <2>1. UNCHANGED vars
      BY DEF ObserverStep, ReadSession, ObserveLocal, ReadActive, ReadOwner, ConfirmSession, ConfirmLocal,
             PeekRequest, ReadIdentity, ReadClaim, ReadView, RereadIdentity
    <2> QED
      BY <2>1, TypeParts, TurnsAssumption DEF PendingStrong, TypeOfNames, SourceRecord, Session
  <1>1. /\ UNCHANGED <<source, owner, admitted, attempt>>
        /\ (Inactive' <=> Inactive) /\ (Unclaimed' <=> Unclaimed) /\ Locals' = Locals
    <2>1. UNCHANGED <<source, owner, admitted, attempt>>
      BY <1>0 DEF vars, runtimeVars
    <2>2. Locals' = Locals
      BY <2>1, Zenon DEF Locals, RuntimeOf
    <2> QED
      BY <2>1, <2>2, Zenon DEF Inactive, Unclaimed, RequestOf
  <1>2. ASSUME phase' \notin {"local", "execution", "owner", "session again", "local again", "inactive",
                              "absent", "identity", "claim", "view", "identity again"}
        PROVE  ObserverStrong'
    <2>1. ~AskingLookup' /\ ~Confirming'
      BY <1>2 DEF AskingLookup, Confirming
    <2>2. /\ phase' # "identity again" /\ phase' # "local" /\ phase' # "execution"
          /\ phase' # "session again" /\ phase' # "local again"
          /\ phase' \notin {"owner", "session again"} /\ phase' \notin {"inactive", "absent"}
      BY <1>2
    <2> QED
      BY <2>1, <2>2, Zenon DEF ObserverStrong
  <1>3. CASE Busy
    BY <1>2, <1>3 DEF Busy
  <1>4. CASE ReadSession
    <2>1. phase' = "local" /\ session'.active = source.session.active
          /\ session'.revision = source.session.revision
      BY <1>4 DEF ReadSession
    <2>2. Inactive => witness'
      BY <1>4, Zenon DEF ReadSession
    <2>3. ~AskingLookup' /\ ~Confirming' /\ phase' # "identity again" /\ phase' # "execution"
          /\ phase' # "session again" /\ phase' # "local again"
          /\ phase' \notin {"owner", "session again"} /\ phase' \notin {"inactive", "absent"}
      BY <2>1 DEF AskingLookup, Confirming
    <2>4. /\ session'.active \in Turns \cup {NoTurn} /\ session'.revision \in Nat
          /\ session'.revision <= source'.session.revision
          /\ session'.revision = source'.session.revision => session'.active = source'.session.active
      BY <1>0, <1>1, <2>1
    <2> QED
      BY <1>1, <2>2, <2>3, <2>4, Zenon DEF ObserverStrong
  \* The remaining steps of wait_inactive keep the session record and the ghost.
  <1>5. ASSUME phase = "local" \/ Confirming, UNCHANGED <<session, witness>>,
               Confirming' \/ phase' = "inactive",
               Confirming' /\ ~moved' => Locals = {},
               phase' = "execution" => session.active # NoTurn,
               phase' \in {"owner", "session again"} /\ session.active # NoTurn =>
                  session.revision < source.session.revision,
               phase' = "session again" /\ session.revision = source.session.revision /\ ~moved' => witness,
               phase' = "local again" /\ ~moved' => witness,
               phase' = "inactive" => witness
        PROVE  ObserverStrong'
    <2>1. ~AskingLookup' /\ phase' # "identity again" /\ phase' # "absent" /\ phase' # "local"
      BY <1>5 DEF AskingLookup, Confirming
    <2>2. /\ Inactive => witness
          /\ session.active \in Turns \cup {NoTurn} /\ session.revision \in Nat
          /\ session.revision <= source.session.revision
          /\ session.revision = source.session.revision => session.active = source.session.active
      BY <1>5, Zenon DEF ObserverStrong
    <2>3. phase' \in {"inactive", "absent"} => witness
      BY <1>5, <2>1
    <2> QED
      BY <1>1, <1>5, <2>1, <2>2, <2>3, Zenon DEF ObserverStrong
  <1>6. CASE ObserveLocal /\ ~Busy
    <2>1. /\ phase = "local" /\ Locals = {} /\ UNCHANGED <<session, witness>>
          /\ phase' = IF session.active = NoTurn THEN "owner" ELSE "execution"
      BY <1>6, Zenon DEF ObserveLocal
    <2>2. phase' \in {"owner", "execution"} /\ Confirming'
      BY <2>1 DEF Confirming
    <2> QED
      BY <1>5, <2>1, <2>2
  <1>7. CASE ReadActive /\ ~Busy
    <2>1. /\ phase = "execution" /\ source.rows[session.active] \in Terminal
          /\ phase' = "owner" /\ UNCHANGED <<moved, session, witness>>
      BY <1>7, Zenon DEF ReadActive
    <2>2. Confirming /\ Confirming'
      BY <2>1 DEF Confirming
    <2>3. /\ session.active \in Turns /\ session.revision \in Nat
          /\ session.revision <= source.session.revision
          /\ session.revision = source.session.revision => session.active = source.session.active
      BY <2>1, <2>2 DEF ObserverStrong
    <2>4. source.session.active # session.active
      BY <2>1, <2>3 DEF PendingStrong, ActiveMeansStarted, Terminal
    <2>5. session.revision < source.session.revision
      BY <1>0, <2>3, <2>4
    <2>6. Confirming' /\ ~moved' => Locals = {}
      BY <2>1, <2>2, Zenon DEF ObserverStrong
    <2> QED
      BY <1>5, <2>1, <2>2, <2>5, <2>6
  <1>8. CASE ReadOwner /\ ~Busy
    <2>1. /\ phase = "owner" /\ owner = NoTurn
          /\ phase' = "session again" /\ UNCHANGED <<moved, session, witness>>
      BY <1>8, Zenon DEF ReadOwner, Proceed
    <2>2. Confirming /\ Confirming' /\ phase \in {"owner", "session again"}
      BY <2>1 DEF Confirming
    <2>3. /\ session.revision \in Nat
          /\ session.revision = source.session.revision => session.active = source.session.active
          /\ session.active # NoTurn => session.revision < source.session.revision
          /\ Inactive => witness
          /\ ~moved => Locals = {}
      BY <2>2, Zenon DEF ObserverStrong
    <2>4. session.revision = source.session.revision => source.session.active = NoTurn
      BY <1>0, <2>3
    <2>5. session.revision = source.session.revision /\ ~moved => witness
      BY <2>1, <2>3, <2>4, Zenon DEF Inactive
    <2>6. (~moved' => Locals = {}) /\ (session.revision = source.session.revision /\ ~moved' => witness)
      BY <2>1, <2>3, <2>5, Zenon
    <2> QED
      BY <1>5, <2>1, <2>2, <2>3, <2>6
  <1>9. CASE ConfirmSession /\ ~Busy
    <2>1. /\ phase = "session again" /\ source.session.revision = session.revision
          /\ phase' = "local again" /\ UNCHANGED <<moved, session, witness>>
      BY <1>9, Zenon DEF ConfirmSession, Proceed
    <2>2. Confirming /\ Confirming'
      BY <2>1 DEF Confirming
    <2>3. (~moved' => Locals = {}) /\ (~moved' => witness)
      BY <2>1, <2>2, Zenon DEF ObserverStrong
    <2> QED
      BY <1>5, <2>1, <2>2, <2>3
  <1>10. CASE ConfirmLocal /\ ~Busy
    <2>1. phase = "local again" /\ ~moved /\ phase' = "inactive" /\ UNCHANGED <<session, witness>>
      BY <1>10, Zenon DEF ConfirmLocal, Proceed
    <2>2. Confirming /\ ~Confirming'
      BY <2>1 DEF Confirming
    <2>3. witness
      BY <2>1, Zenon DEF ObserverStrong
    <2> QED
      BY <1>5, <2>1, <2>2, <2>3
  \* The steps of a lookup.
  <1>11. ASSUME AskingLookup' \/ phase' = "absent", AskingLookup' /\ Unclaimed => witness',
                phase' = "identity again" /\ source.identity[Asked] = NoTurn => witness',
                phase' = "absent" => witness'
         PROVE  ObserverStrong'
    <2>1. /\ ~Confirming' /\ phase' # "local" /\ phase' # "execution" /\ phase' # "session again"
          /\ phase' # "local again" /\ phase' \notin {"owner", "session again"} /\ phase' # "inactive"
      BY <1>11 DEF AskingLookup, Confirming
    <2>2. phase' \in {"inactive", "absent"} => witness'
      BY <1>11, <2>1
    <2> QED
      BY <1>1, <1>11, <2>1, <2>2, Zenon DEF ObserverStrong
  <1>12. CASE PeekRequest
    <2>1. phase' = "identity" /\ (Unclaimed => witness')
      BY <1>12, Zenon DEF PeekRequest
    <2>2. AskingLookup' /\ phase' # "identity again" /\ phase' # "absent"
      BY <2>1 DEF AskingLookup
    <2> QED
      BY <1>11, <2>1, <2>2
  <1>13. CASE ReadIdentity
    <2>1. phase = "identity" /\ UNCHANGED witness
          /\ phase' \in {"found", "mismatch", "claim", "unknown"}
      BY <1>13 DEF ReadIdentity, Proceed, Recorded
    <2>2. CASE phase' = "claim"
      <3>1. AskingLookup /\ AskingLookup' /\ phase' # "identity again" /\ phase' # "absent"
        BY <2>1, <2>2 DEF AskingLookup
      <3>2. Unclaimed => witness'
        BY <2>1, <3>1, Zenon DEF ObserverStrong
      <3> QED
        BY <1>11, <3>1, <3>2
    <2>3. CASE phase' # "claim"
      BY <1>2, <2>1, <2>3
    <2> QED
      BY <2>2, <2>3
  <1>14. CASE ReadClaim
    <2>1. /\ phase = "claim" /\ UNCHANGED witness
          /\ phase' = "view" \/ (phase' = "identity again" /\ (owner # NoTurn => RequestOf(owner) # Asked))
      BY <1>14 DEF ReadClaim, Proceed
    <2>2. AskingLookup /\ AskingLookup' /\ phase' # "absent"
      BY <2>1 DEF AskingLookup
    <2>3. Unclaimed => witness'
      BY <2>1, <2>2, Zenon DEF ObserverStrong
    <2>4. phase' = "identity again" /\ source.identity[Asked] = NoTurn => Unclaimed
      BY <2>1 DEF Unclaimed
    <2> QED
      BY <1>11, <2>2, <2>3, <2>4
  <1>15. CASE ReadView
    <2>1. phase' \in {"found", "unknown"}
      BY <1>15 DEF ReadView, Proceed
    <2> QED
      BY <1>2, <2>1
  <1>16. CASE RereadIdentity
    <2>1. /\ phase = "identity again" /\ UNCHANGED witness
          /\ phase' \in {"found", "mismatch"} \/ (phase' = "absent" /\ source.identity[Asked] = NoTurn)
      BY <1>16 DEF RereadIdentity, Proceed, Recorded
    <2>2. CASE phase' = "absent" /\ source.identity[Asked] = NoTurn
      <3>1. witness'
        BY <2>1, <2>2, Zenon DEF ObserverStrong
      <3> QED
        BY <1>11, <2>2, <3>1
    <2>3. CASE phase' \in {"found", "mismatch"}
      BY <1>2, <2>3
    <2> QED
      BY <2>1, <2>2, <2>3
  <1> QED
    BY <1>3, <1>4, <1>6, <1>7, <1>8, <1>9, <1>10, <1>12, <1>13, <1>14, <1>15, <1>16, Zenon DEF ObserverStep

\* SessionObserver: what an observer relies on holds at every one of its steps.
THEOREM ObserverInvariance == ObserverSpec => [](PendingStrong /\ ObserverStrong)
  <1>1. ObserverInit => PendingStrong /\ ObserverStrong
    <2> SUFFICES ASSUME ObserverInit PROVE ObserverStrong /\ PendingStrong
      OBVIOUS
    <2>1. PendingStrong
      BY PendingInit DEF ObserverInit
    <2>2. phase \in {"idle", "off"}
      BY DEF ObserverInit
    <2>3. /\ ~AskingLookup /\ ~Confirming
          /\ phase # "identity again" /\ phase # "local" /\ phase # "execution"
          /\ phase # "session again" /\ phase # "local again"
          /\ phase \notin {"owner", "session again"} /\ phase \notin {"inactive", "absent"}
      BY <2>2 DEF AskingLookup, Confirming
    <2> QED
      BY <2>1, <2>3, Zenon DEF ObserverStrong
  <1>2. PendingStrong /\ ObserverStrong /\ [ObserverNext]_<<vars, observerVars>>
        => PendingStrong' /\ ObserverStrong'
    <2> SUFFICES ASSUME PendingStrong, ObserverStrong, [ObserverNext]_<<vars, observerVars>>
                 PROVE  PendingStrong' /\ ObserverStrong'
      OBVIOUS
    <2>1. CASE TurnStep
      <3>1. PendingStrong'
        BY <2>1, PendingStep DEF TurnStep
      <3> QED
        BY <2>1, <3>1, ObserverTurnStep
    <2>2. CASE ObserverStep
      <3>1. UNCHANGED vars
        BY <2>2 DEF ObserverStep, ReadSession, ObserveLocal, ReadActive, ReadOwner, ConfirmSession,
                    ConfirmLocal, PeekRequest, ReadIdentity, ReadClaim, ReadView, RereadIdentity
      <3> QED
        BY <2>2, <3>1, PendingStep, ObserverReadStep
    <2>3. CASE UNCHANGED <<vars, observerVars>>
      <3>1. PendingStrong'
        BY <2>3, PendingStep
      <3>2. UNCHANGED <<source, owner, admitted, attempt, moved, phase, session, witness>>
        BY <2>3 DEF vars, runtimeVars, observerVars
      <3>3. Locals' = Locals
        BY <3>2, Zenon DEF Locals, RuntimeOf
      <3>4. /\ (Inactive' <=> Inactive) /\ (Unclaimed' <=> Unclaimed)
            /\ (AskingLookup' <=> AskingLookup) /\ (Confirming' <=> Confirming)
        BY <3>2, <3>3, Zenon DEF Inactive, Unclaimed, RequestOf, AskingLookup, Confirming
      <3>5. ObserverStrong'
        BY <3>2, <3>3, <3>4, Zenon DEF ObserverStrong
      <3> QED
        BY <3>1, <3>5
    <2> QED
      BY <2>1, <2>2, <2>3 DEF ObserverNext
  <1> QED
    BY <1>1, <1>2, PTL DEF ObserverSpec

\* SessionObserver: wait_inactive answers, and a lookup reports a request as
\* absent, only if the answer was true at one moment since the question.
THEOREM NegativesSound == ObserverSpec => [](NegativesAtOnePoint /\ NegativesTrue)
  <1>1. ObserverStrong => NegativesAtOnePoint /\ NegativesTrue
    BY Zenon DEF ObserverStrong, NegativesAtOnePoint, NegativesTrue
  <1> QED
    BY <1>1, ObserverInvariance, PTL

-----------------------------------------------------------------------------
(***************************************************************************)
(* The event stream.  LiveEventsProofs has the proof, EventProofs is that  *)
(* module with the names of this one, and its own for the definitions.     *)
(***************************************************************************)
EventProofs == INSTANCE LiveEventsProofs WITH failure <- recorded

\* LiveEvents: a stream delivers every durable event at least once and takes
\* nothing for damage, however the queue overflows, the producer fails, loses
\* its claim or is not answered, and the reader comes and goes, unless it goes
\* by its count where another runtime wrote; and it is not left waiting for a
\* producer that is gone.  The proof ends where the old producer publishes what
\* another runtime wrote.
THEOREM StreamsComplete ==
    Events!Spec => [](EventProofs!Strayed \/ (Events!EventsInv /\ StreamComplete))
<1>1. EventProofs!Limits
  BY StreamAssumption DEF StreamAssumption, EventProofs!Limits
<1>2. EventProofs!Spec => [](EventProofs!Strayed \/ EventProofs!EventsInv)
  BY <1>1, EventProofs!StreamSafety
<1>3. Events!Init => EventProofs!Init
  BY Zenon DEF Events!Init, EventProofs!Init, Events!Closed, EventProofs!Closed, Events!Event,
               EventProofs!Event
<1>4. [Events!Next]_(Events!vars) => [EventProofs!Next]_(EventProofs!vars)
  <2>1. ASSUME NEW early PROVE Events!Register(early) => EventProofs!Register(early)
    BY Zenon DEF Events!Register, EventProofs!Register, Events!sourceVars,
      EventProofs!sourceVars
  <2>2. Events!AppendEvent => EventProofs!AppendEvent
    BY Zenon DEF Events!AppendEvent, EventProofs!AppendEvent, Events!More, EventProofs!More,
      Events!PublishEvent, EventProofs!PublishEvent, Events!Fits, EventProofs!Fits,
      Events!HasDelta, EventProofs!HasDelta, Events!Delta, EventProofs!Delta, Events!Added,
      EventProofs!Added, Events!DropOldestDelta, EventProofs!DropOldestDelta, Events!RemoveAt,
      EventProofs!RemoveAt, Events!Put, EventProofs!Put, Events!Replay, EventProofs!Replay,
      Events!RequireReplay, EventProofs!RequireReplay
  <2>3. Events!StreamDelta => EventProofs!StreamDelta
    BY Zenon DEF Events!StreamDelta, EventProofs!StreamDelta, Events!Last, EventProofs!Last,
      Events!Delta, EventProofs!Delta, Events!PublishDelta, EventProofs!PublishDelta,
      Events!Fits, EventProofs!Fits, Events!HasDelta, EventProofs!HasDelta, Events!Added,
      EventProofs!Added, Events!DropOldestDelta, EventProofs!DropOldestDelta, Events!RemoveAt,
      EventProofs!RemoveAt, Events!Put, EventProofs!Put, Events!Replay, EventProofs!Replay,
      Events!sourceVars, EventProofs!sourceVars
  <2>4. Events!Promote => EventProofs!Promote
    BY Zenon DEF Events!Promote, EventProofs!Promote, Events!Land, EventProofs!Land,
      Events!More, EventProofs!More, Events!Event, EventProofs!Event
  <2>5. Events!Acknowledge => EventProofs!Acknowledge
    <3>1. ASSUME NEW x, NEW e, NEW q
          PROVE  Events!PublishEvent(x, e, q) = EventProofs!PublishEvent(x, e, q)
      <4>1. \A y : Events!Fits(y) = EventProofs!Fits(y)
        BY Zenon DEF Events!Delta, EventProofs!Delta, Events!Fits, EventProofs!Fits,
          Events!HasDelta, EventProofs!HasDelta
      <4>2. \A y, i : Events!Added(y, i) = EventProofs!Added(y, i)
        BY Zenon DEF Events!Added, EventProofs!Added, Events!DropOldestDelta,
          EventProofs!DropOldestDelta, Events!RemoveAt, EventProofs!RemoveAt, Events!Delta,
          EventProofs!Delta
      <4>3. \A y, i : Events!Put(y, i) = EventProofs!Put(y, i)
        BY Zenon, <4>1, <4>2 DEF Events!Put, EventProofs!Put, Events!Replay, EventProofs!Replay
      <4>4. \A y, r : Events!RequireReplay(y, r) = EventProofs!RequireReplay(y, r)
        BY Zenon DEF Events!RequireReplay, EventProofs!RequireReplay, Events!Replay,
          EventProofs!Replay
      <4>. QED
        BY Zenon, <4>1, <4>2, <4>3, <4>4 DEF Events!PublishEvent, EventProofs!PublishEvent,
          Events!Replay, EventProofs!Replay
    <3>2. \A x, f, c : Events!ConfirmEvents(x, f, c) = EventProofs!ConfirmEvents(x, f, c)
      BY Zenon DEF Events!ConfirmEvents, EventProofs!ConfirmEvents, Events!Delta,
        EventProofs!Delta, Events!Cardinality, EventProofs!Cardinality
    <3>3. \A x : Events!Complete(x) = EventProofs!Complete(x)
      BY Zenon DEF Events!Complete, EventProofs!Complete, Events!Finish, EventProofs!Finish,
        Events!Released, EventProofs!Released
    <3>. QED
      BY Zenon, <3>1, <3>2, <3>3 DEF Events!Acknowledge, EventProofs!Acknowledge,
        Events!sourceVars, EventProofs!sourceVars
  <2>6. ASSUME NEW published PROVE Events!ReadBack(published) => EventProofs!ReadBack(published)
    BY Zenon DEF Events!ReadBack, EventProofs!ReadBack, Events!Working, EventProofs!Working,
      Events!Last, EventProofs!Last, Events!Complete, EventProofs!Complete, Events!Finish, EventProofs!Finish, Events!Released, EventProofs!Released,
      Events!PublishEvent, EventProofs!PublishEvent, Events!Fits, EventProofs!Fits,
      Events!HasDelta, EventProofs!HasDelta, Events!Delta, EventProofs!Delta, Events!Added,
      EventProofs!Added, Events!DropOldestDelta, EventProofs!DropOldestDelta, Events!RemoveAt,
      EventProofs!RemoveAt, Events!Put, EventProofs!Put, Events!Replay, EventProofs!Replay,
      Events!RequireReplay, EventProofs!RequireReplay, Events!sourceVars, EventProofs!sourceVars
  <2>7. Events!WorkerFails => EventProofs!WorkerFails
    BY Zenon DEF Events!WorkerFails, EventProofs!WorkerFails, Events!Working,
      EventProofs!Working, Events!Complete,
      EventProofs!Complete, Events!Finish, EventProofs!Finish, Events!Released,
      EventProofs!Released, Events!sourceVars, EventProofs!sourceVars
  <2>8. Events!LoseClaim => EventProofs!LoseClaim
    BY Zenon DEF Events!LoseClaim, EventProofs!LoseClaim, Events!Handoff, EventProofs!Handoff,
      Events!Released, EventProofs!Released, Events!Finish, EventProofs!Finish,
      Events!RequireReplay, EventProofs!RequireReplay, Events!Replay, EventProofs!Replay,
      Events!Discard, EventProofs!Discard
  <2>9. ASSUME NEW end PROVE Events!Checkpoint(end) => EventProofs!Checkpoint(end)
    BY Zenon DEF Events!Checkpoint, EventProofs!Checkpoint, Events!Land, EventProofs!Land,
      Events!More, EventProofs!More, Events!Event, EventProofs!Event
  <2>10. ASSUME NEW end, NEW taken PROVE Events!CommitElsewhere(end, taken) => EventProofs!CommitElsewhere(end, taken)
    BY Zenon DEF Events!CommitElsewhere, EventProofs!CommitElsewhere, Events!More,
      EventProofs!More, Events!Event, EventProofs!Event
  <2>11. ASSUME NEW after PROVE Events!Connect(after) => EventProofs!Connect(after)
    BY Zenon DEF Events!Connect, EventProofs!Connect, Events!Attach, EventProofs!Attach,
      Events!Subscribe, EventProofs!Subscribe, Events!Replay, EventProofs!Replay,
      Events!producerVars, EventProofs!producerVars, Events!sourceVars, EventProofs!sourceVars
  <2>12. Events!Prefix => EventProofs!Prefix
    BY Zenon DEF Events!Prefix, EventProofs!Prefix, Events!Deliver, EventProofs!Deliver,
      Events!producerVars, EventProofs!producerVars, Events!sourceVars, EventProofs!sourceVars
  <2>13. Events!NextItem => EventProofs!NextItem
    BY Zenon DEF Events!NextItem, EventProofs!NextItem, Events!Discard, EventProofs!Discard,
      Events!FallBack, EventProofs!FallBack, Events!Close, EventProofs!Close, Events!Closed,
      EventProofs!Closed, Events!Released, EventProofs!Released, Events!Replay,
      EventProofs!Replay, Events!Delta, EventProofs!Delta, Events!GoOn, EventProofs!GoOn,
      Events!Align, EventProofs!Align, Events!CatchUp, EventProofs!CatchUp, Events!Stop,
      EventProofs!Stop, Events!Deliver, EventProofs!Deliver, Events!AtEnd, EventProofs!AtEnd,
      Events!Take, EventProofs!Take, Events!Placed, EventProofs!Placed,
      Events!producerVars, EventProofs!producerVars, Events!sourceVars, EventProofs!sourceVars
  <2>14. Events!Held => EventProofs!Held
    BY Zenon DEF Events!Held, EventProofs!Held, Events!Align, EventProofs!Align, Events!CatchUp,
      EventProofs!CatchUp, Events!Stop, EventProofs!Stop, Events!Close, EventProofs!Close,
      Events!Closed, EventProofs!Closed, Events!Released, EventProofs!Released, Events!Deliver,
      EventProofs!Deliver, Events!AtEnd, EventProofs!AtEnd, Events!GoOn, EventProofs!GoOn,
      Events!FallBack, EventProofs!FallBack, Events!producerVars, EventProofs!producerVars,
      Events!sourceVars, EventProofs!sourceVars
  <2>15. Events!LiveEnds => EventProofs!LiveEnds
    BY Zenon DEF Events!LiveEnds, EventProofs!LiveEnds, Events!Stop, EventProofs!Stop,
      Events!Close, EventProofs!Close, Events!Closed, EventProofs!Closed, Events!Released,
      EventProofs!Released, Events!producerVars, EventProofs!producerVars, Events!sourceVars,
      EventProofs!sourceVars
  <2>16. Events!Settle => EventProofs!Settle
    BY Zenon DEF Events!Settle, EventProofs!Settle, Events!producerVars,
      EventProofs!producerVars, Events!sourceVars, EventProofs!sourceVars
  <2>17. Events!Page => EventProofs!Page
    BY Zenon DEF Events!Page, EventProofs!Page, Events!Min, EventProofs!Min, Events!Deliver,
      EventProofs!Deliver, Events!AtEnd, EventProofs!AtEnd, Events!Finished,
      EventProofs!Finished, Events!producerVars, EventProofs!producerVars, Events!sourceVars,
      EventProofs!sourceVars
  <2>18. Events!Status => EventProofs!Status
    BY Zenon DEF Events!Status, EventProofs!Status, Events!Finished, EventProofs!Finished,
      Events!Attach, EventProofs!Attach, Events!Subscribe, EventProofs!Subscribe, Events!Replay,
      EventProofs!Replay, Events!producerVars, EventProofs!producerVars, Events!sourceVars,
      EventProofs!sourceVars
  <2>19. Events!Disconnect => EventProofs!Disconnect
    BY Zenon DEF Events!Disconnect, EventProofs!Disconnect, Events!Stop, EventProofs!Stop,
      Events!Close, EventProofs!Close, Events!Closed, EventProofs!Closed, Events!Released,
      EventProofs!Released, Events!producerVars, EventProofs!producerVars, Events!sourceVars,
      EventProofs!sourceVars
  <2>20. Events!WorkerLeaves => EventProofs!WorkerLeaves
    BY Zenon DEF Events!WorkerLeaves, EventProofs!WorkerLeaves, Events!Complete,
      EventProofs!Complete, Events!Finish, EventProofs!Finish, Events!Released,
      EventProofs!Released, Events!sourceVars, EventProofs!sourceVars
  <2>. QED
    BY <2>1, <2>2, <2>3, <2>4, <2>5, <2>6, <2>7, <2>8, <2>9, <2>10, <2>11, <2>12, <2>13, <2>14,
       <2>15, <2>16, <2>17, <2>18, <2>19, <2>20
       DEF Events!Next, EventProofs!Next, Events!vars, EventProofs!vars
<1>5. EventProofs!EventsInv => Events!EventsInv /\ StreamComplete
  <2>1. EventProofs!EventsInv => Events!EventsInv
    BY Zenon DEF Events!EventsInv, EventProofs!EventsInv, Events!TypeOK, EventProofs!TypeOK,
                 Events!AtLeastOnce, EventProofs!AtLeastOnce, Events!NeverMistaken,
                 EventProofs!NeverMistaken, Events!Miscounted, EventProofs!Miscounted,
                 Events!Woken, EventProofs!Woken
  <2>. QED
    BY <2>1 DEF StreamComplete
<1>. QED
  BY <1>2, <1>3, <1>4, <1>5, PTL DEF Events!Spec, EventProofs!Spec

=============================================================================
