-------------------------- MODULE PendingViewsProofs --------------------------
(***************************************************************************)
(* Proofs about the views other runtimes have of a pending turn, for any   *)
(* claims of any executions and sessions: an execution has one live owner, *)
(* and what a reader is told was true at one moment of its read.           *)
(***************************************************************************)
EXTENDS PendingViews, TLAPS

Someone == Generations \cup {NoOne}

Reads == [step : {"idle", "source", "authority", "bytes", "confirm", "source again", "answered"},
          session : Sessions \cup {NoOne}, execution : Executions \cup {NoOne},
          wanted : Someone, current : Someone,
          answer : {"none", "absent", "pending", "durable"}]

Calls == [step : {"idle", "hint", "put", "accept", "wait", "poll", "poll hint",
                  "poll confirm", "ready", "refused"},
          execution : Executions \cup {NoOne}, owner : Someone, current : Someone,
          time : {"left", "over"}]

\* The inductive invariant: a reader that is past its first read of authority
\* has captured somebody.
ViewsStrong ==
    /\ TypeOK
    /\ reader \in Reads /\ caller \in Calls
    /\ reader.step \in {"bytes", "confirm"} => reader.current # NoOne

\* read_turn answers a live owner of the execution, or nobody.
LEMMA OwnerLive ==
    ASSUME NEW e
    PROVE  /\ OwnerOf(e) \in Someone
           /\ OwnerOf(e) # NoOne => OwnerOf(e) \in Live /\ ExecutionOf[OwnerOf(e)] = e
BY DEF OwnerOf, Live, Someone

\* What the owners and the cache do.
OwnerStep(g) ==
    \/ Claim(g) \/ PutRecord(g) \/ PutPointer(g) \/ Republish(g) \/ Evict(g)
    \/ Commit(g) \/ End(g) \/ PromoteHinted(g) \/ WatchEnds(g)

\* The history records moments of four kinds.
LEMMA SeenTyped ==
    ASSUME TypeOK, Watch
    PROVE  seen' \subseteq {"absent", "pending", "durable", "both"}
<1>1. Standing(reader.execution)' \in {"absent", "pending", "durable", "both"}
  BY DEF Standing
<1> QED
  BY <1>1 DEF Watch, TypeOK

\* The claims, the cache and the source.
LEMMA OwnersKeepType ==
    ASSUME ViewsStrong, Watch, NEW g \in Generations, OwnerStep(g)
    PROVE  ViewsStrong'
<1>1. TypeOK /\ reader' = reader /\ caller' = caller
  BY DEF ViewsStrong, OwnerStep, Claim, PutRecord, PutPointer, Republish, Evict, Commit, End,
         PromoteHinted, WatchEnds
<1>4. seen' \subseteq {"absent", "pending", "durable", "both"}
  BY <1>1, SeenTyped
<1>2. ExecutionOf[g] \in Executions /\ SessionOf[g] \in Sessions
  BY DEF Executions, Sessions
<1>3. TypeOK'
  <2>1. CASE Claim(g)
    <3>1. claims' = [claims EXCEPT ![g] = "live"]
      BY <2>1 DEF Claim
    <3>2. Live' = Live \cup {g}
      BY <1>1, <3>1 DEF TypeOK, Live
    <3>3. \A h, i \in Live' : ExecutionOf[h] = ExecutionOf[i] => h = i
      BY <1>1, <2>1, <3>2 DEF TypeOK, Claim
    <3> QED
      BY <1>1, <1>4, <2>1, <3>3 DEF TypeOK, Claim
  <2>2. CASE PutRecord(g) \/ Republish(g) \/ Evict(g) \/ WatchEnds(g)
    BY <1>1, <1>4, <2>2 DEF TypeOK, Live, PutRecord, Republish, Evict, WatchEnds
  <2>3. CASE PutPointer(g)
    BY <1>1, <1>2, <1>4, <2>3 DEF TypeOK, Live, PutPointer
  <2>4. CASE End(g)
    <3>1. Live' \subseteq Live
      BY <1>1, <2>4 DEF TypeOK, Live, End
    <3> QED
      BY <1>1, <1>4, <2>4, <3>1 DEF TypeOK, End
  <2>5. CASE PromoteHinted(g) \/ Commit(g)
    BY <1>1, <1>2, <1>4, <2>5 DEF TypeOK, Live, PromoteHinted, Commit
  <2> QED
    BY <2>1, <2>2, <2>3, <2>4, <2>5 DEF OwnerStep
<1> QED
  BY <1>1, <1>3 DEF ViewsStrong

\* A read of a view.
LEMMA ReaderKeepsType ==
    ASSUME ViewsStrong, Watch,
           \/ \E e \in Executions : BeginRead(e)
           \/ \E s \in Sessions : BeginSessionRead(s)
           \/ ReaderStep \/ Forget
    PROVE  ViewsStrong'
<1>1. TypeOK /\ reader \in Reads /\ caller \in Calls
  BY DEF ViewsStrong
<1>2. UNCHANGED readVars
  BY DEF BeginRead, BeginSessionRead, ReaderStep, ReadSource, ReadAuthority, ReadBytes, Confirm, Forget
<1>3. NoRead \in Reads /\ NoRead.step = "idle"
  BY DEF NoRead, Reads, Someone
<1>4. reader' \in Reads /\ (reader'.step \in {"bytes", "confirm"} => reader'.current # NoOne)
  <2>1. ASSUME NEW e \in Executions, BeginRead(e)
        PROVE  reader' \in Reads /\ reader'.step = "source"
    BY <2>1 DEF BeginRead, NoRead, Reads, Someone
  <2>2. ASSUME NEW s \in Sessions, BeginSessionRead(s)
        PROVE  reader' \in Reads /\ reader'.step = "authority"
    <3>1. pointers[s] \in Generations
      BY <1>1, <2>2 DEF TypeOK, BeginSessionRead
    <3>2. ExecutionOf[pointers[s]] \in Executions
      BY <3>1 DEF Executions
    <3> QED
      BY <2>2, <3>1, <3>2 DEF BeginSessionRead, NoRead, Reads, Someone
  <2>7. ASSUME NoView PROVE reader' \in Reads /\ reader'.step \notin {"bytes", "confirm"}
    BY <1>1, <1>3, <2>7 DEF NoView, Reads
  <2>3. CASE ReadAuthority
    <3>1. OwnerOf(reader.execution) \in Someone
      BY OwnerLive
    <3>2. CASE NoView
      BY <3>2, <2>7
    <3>3. CASE OwnerOf(reader.execution) # NoOne
               /\ reader' = [reader EXCEPT !.step = "bytes", !.current = OwnerOf(reader.execution)]
      BY <1>1, <3>1, <3>3 DEF Reads
    <3> QED
      BY <2>3, <3>2, <3>3 DEF ReadAuthority
  <2>4. CASE ReadBytes
    BY <1>1, <2>4, <2>7 DEF ReadBytes, Reads, ViewsStrong
  <2>5. CASE Confirm
    <3>1. CASE NoView
      BY <3>1, <2>7
    <3>2. ASSUME NEW t \in {"source again", "answered"},
                 reader' = [reader EXCEPT !.step = t, !.answer = "pending"]
          PROVE  reader' \in Reads /\ reader'.step \notin {"bytes", "confirm"}
      BY <1>1, <3>2 DEF Reads
    <3> QED
      BY <2>5, <3>1, <3>2 DEF Confirm
  <2>6. CASE Forget
    BY <1>3, <2>6 DEF Forget
  <2>8. CASE ReadSource
    BY <1>1, <2>8 DEF ReadSource, Reads
  <2> QED
    BY <2>1, <2>2, <2>3, <2>4, <2>5, <2>6, <2>8 DEF ReaderStep
<1>5. seen' \subseteq {"absent", "pending", "durable", "both"}
  BY <1>1, SeenTyped
<1>6. reader'.step \in {"idle", "source", "authority", "bytes", "confirm", "source again", "answered"}
  BY <1>4 DEF Reads
<1>7. TypeOK'
  BY <1>1, <1>2, <1>5, <1>6 DEF TypeOK, Live, readVars, ownerVars
<1> QED
  BY <1>1, <1>2, <1>4, <1>7 DEF ViewsStrong, readVars

\* A remote promotion.
LEMMA CallerKeepsType ==
    ASSUME ViewsStrong, Watch, (\E e \in Executions : CallPromotion(e)) \/ CallerStep \/ TimesUp
    PROVE  ViewsStrong'
<1>1. TypeOK /\ reader \in Reads /\ caller \in Calls
  BY DEF ViewsStrong
<1>2. UNCHANGED callVars
  BY DEF CallPromotion, CallerStep, PutHint, ReadHint, AcceptHint, PollSource, PollOwner, PollConfirm, TimesUp
<1>3. ASSUME NEW e, Resolve(e) PROVE caller' \in Calls
  BY <1>3 DEF Resolve, NoCall, Calls, Someone
<1>4. OwnerOf(caller.execution) \in Someone
        /\ (OwnerOf(caller.execution) # NoOne => OwnerOf(caller.execution) \in Generations)
  BY OwnerLive DEF Live
<1>5. caller' \in Calls /\ hints' \subseteq Generations
  <2>1. ASSUME NEW e \in Executions, CallPromotion(e) PROVE caller' \in Calls /\ hints' = hints
    BY <2>1 DEF CallPromotion, NoCall, Calls, Someone
  <2>2. CASE PutHint
    <3>1. CASE OwnerOf(caller.execution) = NoOne
      <4>1. Resolve(caller.execution) /\ hints' = hints
        BY <2>2, <3>1 DEF PutHint
      <4> QED
        BY <1>1, <1>3, <4>1 DEF TypeOK
    <3>2. ASSUME NEW g \in Generations, caller' = [caller EXCEPT !.step = "put", !.current = g],
                 hints' = hints \cup {g}
          PROVE  caller' \in Calls /\ hints' \subseteq Generations
      BY <1>1, <3>2 DEF Calls, Someone, TypeOK
    <3> QED
      BY <1>4, <2>2, <3>1, <3>2 DEF PutHint
  <2>3. CASE ReadHint
    <3>1. hints' = hints
      BY <2>3 DEF ReadHint
    <3>2. ASSUME NEW t \in {"accept", "poll confirm"}, caller' = [caller EXCEPT !.step = t]
          PROVE  caller' \in Calls
      BY <1>1, <3>2 DEF Calls
    <3>3. caller' \in Calls
      BY <1>3, <2>3, <3>2 DEF ReadHint
    <3> QED
      BY <1>1, <3>1, <3>3 DEF TypeOK
  <2>4. CASE AcceptHint
    <3>1. hints' = hints
      BY <2>4 DEF AcceptHint
    <3>2. ASSUME NEW o \in Someone, caller' = [caller EXCEPT !.step = "wait", !.owner = o]
          PROVE  caller' \in Calls
      BY <1>1, <3>2 DEF Calls
    <3>4. caller.current \in Someone
      BY <1>1 DEF Calls
    <3>3. caller' \in Calls
      BY <1>3, <2>4, <3>2, <3>4 DEF AcceptHint
    <3> QED
      BY <1>1, <3>1, <3>3 DEF TypeOK
  <2>5. CASE PollSource
    <3>1. hints' = hints
      BY <2>5 DEF PollSource
    <3>2. ASSUME NEW t \in {"poll", "ready"}, caller' = [caller EXCEPT !.step = t]
          PROVE  caller' \in Calls
      BY <1>1, <3>2 DEF Calls
    <3>3. caller' \in Calls
      BY <1>3, <2>5, <3>2 DEF PollSource
    <3> QED
      BY <1>1, <3>1, <3>3 DEF TypeOK
  <2>6. CASE PollOwner
    BY ZenonT(60), <1>1, <1>3, <2>6 DEF PollOwner, Calls, TypeOK
  <2>7. CASE PollConfirm
    <3>1. hints' = hints
      BY <2>7 DEF PollConfirm
    <3>2. ASSUME NEW t \in {"wait", "ready"}, caller' = [caller EXCEPT !.step = t]
          PROVE  caller' \in Calls
      BY <1>1, <3>2 DEF Calls
    <3>3. caller' \in Calls
      BY <1>3, <2>7, <3>2 DEF PollConfirm
    <3> QED
      BY <1>1, <3>1, <3>3 DEF TypeOK
  <2>8. CASE TimesUp
    BY <1>1, <2>8 DEF TimesUp, Calls, TypeOK
  <2> QED
    BY <1>1, <2>1, <2>2, <2>3, <2>4, <2>5, <2>6, <2>7, <2>8 DEF CallerStep, TypeOK
<1>6. caller'.step \in {"idle", "hint", "put", "accept", "wait", "poll", "poll hint",
                        "poll confirm", "ready", "refused"}
  BY <1>5 DEF Calls
<1>7. seen' \subseteq {"absent", "pending", "durable", "both"}
  BY <1>1, SeenTyped
<1> QED
  BY <1>1, <1>2, <1>5, <1>6, <1>7 DEF ViewsStrong, TypeOK, Live, callVars, ownerVars

\* The inductive invariant holds.
THEOREM ViewsInvariance == Spec => []ViewsStrong
<1>1. Init => ViewsStrong
  <2>1. NoRead \in Reads /\ NoCall \in Calls /\ NoRead.step = "idle" /\ NoCall.step = "idle"
    BY DEF NoRead, NoCall, Reads, Calls, Someone
  <2> QED
    BY <2>1 DEF Init, ViewsStrong, TypeOK, Live
<1>2. ViewsStrong /\ [Next]_vars => ViewsStrong'
  <2> SUFFICES ASSUME ViewsStrong, [Next]_vars PROVE ViewsStrong'
    OBVIOUS
  <2>1. CASE Next
    BY <2>1, OwnersKeepType, ReaderKeepsType, CallerKeepsType DEF Next, Step, OwnerStep
  <2>2. CASE UNCHANGED vars
    BY <2>2 DEF vars, views, ViewsStrong, TypeOK, Live
  <2> QED
    BY <2>1, <2>2
<1> QED
  BY <1>1, <1>2, PTL DEF Spec

\* The types hold, and an execution never has two live owners.
THEOREM OneLiveOwner == Spec => []TypeOK
<1>1. ViewsStrong => TypeOK
  BY DEF ViewsStrong
<1> QED
  BY <1>1, ViewsInvariance, PTL

-----------------------------------------------------------------------------
(* What a reader is told. *)

\* A moment of the read at which the row was there, at which a published owner was,
\* and at which there was none.
SawRow == "durable" \in seen \/ "both" \in seen
SawView == "pending" \in seen \/ "both" \in seen
SawNoView == "absent" \in seen \/ "durable" \in seen

\* A captured owner is what it was captured as until it is gone for good, and from
\* then on there was a moment without a view.
CaptureHolds ==
    reader.step \in {"bytes", "confirm"} =>
        /\ reader.current \in Generations /\ claims[reader.current] # "new"
        /\ ExecutionOf[reader.current] = reader.execution
        /\ OwnerOf(reader.execution) = reader.current \/ SawNoView

\* Bytes that were found are of a moment with a view, if their owner still lives.
BytesHold == reader.step = "confirm" => (reader.current \in Live => SawView)

\* What the reader is about to answer, if the source has no row.
AnswerHolds ==
    reader.step = "source again" =>
        /\ reader.wanted = NoOne /\ reader.answer \in {"absent", "pending"}
        /\ reader.answer = "pending" => SawView
        /\ reader.answer = "absent" => SawNoView

\* The inductive invariant of the answers: rows stay, so that a reader that finds
\* none has seen none.
AnswersStrong ==
    /\ SawRow => reader.execution \in rows
    /\ reader.wanted = NoOne => reader.session = NoOne
    /\ CaptureHolds /\ BytesHold /\ AnswerHolds /\ AnswerTrue

\* A live owner of an execution is the one read_turn answers.
LEMMA OwnerUnique ==
    ASSUME TypeOK, NEW g \in Live
    PROVE  OwnerOf(ExecutionOf[g]) = g
BY DEF TypeOK, OwnerOf

LEMMA OwnerUniqueNext ==
    ASSUME TypeOK', NEW g \in Live'
    PROVE  OwnerOf(ExecutionOf[g])' = g
BY DEF TypeOK, OwnerOf

\* What the standing of an execution says.
LEMMA StandingSays ==
    ASSUME NEW e
    PROVE  /\ Standing(e) \in {"durable", "both"} <=> e \in rows
           /\ Standing(e) \in {"pending", "both"}
                <=> OwnerOf(e) # NoOne /\ OwnerOf(e) \in records
           /\ Standing(e) \in {"absent", "pending", "durable", "both"}
BY DEF Standing

LEMMA StandingSaysNext ==
    ASSUME NEW e
    PROVE  /\ Standing(e)' \in {"durable", "both"} <=> e \in rows'
           /\ Standing(e)' \in {"pending", "both"}
                <=> OwnerOf(e)' # NoOne /\ OwnerOf(e)' \in records'
           /\ Standing(e)' \in {"absent", "pending", "durable", "both"}
BY DEF Standing

\* A step outside the read only adds a moment to the history.
LEMMA HistoryGrows ==
    ASSUME Watch, reader.step # "idle", reader'.step # "idle",
           reader'.execution = reader.execution
    PROVE  /\ seen' = seen \cup {Standing(reader.execution)'}
           /\ SawView => SawView'
           /\ SawNoView => SawNoView'
           /\ SawRow => SawRow'
BY DEF Watch, SawView, SawNoView, SawRow

\* The owners and the cache, while a read is under way.
LEMMA OwnersKeepAnswers ==
    ASSUME ViewsStrong, ViewsStrong', AnswersStrong, Watch, NEW g \in Generations, OwnerStep(g)
    PROVE  AnswersStrong'
<1>1. reader' = reader /\ rows \subseteq rows'
  BY DEF OwnerStep, Claim, PutRecord, PutPointer, Republish, Evict, Commit, End, PromoteHinted, WatchEnds
<1>4. claims \in [Generations -> {"new", "live", "gone"}]
  BY DEF ViewsStrong, TypeOK
<1>5. \/ claims' = claims
      \/ claims[g] = "new" /\ claims' = [claims EXCEPT ![g] = "live"]
      \/ claims' = [claims EXCEPT ![g] = "gone"]
  BY DEF OwnerStep, Claim, PutRecord, PutPointer, Republish, Evict, Commit, End, PromoteHinted, WatchEnds
<1>2. CASE reader.step = "idle"
  BY <1>1, <1>2 DEF Watch, AnswersStrong, SawRow, CaptureHolds, BytesHold, AnswerHolds, AnswerTrue
<1>3. CASE reader.step # "idle"
  <2> SUFFICES ASSUME NEW e, NEW c, e = reader.execution, c = reader.current
               PROVE  AnswersStrong'
    OBVIOUS
  <2>1. /\ seen' = seen \cup {Standing(e)'}
        /\ SawView => SawView'
        /\ SawNoView => SawNoView'
        /\ SawRow => SawRow'
    BY <1>1, <1>3, HistoryGrows
  <2>2. SawRow' => e \in rows'
    BY <1>1, <2>1, StandingSaysNext DEF AnswersStrong, SawRow
  <2>3. \A h \in Generations : claims[h] # "new" =>
           claims'[h] # "new" /\ (h \in Live' => h \in Live)
    BY <1>4, <1>5 DEF Live
  <2>4. CaptureHolds'
    <3> SUFFICES ASSUME reader.step \in {"bytes", "confirm"}
                 PROVE  /\ c \in Generations /\ claims'[c] # "new" /\ ExecutionOf[c] = e
                        /\ OwnerOf(e)' = c \/ SawNoView'
      BY <1>1 DEF CaptureHolds
    <3>1. c \in Generations /\ claims[c] # "new" /\ ExecutionOf[c] = e
      BY DEF AnswersStrong, CaptureHolds
    <3>2. CASE SawNoView
      BY <2>1, <2>3, <3>1, <3>2
    <3>3. CASE c \in Live'
      <4>1. OwnerOf(ExecutionOf[c])' = c
        BY <3>3, OwnerUniqueNext DEF ViewsStrong
      <4> QED
        BY <2>3, <3>1, <4>1
    <3>4. CASE OwnerOf(e) = c /\ c \notin Live'
      <4>1. c \in Live
        BY <3>4, OwnerLive DEF ViewsStrong
      <4>2. Live' \subseteq Live
        BY <1>4, <1>5, <3>1, <3>4, <4>1 DEF Live
      <4>3. \A h \in Live' : ExecutionOf[h] # e
        <5>1. \A h \in Live : ExecutionOf[h] = ExecutionOf[c] => h = c
          <6>1. \A h, i \in Live : ExecutionOf[h] = ExecutionOf[i] => h = i
            BY DEF ViewsStrong, TypeOK
          <6> QED
            BY <4>1, <6>1
        <5> QED
          BY <3>1, <3>4, <4>2, <5>1
      <4>4. OwnerOf(e)' = NoOne
        BY <4>3 DEF OwnerOf
      <4>5. Standing(e)' \in {"absent", "durable"}
        BY <4>4, StandingSaysNext
      <4> QED
        BY <2>1, <2>3, <3>1, <4>5 DEF SawNoView
    <3> QED
      BY <3>1, <3>2, <3>3, <3>4 DEF AnswersStrong, CaptureHolds
  <2>5. BytesHold'
    <3> SUFFICES ASSUME reader.step = "confirm", c \in Live' PROVE SawView'
      BY <1>1 DEF BytesHold
    <3>1. c \in Live
      BY <2>3 DEF AnswersStrong, CaptureHolds
    <3> QED
      BY <2>1, <3>1 DEF AnswersStrong, BytesHold
  <2>6. AnswerHolds' /\ AnswerTrue'
    BY <1>1, <2>1 DEF AnswersStrong, AnswerHolds, AnswerTrue
  <2> QED
    BY <1>1, <2>2, <2>4, <2>5, <2>6 DEF AnswersStrong
<1> QED
  BY <1>2, <1>3

\* A reader begins, or forgets what it was told.
LEMMA ReadsBegin ==
    ASSUME ViewsStrong, AnswersStrong, Watch,
           \/ \E e \in Executions : BeginRead(e)
           \/ \E s \in Sessions : BeginSessionRead(s)
           \/ reader' = NoRead
    PROVE  AnswersStrong'
<1>1. CASE reader' = NoRead
  <2>1. reader'.step = "idle" /\ reader'.session = NoOne
    BY <1>1 DEF NoRead
  <2> QED
    BY <2>1 DEF Watch, AnswersStrong, SawRow, CaptureHolds, BytesHold, AnswerHolds, AnswerTrue
<1>2. ASSUME NEW e, reader'.execution = e, reader.step = "idle", reader'.step \in {"source", "authority"},
             reader'.wanted = NoOne => reader'.session = NoOne
      PROVE  AnswersStrong'
  <2>1. seen' = {Standing(e)'}
    BY <1>2 DEF Watch
  <2>2. SawRow' => e \in rows'
    BY <2>1, StandingSaysNext DEF SawRow
  <2> QED
    BY <1>2, <2>2 DEF AnswersStrong, CaptureHolds, BytesHold, AnswerHolds, AnswerTrue
<1>3. ASSUME NEW e \in Executions, BeginRead(e) PROVE AnswersStrong'
  BY <1>2, <1>3 DEF BeginRead, NoRead
<1>4. ASSUME NEW s \in Sessions, BeginSessionRead(s) PROVE AnswersStrong'
  <2>1. /\ reader.step = "idle" /\ reader'.step = "authority"
        /\ reader'.wanted = pointers[s] /\ pointers[s] # NoOne
    BY <1>4 DEF BeginSessionRead, NoRead
  <2> QED
    BY <1>2, <2>1
<1> QED
  BY <1>1, <1>3, <1>4

\* There is no view: a reader that asked for no particular owner has seen that.
LEMMA NoViewSeen ==
    ASSUME ViewsStrong, AnswersStrong, Watch, UNCHANGED readVars, NoView,
           reader.step \notin {"idle", "source again", "answered"},
           reader.wanted = NoOne => SawNoView'
    PROVE  AnswersStrong'
<1>1. CASE reader' = NoRead
  BY <1>1, ReadsBegin
<1>2. CASE reader.wanted = NoOne /\ reader' = [reader EXCEPT !.step = "source again", !.answer = "absent"]
  <2> SUFFICES ASSUME NEW e, e = reader.execution PROVE AnswersStrong'
    OBVIOUS
  <2>1. /\ reader'.step = "source again" /\ reader'.answer = "absent"
        /\ reader'.wanted = NoOne /\ reader'.session = reader.session /\ reader'.execution = e
    BY <1>2 DEF ViewsStrong, Reads
  <2>2. seen' = seen \cup {Standing(e)'}
    BY <2>1, HistoryGrows
  <2>3. SawRow' => e \in rows'
    BY <2>2, StandingSaysNext DEF AnswersStrong, SawRow, readVars, ownerVars
  <2> QED
    BY <1>2, <2>1, <2>3 DEF AnswersStrong, CaptureHolds, BytesHold, AnswerHolds, AnswerTrue
<1> QED
  BY <1>1, <1>2 DEF NoView

\* A read that goes on.
LEMMA ReaderKeepsAnswers ==
    ASSUME ViewsStrong, AnswersStrong, Watch, ReaderStep
    PROVE  AnswersStrong'
<1> SUFFICES ASSUME NEW e, NEW c, e = reader.execution, c = reader.current PROVE AnswersStrong'
  OBVIOUS
<1>1. reader \in Reads /\ TypeOK /\ reader.step # "idle" /\ UNCHANGED readVars
  BY DEF ViewsStrong, ReaderStep, ReadSource, ReadAuthority, ReadBytes, Confirm
<1>2. OwnerOf(e)' = OwnerOf(e) /\ Live' = Live /\ claims' = claims /\ rows' = rows /\ records' = records
  BY <1>1 DEF OwnerOf, Live, readVars, ownerVars
<1>3. ASSUME reader'.step # "idle", reader'.execution = e, reader'.wanted = reader.wanted,
             reader'.session = reader.session
      PROVE  /\ seen' = seen \cup {Standing(e)'}
             /\ SawView => SawView'
             /\ SawNoView => SawNoView'
             /\ SawRow' => reader'.execution \in rows'
             /\ reader'.wanted = NoOne => reader'.session = NoOne
  <2>1. /\ seen' = seen \cup {Standing(e)'}
        /\ SawView => SawView'
        /\ SawNoView => SawNoView'
    BY <1>1, <1>3, HistoryGrows
  <2>2. SawRow' => e \in rows
    BY <1>2, <2>1, StandingSaysNext DEF AnswersStrong, SawRow
  <2> QED
    BY <1>2, <1>3, <2>1, <2>2 DEF AnswersStrong
<1>4. CASE ReadSource
  <2>1. /\ reader'.execution = e /\ reader'.wanted = reader.wanted /\ reader'.session = reader.session
        /\ reader'.step \in {"authority", "answered"}
    BY <1>1, <1>4 DEF ReadSource, Reads
  <2>2. CASE e \in rows
    <3>1. reader'.step = "answered" /\ reader'.answer = "durable"
      BY <1>1, <1>4, <2>2 DEF ReadSource, Reads
    <3>2. SawRow'
      BY <1>2, <1>3, <2>1, <2>2, StandingSaysNext DEF SawRow
    <3> QED
      BY <1>3, <2>1, <3>1, <3>2
         DEF AnswersStrong, CaptureHolds, BytesHold, AnswerHolds, AnswerTrue, SawRow
  <2>3. CASE e \notin rows /\ reader.step = "source"
    <3>1. reader'.step = "authority"
      BY <1>1, <1>4, <2>3 DEF ReadSource, Reads
    <3> QED
      BY <1>3, <2>1, <3>1 DEF AnswersStrong, CaptureHolds, BytesHold, AnswerHolds, AnswerTrue
  <2>4. CASE e \notin rows /\ reader.step = "source again"
    <3>1. reader'.step = "answered" /\ reader'.answer = reader.answer
      BY <1>1, <1>4, <2>4 DEF ReadSource, Reads
    <3>2. ~SawRow'
      BY <1>2, <1>3, <2>1, <2>4
    <3>3. AnswerTrue'
      BY <1>3, <2>1, <2>4, <3>1, <3>2
         DEF AnswersStrong, AnswerHolds, AnswerTrue, SawRow, SawView, SawNoView
    <3> QED
      BY <1>3, <2>1, <3>1, <3>3 DEF AnswersStrong, CaptureHolds, BytesHold, AnswerHolds
  <2> QED
    BY <1>4, <2>2, <2>3, <2>4 DEF ReadSource
<1>5. ASSUME NoView, reader.step \in {"authority", "bytes", "confirm"},
             reader.wanted = NoOne => SawNoView \/ OwnerOf(e) = NoOne \/ OwnerOf(e) \notin records
      PROVE  AnswersStrong'
  <2>1. ASSUME reader.wanted = NoOne PROVE SawNoView'
    <3>1. /\ reader'.step # "idle" /\ reader'.execution = e /\ reader'.wanted = reader.wanted
          /\ reader'.session = reader.session
      BY <1>1, <1>5, <2>1 DEF NoView, Reads
    <3> QED
      BY <1>2, <1>3, <1>5, <2>1, <3>1, StandingSaysNext DEF SawNoView
  <2> QED
    BY <1>1, <1>5, <2>1, NoViewSeen
<1>6. CASE ReadAuthority
  <2>1. CASE NoView
    <3>1. reader.wanted = NoOne => OwnerOf(e) = NoOne
      BY <1>1, <1>6, <2>1 DEF ReadAuthority, NoView, Reads
    <3> QED
      BY <1>5, <1>6, <2>1, <3>1 DEF ReadAuthority
  <2>2. CASE OwnerOf(e) # NoOne /\ reader' = [reader EXCEPT !.step = "bytes", !.current = OwnerOf(e)]
    <3>1. /\ reader'.step = "bytes" /\ reader'.current = OwnerOf(e) /\ reader'.execution = e
          /\ reader'.wanted = reader.wanted /\ reader'.session = reader.session
      BY <1>1, <2>2 DEF Reads
    <3>2. OwnerOf(e) \in Generations /\ claims[OwnerOf(e)] = "live" /\ ExecutionOf[OwnerOf(e)] = e
      BY <2>2, OwnerLive DEF Live
    <3>3. CaptureHolds'
      BY <1>2, <3>1, <3>2 DEF CaptureHolds
    <3> QED
      BY <1>3, <3>1, <3>3 DEF AnswersStrong, BytesHold, AnswerHolds, AnswerTrue
  <2> QED
    BY <1>6, <2>1, <2>2 DEF ReadAuthority
<1>7. CASE ReadBytes
  <2>1. /\ c \in Generations /\ claims[c] # "new" /\ ExecutionOf[c] = e /\ c # NoOne
        /\ OwnerOf(e) = c \/ SawNoView
    BY <1>7 DEF ReadBytes, AnswersStrong, CaptureHolds, ViewsStrong
  <2>2. CASE NoView /\ c \notin records
    BY <1>5, <1>7, <2>1, <2>2 DEF ReadBytes
  <2>3. CASE c \in records /\ reader' = [reader EXCEPT !.step = "confirm"]
    <3>1. /\ reader'.step = "confirm" /\ reader'.current = c /\ reader'.execution = e
          /\ reader'.wanted = reader.wanted /\ reader'.session = reader.session
      BY <1>1, <2>3 DEF Reads
    <3>2. CaptureHolds'
      BY <1>2, <1>3, <2>1, <3>1 DEF CaptureHolds
    <3>3. ASSUME c \in Live PROVE SawView'
      <4>1. OwnerOf(e) = c
        BY <1>1, <2>1, <3>3, OwnerUnique
      <4>2. Standing(e)' \in {"pending", "both"}
        BY <1>2, <2>1, <2>3, <4>1, StandingSaysNext
      <4> QED
        BY <1>3, <3>1, <4>2 DEF SawView
    <3>4. BytesHold'
      BY <1>2, <3>1, <3>3 DEF BytesHold
    <3> QED
      BY <1>3, <3>1, <3>2, <3>4 DEF AnswersStrong, AnswerHolds, AnswerTrue
  <2> QED
    BY <1>7, <2>2, <2>3 DEF ReadBytes
<1>8. CASE Confirm
  <2>1. /\ c # NoOne
        /\ OwnerOf(e) = c \/ SawNoView
        /\ c \in Live => SawView
        /\ reader.wanted = NoOne => reader.session = NoOne
    BY <1>8 DEF Confirm, AnswersStrong, CaptureHolds, BytesHold, ViewsStrong
  <2>2. CASE NoView /\ ~(OwnerOf(e) = c /\ reader.session \in {NoOne, SessionOf[c]})
    BY <1>5, <1>8, <2>1, <2>2 DEF Confirm
  <2>3. ASSUME OwnerOf(e) = c,
               reader' = [reader EXCEPT !.step = IF reader.wanted = NoOne THEN "source again" ELSE "answered",
                                        !.answer = "pending"]
        PROVE  AnswersStrong'
    <3>1. /\ reader'.step = IF reader.wanted = NoOne THEN "source again" ELSE "answered"
          /\ reader'.answer = "pending" /\ reader'.execution = e
          /\ reader'.wanted = reader.wanted /\ reader'.session = reader.session
      BY <1>1, <2>3 DEF Reads
    <3>2. SawView'
      BY <1>3, <2>1, <2>3, <3>1, OwnerLive
    <3> QED
      BY <1>3, <3>1, <3>2 DEF AnswersStrong, CaptureHolds, BytesHold, AnswerHolds, AnswerTrue, SawView
  <2> QED
    BY <1>8, <2>2, <2>3 DEF Confirm
<1> QED
  BY <1>4, <1>6, <1>7, <1>8 DEF ReaderStep

\* A caller of a promotion, or nobody, moves.
LEMMA OthersKeepAnswers ==
    ASSUME ViewsStrong, AnswersStrong, Watch, UNCHANGED <<callVars>>
    PROVE  AnswersStrong'
<1>1. reader' = reader /\ Live' = Live /\ claims' = claims /\ rows' = rows
  BY DEF callVars, ownerVars, Live
<1>2. CASE reader.step = "idle"
  BY <1>1, <1>2 DEF Watch, AnswersStrong, SawRow, CaptureHolds, BytesHold, AnswerHolds, AnswerTrue
<1>3. CASE reader.step # "idle"
  <2> SUFFICES ASSUME NEW e, e = reader.execution PROVE AnswersStrong'
    OBVIOUS
  <2>1. /\ seen' = seen \cup {Standing(e)'}
        /\ SawView => SawView'
        /\ SawNoView => SawNoView'
    BY <1>1, <1>3, HistoryGrows
  <2>2. SawRow' => e \in rows
    BY <1>1, <2>1, StandingSaysNext DEF AnswersStrong, SawRow
  <2>3. OwnerOf(e)' = OwnerOf(e)
    BY <1>1 DEF OwnerOf
  <2>4. CaptureHolds'
    BY <1>1, <2>1, <2>3 DEF AnswersStrong, CaptureHolds
  <2>5. BytesHold'
    BY <1>1, <2>1 DEF AnswersStrong, BytesHold
  <2>6. AnswerHolds' /\ AnswerTrue'
    BY <1>1, <2>1 DEF AnswersStrong, AnswerHolds, AnswerTrue
  <2> QED
    BY <1>1, <2>2, <2>4, <2>5, <2>6 DEF AnswersStrong
<1> QED
  BY <1>2, <1>3

\* What a reader in another runtime is told about an execution was true at one
\* moment of its read: at that moment the execution was durable, had a published
\* live owner, or neither.
THEOREM AnswersTrue == Spec => []AnswerTrue
<1>1. Init => AnswersStrong
  <2>1. NoRead.step = "idle" /\ NoRead.session = NoOne
    BY DEF NoRead
  <2> QED
    BY <2>1 DEF Init, AnswersStrong, SawRow, CaptureHolds, BytesHold, AnswerHolds, AnswerTrue
<1>2. ViewsStrong /\ ViewsStrong' /\ AnswersStrong /\ [Next]_vars => AnswersStrong'
  <2> SUFFICES ASSUME ViewsStrong, ViewsStrong', AnswersStrong, [Next]_vars PROVE AnswersStrong'
    OBVIOUS
  <2>1. CASE Step /\ Watch
    <3>1. CASE \E g \in Generations : OwnerStep(g)
      BY <2>1, <3>1, OwnersKeepAnswers
    <3>2. CASE ReaderStep
      BY <2>1, <3>2, ReaderKeepsAnswers
    <3>3. CASE \/ \E e \in Executions : BeginRead(e)
               \/ \E s \in Sessions : BeginSessionRead(s)
               \/ Forget
      BY <2>1, <3>3, ReadsBegin DEF Forget
    <3>4. CASE (\E e \in Executions : CallPromotion(e)) \/ CallerStep \/ TimesUp
      <4>1. UNCHANGED <<callVars>>
        BY <3>4 DEF CallPromotion, CallerStep, PutHint, ReadHint, AcceptHint, PollSource, PollOwner,
                    PollConfirm, TimesUp
      <4> QED
        BY <2>1, <4>1, OthersKeepAnswers
    <3> QED
      BY <2>1, <3>1, <3>2, <3>3, <3>4 DEF Step, OwnerStep
  <2>2. CASE UNCHANGED vars
    BY <2>2 DEF vars, views, AnswersStrong, SawRow, SawView, SawNoView, CaptureHolds, BytesHold,
                AnswerHolds, AnswerTrue, OwnerOf, Live
  <2> QED
    BY <2>1, <2>2 DEF Next
<1>3. AnswersStrong => AnswerTrue
  BY DEF AnswersStrong
<1> QED
  BY <1>1, <1>2, <1>3, ViewsInvariance, PTL DEF Spec

=============================================================================
