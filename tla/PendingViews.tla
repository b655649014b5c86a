---------------------------- MODULE PendingViews ----------------------------
(***************************************************************************)
(* What other runtimes see of a pending turn (persistence/coordination.py *)
(* and the remote promotion of runtime/_local.py).  A live owner publishes *)
(* its record and a pointer from its session in a lossy cache; a reader of *)
(* an execution reads the source, then authority, bytes and authority      *)
(* again, and the source again.  A caller that needs the execution to be   *)
(* durable leaves a hint for the owner and waits for the source.  A        *)
(* generation is one claim, by its own owner id, of an execution.          *)
(***************************************************************************)
EXTENDS FiniteSets

CONSTANTS
    Generations, \* claims, in all of time
    NoOne,       \* none of them
    ExecutionOf, \* generation -> its execution
    SessionOf    \* generation -> its session

Executions == {ExecutionOf[g] : g \in Generations}
Sessions == {SessionOf[g] : g \in Generations}

VARIABLES
    claims,     \* generation -> "new", "live" or "gone"
    publishing, \* generation -> the put of publish it makes next
    records,    \* generations whose record is in the cache
    pointers,   \* session -> the generation its pointer names
    hints,      \* generations a promotion hint in the cache is for
    watchers,   \* generations whose runtime watches for a hint
    rows,       \* executions that are in the source
    reader,     \* a read of an execution: its step, and what it captured
    caller,     \* a remote promotion: its step, and what it captured
    seen        \* history: how the execution has stood since the reader began

views == <<claims, publishing, records, pointers, hints, watchers, rows, reader, caller>>
vars == <<views, seen>>

Live == {g \in Generations : claims[g] = "live"}

\* read_turn: the live owner of an execution.
OwnerOf(e) ==
    IF \E g \in Live : ExecutionOf[g] = e
    THEN CHOOSE g \in Live : ExecutionOf[g] = e ELSE NoOne

\* What is true of an execution: its row is in the source, a live owner has a view
\* of it in the cache, or both.
Standing(e) ==
    LET viewed == OwnerOf(e) # NoOne /\ OwnerOf(e) \in records
    IN IF e \in rows THEN IF viewed THEN "both" ELSE "durable"
       ELSE IF viewed THEN "pending" ELSE "absent"

NoRead == [step |-> "idle", session |-> NoOne, execution |-> NoOne, wanted |-> NoOne,
           current |-> NoOne, answer |-> "none"]
NoCall == [step |-> "idle", execution |-> NoOne, owner |-> NoOne, current |-> NoOne,
           time |-> "left"]

Init ==
    /\ claims = [g \in Generations |-> "new"]
    /\ publishing = [g \in Generations |-> "idle"]
    /\ records = {}
    /\ pointers = [s \in Sessions |-> NoOne]
    /\ hints = {}
    /\ watchers = {}
    /\ rows = {}
    /\ reader = NoRead
    /\ caller = NoCall
    /\ seen = {}

-----------------------------------------------------------------------------
(* The owners and the cache. *)

ownerVars == <<claims, publishing, records, pointers, watchers, rows>>

\* One live generation per execution and per session (TurnCoordination).  Only the
\* owner of a conversation turn watches for hints.
Claim(g) ==
    /\ claims[g] = "new"
    /\ \A h \in Live : ExecutionOf[h] # ExecutionOf[g] /\ SessionOf[h] # SessionOf[g]
    /\ claims' = [claims EXCEPT ![g] = "live"]
    /\ publishing' = [publishing EXCEPT ![g] = "record"]
    /\ watchers' \in {watchers, watchers \cup {g}}
    /\ UNCHANGED <<records, pointers, hints, rows, reader, caller>>

\* publish: the record is put, then the pointer; neither put asks for authority,
\* so both may come after the claim has ended.
PutRecord(g) ==
    /\ publishing[g] = "record"
    /\ records' = records \cup {g}
    /\ publishing' = [publishing EXCEPT ![g] = "pointer"]
    /\ UNCHANGED <<claims, pointers, hints, watchers, rows, reader, caller>>

PutPointer(g) ==
    /\ publishing[g] = "pointer"
    /\ pointers' = [pointers EXCEPT ![SessionOf[g]] = g]
    /\ publishing' = [publishing EXCEPT ![g] = "idle"]
    /\ UNCHANGED <<claims, records, hints, watchers, rows, reader, caller>>

\* The activation of the turn publishes again.
Republish(g) ==
    /\ g \in Live /\ publishing[g] = "idle"
    /\ publishing' = [publishing EXCEPT ![g] = "record"]
    /\ UNCHANGED <<claims, records, pointers, hints, watchers, rows, reader, caller>>

\* The cache may drop what it holds.
Evict(g) ==
    /\ \/ g \in records /\ records' = records \ {g} /\ UNCHANGED hints
       \/ g \in hints /\ hints' = hints \ {g} /\ UNCHANGED records
    /\ UNCHANGED <<claims, publishing, pointers, watchers, rows, reader, caller>>

\* The turn is promoted or committed, which makes its execution durable; a commit of
\* unknown outcome may land after the claim has ended.
Commit(g) ==
    /\ claims[g] # "new"
    /\ rows' = rows \cup {ExecutionOf[g]}
    /\ UNCHANGED <<claims, publishing, records, pointers, hints, watchers, reader, caller>>

\* The claim is released after that, or lost before.
End(g) ==
    /\ g \in Live
    /\ claims' = [claims EXCEPT ![g] = "gone"]
    /\ UNCHANGED <<publishing, records, pointers, hints, watchers, rows, reader, caller>>

\* promotion_requested: the key of a hint names the execution and the owner.
Hinted(g) == g \in hints

\* _watch_pending_promotion.  It leaves a committing or uncertain turn alone, and
\* nothing says for how long.
PromoteHinted(g) ==
    /\ g \in Live \cap watchers /\ Hinted(g) /\ ExecutionOf[g] \notin rows
    /\ rows' = rows \cup {ExecutionOf[g]}
    /\ UNCHANGED <<claims, publishing, records, pointers, hints, watchers, reader, caller>>

\* Its first failure, in reading the hint or in promoting, ends it though its claim
\* may live on, and so does a turn that is not pending any more.
WatchEnds(g) ==
    /\ g \in watchers
    /\ watchers' = watchers \ {g}
    /\ UNCHANGED <<claims, publishing, records, pointers, hints, rows, reader, caller>>

-----------------------------------------------------------------------------
(* A reader in another runtime. *)

readVars == <<ownerVars, hints, caller>>

\* load_execution, for an execution the reader knows.
BeginRead(e) ==
    /\ reader.step = "idle"
    /\ reader' = [NoRead EXCEPT !.step = "source", !.execution = e]
    /\ UNCHANGED readVars

\* read_session_execution: the pointer names an execution and its owner.
BeginSessionRead(s) ==
    /\ reader.step = "idle" /\ pointers[s] # NoOne
    /\ reader' = [NoRead EXCEPT !.step = "authority", !.session = s,
                                !.execution = ExecutionOf[pointers[s]], !.wanted = pointers[s]]
    /\ UNCHANGED readVars

\* As ReadSource, but what the view said is not checked against the source again.
ReadSourceOnce ==
    /\ reader.step \in {"source", "source again"}
    /\ reader' = IF reader.step = "source again" THEN [reader EXCEPT !.step = "answered"]
                 ELSE IF reader.execution \in rows
                   THEN [reader EXCEPT !.step = "answered", !.answer = "durable"]
                   ELSE [reader EXCEPT !.step = "authority"]
    /\ UNCHANGED readVars

\* The source is read before the view and after it: the owner may have committed
\* and released in between.
ReadSource ==
    /\ reader.step \in {"source", "source again"}
    /\ reader' = IF reader.execution \in rows
                   THEN [reader EXCEPT !.step = "answered", !.answer = "durable"]
                   ELSE [reader EXCEPT !.step = IF @ = "source" THEN "authority" ELSE "answered"]
    /\ UNCHANGED readVars

\* There is no view; absence from a session's pointer means nothing.
NoView ==
    reader' = IF reader.wanted = NoOne
                THEN [reader EXCEPT !.step = "source again", !.answer = "absent"]
                ELSE NoRead

\* _read_execution reads the authority,
ReadAuthority ==
    /\ reader.step = "authority"
    /\ LET g == OwnerOf(reader.execution)
       IN IF g # NoOne /\ reader.wanted \in {NoOne, g}
          THEN reader' = [reader EXCEPT !.step = "bytes", !.current = g]
          ELSE NoView
    /\ UNCHANGED readVars

\* then the bytes of that generation,
ReadBytes ==
    /\ reader.step = "bytes"
    /\ IF reader.current \in records
       THEN reader' = [reader EXCEPT !.step = "confirm"]
       ELSE NoView
    /\ UNCHANGED readVars

\* and the authority again: the same generation, and the session asked for.
Confirm ==
    /\ reader.step = "confirm"
    /\ IF /\ OwnerOf(reader.execution) = reader.current
          /\ reader.session \in {NoOne, SessionOf[reader.current]}
       THEN reader' = [reader EXCEPT !.step = IF reader.wanted = NoOne THEN "source again" ELSE "answered",
                                     !.answer = "pending"]
       ELSE NoView
    /\ UNCHANGED readVars

Forget == reader.step = "answered" /\ reader' = NoRead /\ UNCHANGED readVars

-----------------------------------------------------------------------------
(* A caller of _promote_remote_pending. *)

callVars == <<ownerVars, reader>>

\* A durable row lets the dependent operation go ahead; without an owner to
\* wait for the source is read once more before the call is refused.
Resolve(e) == caller' = [NoCall EXCEPT !.step = IF e \in rows THEN "ready" ELSE "refused"]

CallPromotion(e) ==
    /\ caller.step = "idle" /\ e \notin rows
    /\ caller' = [NoCall EXCEPT !.step = "hint", !.execution = e]
    /\ UNCHANGED <<callVars, hints>>

\* request_promotion: the owner is read and its hint put.
PutHint ==
    /\ caller.step = "hint"
    /\ LET g == OwnerOf(caller.execution)
       IN IF g = NoOne
          THEN Resolve(caller.execution) /\ UNCHANGED hints
          ELSE /\ caller' = [caller EXCEPT !.step = "put", !.current = g]
               /\ hints' = hints \cup {g}
    /\ UNCHANGED callVars

\* The hint is read back, then the same generation confirmed.
ReadHint ==
    /\ caller.step \in {"put", "poll hint"}
    /\ IF Hinted(caller.current)
       THEN caller' = [caller EXCEPT !.step = IF @ = "put" THEN "accept" ELSE "poll confirm"]
       ELSE Resolve(caller.execution)
    /\ UNCHANGED <<callVars, hints>>

AcceptHint ==
    /\ caller.step = "accept"
    /\ IF OwnerOf(caller.execution) = caller.current
       THEN caller' = [caller EXCEPT !.step = "wait", !.owner = caller.current]
       ELSE Resolve(caller.execution)
    /\ UNCHANGED <<callVars, hints>>

\* As PollSource, but only the end of the owner ends the wait.
PollSourcePatiently ==
    /\ caller.step = "wait"
    /\ IF caller.execution \in rows
       THEN Resolve(caller.execution)
       ELSE caller' = [caller EXCEPT !.step = "poll"]
    /\ UNCHANGED <<callVars, hints>>

\* Every round of the wait reads the source first, and looks at the clock then.
PollSource ==
    /\ caller.step = "wait"
    /\ IF caller.execution \in rows \/ caller.time = "over"
       THEN Resolve(caller.execution)
       ELSE caller' = [caller EXCEPT !.step = "poll"]
    /\ UNCHANGED <<callVars, hints>>

\* remote_promotion_pending: the owner that was asked must still be there.
PollOwner ==
    /\ caller.step = "poll"
    /\ IF OwnerOf(caller.execution) = caller.owner
       THEN caller' = [caller EXCEPT !.step = "poll hint", !.current = caller.owner]
       ELSE Resolve(caller.execution)
    /\ UNCHANGED <<callVars, hints>>

PollConfirm ==
    /\ caller.step = "poll confirm"
    /\ IF OwnerOf(caller.execution) = caller.current
       THEN caller' = [caller EXCEPT !.step = "wait"]
       ELSE Resolve(caller.execution)
    /\ UNCHANGED <<callVars, hints>>

\* The thirty seconds are over.
TimesUp ==
    /\ caller.step \in {"wait", "poll", "poll hint", "poll confirm"} /\ caller.time = "left"
    /\ caller' = [caller EXCEPT !.time = "over"]
    /\ UNCHANGED <<callVars, hints>>

ReaderStep == ReadSource \/ ReadAuthority \/ ReadBytes \/ Confirm
CallerStep == PutHint \/ ReadHint \/ AcceptHint \/ PollSource \/ PollOwner \/ PollConfirm

Step ==
    \/ \E g \in Generations :
          \/ Claim(g) \/ PutRecord(g) \/ PutPointer(g) \/ Republish(g) \/ Evict(g)
          \/ Commit(g) \/ End(g) \/ PromoteHinted(g) \/ WatchEnds(g)
    \/ \E e \in Executions : BeginRead(e) \/ CallPromotion(e)
    \/ \E s \in Sessions : BeginSessionRead(s)
    \/ ReaderStep \/ Forget \/ CallerStep \/ TimesUp

\* The history of the read under way, the moment it begins included.
Watch ==
    seen' = IF reader'.step = "idle" THEN {}
            ELSE (IF reader.step = "idle" THEN {} ELSE seen) \cup {Standing(reader.execution)'}

Next == Step /\ Watch

Spec == Init /\ [][Next]_vars

\* The caller's calls return and its clock runs; no owner promises to promote.
Fairness == WF_views(CallerStep) /\ WF_views(TimesUp)

-----------------------------------------------------------------------------
(* Properties. *)

\* Every variable has its type, and an execution has at most one live owner.
TypeOK ==
    /\ \A g, h \in Live : ExecutionOf[g] = ExecutionOf[h] => g = h
    /\ claims \in [Generations -> {"new", "live", "gone"}]
    /\ publishing \in [Generations -> {"idle", "record", "pointer"}]
    /\ records \subseteq Generations /\ hints \subseteq Generations
    /\ watchers \subseteq Generations
    /\ pointers \in [Sessions -> Generations \cup {NoOne}]
    /\ \A s \in Sessions : pointers[s] # NoOne => SessionOf[pointers[s]] = s
    /\ rows \subseteq Executions
    /\ reader.step \in {"idle", "source", "authority", "bytes", "confirm", "source again", "answered"}
    /\ caller.step \in {"idle", "hint", "put", "accept", "wait", "poll", "poll hint",
                        "poll confirm", "ready", "refused"}
    /\ seen \subseteq {"absent", "pending", "durable", "both"}

\* What a reader is told about an execution was true at one moment of its read,
\* although the answer is put together from two reads of the source, two of the
\* authority and one of a lossy cache while owners publish, commit, release, lose
\* their claims and are followed by others: an execution that was durable or had a
\* published owner all along is not reported absent, and one that was durable all
\* along not as pending.
AnswerTrue ==
    reader.step = "answered" =>
        /\ reader.answer = "absent"  => "absent" \in seen
        /\ reader.answer = "pending" => "pending" \in seen \/ (reader.wanted # NoOne /\ "both" \in seen)
        /\ reader.answer = "durable" => "durable" \in seen \/ "both" \in seen

\* A remote promotion is answered, by its deadline at the latest, whatever the owner
\* does about the hint; and if the execution is durable by then, it is not refused.
PromotionSettles ==
    /\ caller.step = "hint" ~> caller.step \in {"ready", "refused"}
    /\ (caller.step \notin {"idle", "ready", "refused"} /\ caller.execution \in rows)
         ~> caller.step = "ready"

=============================================================================
