--------------------------- MODULE RunBudgetProofs ---------------------------
(***************************************************************************)
(* Proofs about shared run budgets for any number of runtimes, calls and   *)
(* keys: the stored projection is exact, the limits hold, and the refusals *)
(* for an unresolved reservation are right.                                *)
(***************************************************************************)
EXTENDS RunBudget, FiniteSetTheorems, TLAPS

(***************************************************************************)
(* The inductive invariant.  A commit writes back what its transaction has *)
(* read, so exactness rests on an unchanged revision meaning an unchanged  *)
(* record; that no reservation is counted twice, or settled twice, rests   *)
(* on where a call that holds one can be; and that a reservation outside   *)
(* _active_requests is really abandoned, on who may leave that set.        *)
(***************************************************************************)

\* A snapshot of the present revision is the present record.
SnapshotsPast ==
    \A c \in Calls : /\ seen[c].rev <= rev
                     /\ seen[c].rev = rev => seen[c] = Snapshot

\* Which calls hold a reservation, and which have settled theirs.
Staged ==
    \A c \in Calls :
        /\ pc[c] \in {"idle", "read", "check", "refused", "unresolved"} => c \notin Reserved
        /\ pc[c] \in {"admitted", "handler", "settle", "settling", "settled"} => c \in Reserved
        /\ pc[c] \in {"handler", "settle", "settling", "settled"} => c \in ModelCalls
        /\ pc[c] \notin {"settled", "done", "dead"} => settled[c] = Open

LiveStages == {"read", "check", "unsure", "admitted", "handler", "settle", "settling", "settled"}

\* A model call on its way is in _active_requests, unless another admission has
\* the reservation of its request or close() is through with its runtime.
LiveCalls ==
    \A c \in ModelCalls : pc[c] \in LiveStages =>
        \/ c \in active[RuntimeOf(c)]
        \/ row[KeyOf(c)] \notin {NoRow, c}
        \/ RuntimeOf(c) \in closing /\ PendingCommits(RuntimeOf(c)) = {}

\* A process dies with all its calls.
DeadTogether ==
    \A c, d \in Calls : pc[c] = "dead" /\ RuntimeOf(d) = RuntimeOf(c) => pc[d] \in {"dead", "done"}

BudgetStrong ==
    /\ TypeOK
    /\ UsageExact
    /\ WithinLimits
    /\ OneRuntimeInFlight
    /\ GenuinelyUnresolved
    /\ DispatchedOnce
    /\ SnapshotsPast
    /\ Staged
    /\ LiveCalls
    /\ DeadTogether

-----------------------------------------------------------------------------
(***************************************************************************)
(* Sets of calls and their sizes.                                          *)
(***************************************************************************)

\* The parts of the scope at hand.
LEMMA ScopeTypes ==
    ASSUME scope \in Scopes
    PROVE  /\ \A c \in Calls : RuntimeOf(c) \in Runtimes /\ KeyOf(c) \in Keys
           /\ ModelCalls \subseteq Calls
           /\ ToolCalls \subseteq Calls
           /\ Drawing \subseteq Runtimes
           /\ ModelLimit \in Nat
           /\ ToolLimit \in Nat
BY CallsAssumption DEF CallsAssumption, RuntimeOf, KeyOf, ModelCalls, ToolCalls, Drawing, ModelLimit, ToolLimit

\* Sets of calls are finite.
LEMMA CallSets ==
    ASSUME NEW S \in SUBSET Calls
    PROVE  /\ IsFiniteSet(S)
           /\ Cardinality(S) \in Nat
BY FS_Subset, FS_CardinalityType, CallsAssumption DEF CallsAssumption

\* One more call.
LEMMA OneMore ==
    ASSUME NEW S \in SUBSET Calls, NEW c \in Calls, c \notin S
    PROVE  Cardinality(S \cup {c}) = Cardinality(S) + 1
BY CallSets, FS_AddElement

\* One call less.
LEMMA OneLess ==
    ASSUME NEW S \in SUBSET Calls, NEW c \in S
    PROVE  /\ Cardinality(S \ {c}) = Cardinality(S) - 1
           /\ Cardinality(S) > 0
<1>1. Cardinality(S \ {c}) = Cardinality(S) - 1
  BY CallSets, FS_RemoveElement
<1>2. S \ {c} \in SUBSET Calls
  OBVIOUS
<1>3. Cardinality(S \ {c}) \in Nat /\ Cardinality(S) \in Nat
  BY <1>2, CallSets
<1> QED
  BY <1>1, <1>3

\* The scope at hand never changes, and neither does what is read off it.
LEMMA ScopeKept ==
    ASSUME scope' = scope
    PROVE  /\ \A c : RuntimeOf(c)' = RuntimeOf(c) /\ KeyOf(c)' = KeyOf(c)
           /\ ModelCalls' = ModelCalls
           /\ ToolCalls' = ToolCalls
           /\ Drawing' = Drawing
           /\ ModelLimit' = ModelLimit
           /\ ToolLimit' = ToolLimit
           /\ TokenLimit' = TokenLimit
BY DEF RuntimeOf, KeyOf, ModelCalls, ToolCalls, Drawing, ModelLimit, ToolLimit, TokenLimit

-----------------------------------------------------------------------------
(***************************************************************************)
(* The initial state.                                                      *)
(***************************************************************************)

\* Nothing is reserved, nobody has read anything and no call has begun.
LEMMA InitStrong == Init => BudgetStrong
<1> SUFFICES ASSUME Init PROVE BudgetStrong
  OBVIOUS
<1> USE CallsAssumption, ValuesAssumption
<1>1. TypeOK
  BY ScopeTypes DEF CallsAssumption, ValuesAssumption, Init, TypeOK, NoUsage, Usage, Settlements, Labels
<1>2. Reserved = {}
  BY ScopeTypes DEF ValuesAssumption, Init, Reserved
<1>3. /\ Reserved \cap ModelCalls = {}
      /\ Reserved \cap ToolCalls = {}
      /\ {c \in Reserved \cap ModelCalls : settled[c] = Unknown} = {}
      /\ InFlight(row, settled) = {}
  BY <1>2, ScopeTypes DEF Init, Reserved, InFlight
<1>4. Cardinality({}) = 0
  BY FS_EmptySet
<1>5. UsageExact
  BY <1>3, <1>4 DEF UsageExact, Init, NoUsage
<1>6. WithinLimits
  <2>1. ModelLimit \in Nat /\ ToolLimit \in Nat
    BY ScopeTypes DEF Init
  <2>2. Cardinality(Reserved \cap ModelCalls) = 0 /\ Cardinality(Reserved \cap ToolCalls) = 0
    BY <1>3, <1>4, Zenon
  <2> QED
    BY <2>1, <2>2 DEF WithinLimits
<1>7. OneRuntimeInFlight
  BY <1>3 DEF OneRuntimeInFlight
<1>8. GenuinelyUnresolved /\ DispatchedOnce /\ LiveCalls /\ DeadTogether
  BY ScopeTypes DEF Init, GenuinelyUnresolved, DispatchedOnce, LiveCalls, LiveStages, DeadTogether, ModelCalls
<1>9. SnapshotsPast
  BY DEF Init, SnapshotsPast, Snapshot
<1>10. Staged
  BY <1>2 DEF Init, Staged
<1> QED
  BY <1>1, <1>5, <1>6, <1>7, <1>8, <1>9, <1>10 DEF BudgetStrong

-----------------------------------------------------------------------------
(***************************************************************************)
(* The steps that write the store.                                         *)
(***************************************************************************)

\* Only the commits of an admission and of a settlement write the store.
LEMMA StoreSteps ==
    ASSUME Next
    PROVE  /\ scope' = scope
           /\ \/ UNCHANGED store
              \/ \E c \in Calls : CommitAdmission(c) \/ CommitSettlement(c)
BY DEF Next, AdmissionStep, SettlementStep, BeginAdmission, RefuseClosed, ReadScope, Refuse, RefuseUnresolved,
       RetryAdmission, FailAdmission, Readback, CancelAdmission, Dispatch, AbandonAdmission, EndHandler,
       BeginSettlement, FailSettlement, RetireRequest, BeginClose, EndClose, Crash, DeadlinePasses

\* A commit of admit_model or admit_tool adds its call to the reservations and
\* to the counts of the present record, within the limits.
LEMMA AdmissionCommits ==
    ASSUME BudgetStrong, NEW c \in Calls, CommitAdmission(c), scope' = scope
    PROVE  /\ row[KeyOf(c)] = NoRow
           /\ c \notin Reserved
           /\ Reserved' = Reserved \cup {c}
           /\ settled[c] = Open /\ settled' = settled
           /\ usage' = IF c \in ModelCalls
                       THEN [usage EXCEPT !.model = usage.model + 1, !.inflight = usage.inflight + 1]
                       ELSE [usage EXCEPT !.tools = usage.tools + 1]
           /\ IF c \in ModelCalls THEN usage.model < ModelLimit ELSE usage.tools < ToolLimit
           /\ InFlight(row, settled)' = InFlight(row, settled) \cup ({c} \cap ModelCalls)
           /\ TokenLimit # NoLimit => \A d \in InFlight(row, settled) : RuntimeOf(d) = RuntimeOf(c)
<1> USE ScopeTypes, ScopeKept
<1>1. scope \in Scopes /\ usage \in Usage /\ row \in [Keys -> Calls \cup {NoRow}]
  BY DEF BudgetStrong, TypeOK
<1>2. seen[c] = Snapshot
  BY DEF BudgetStrong, SnapshotsPast, CommitAdmission, Fresh
<1>3. /\ seen[c].usage = usage
      /\ seen[c].row = row
      /\ seen[c].settled = settled
  BY <1>2 DEF Snapshot
<1>4. ~RefusedByCount(c) /\ ~RefusedByTokens(c)
  BY DEF CommitAdmission, Admissible
<1>5. row[KeyOf(c)] = NoRow
  BY <1>3, <1>4 DEF RefusedByCount, Duplicate
<1>6. NoRow \notin Calls
  BY ValuesAssumption DEF ValuesAssumption
<1>7. row' = [row EXCEPT ![KeyOf(c)] = c] /\ settled' = settled
  BY DEF CommitAdmission
<1>8. c \notin Reserved
  BY <1>1, <1>5, <1>6 DEF Reserved
<1>9. \A d \in Calls : row'[KeyOf(d)] = d <=> row[KeyOf(d)] = d \/ d = c
  BY <1>1, <1>5, <1>6, <1>7
<1>10. Reserved' = Reserved \cup {c}
  BY <1>1, <1>9 DEF Reserved
<1>11. settled[c] = Open
  BY DEF BudgetStrong, Staged, CommitAdmission
<1>12. InFlight(row, settled)' = InFlight(row, settled) \cup ({c} \cap ModelCalls)
  BY <1>1, <1>7, <1>9, <1>11 DEF InFlight
<1>13. usage' = IF c \in ModelCalls
                THEN [usage EXCEPT !.model = usage.model + 1, !.inflight = usage.inflight + 1]
                ELSE [usage EXCEPT !.tools = usage.tools + 1]
  BY <1>3 DEF CommitAdmission
<1>14. IF c \in ModelCalls THEN usage.model < ModelLimit ELSE usage.tools < ToolLimit
  BY <1>1, <1>3, <1>4 DEF RefusedByCount, CountReached, Usage
<1>15. TokenLimit # NoLimit => \A d \in InFlight(row, settled) : RuntimeOf(d) = RuntimeOf(c)
  BY <1>3, <1>4 DEF RefusedByTokens, Foreign
<1> QED
  BY <1>5, <1>7, <1>8, <1>10, <1>11, <1>12, <1>13, <1>14, <1>15

\* A settlement is of a reservation in flight, and takes it out of the count.
LEMMA SettlementCommits ==
    ASSUME BudgetStrong, NEW c \in Calls, CommitSettlement(c), scope' = scope
    PROVE  /\ c \in ModelCalls
           /\ c \in InFlight(row, settled)
           /\ c \in Reserved
           /\ row' = row
           /\ Reserved' = Reserved
           /\ settled' = [settled EXCEPT ![c] = outcome[c]]
           /\ outcome[c] \in Nat \cup {Unknown}
           /\ InFlight(row, settled)' = InFlight(row, settled) \ {c}
<1> USE ScopeTypes, ScopeKept
<1>1. scope \in Scopes /\ settled \in [Calls -> Settlements] /\ outcome \in [Calls -> Nat \cup {Unknown}]
  BY DEF BudgetStrong, TypeOK
<1>2. pc[c] = "settling" /\ row' = row /\ settled' = [settled EXCEPT ![c] = outcome[c]]
  BY DEF CommitSettlement
<1>3. c \in Reserved /\ c \in ModelCalls /\ settled[c] = Open
  BY <1>2 DEF BudgetStrong, Staged
<1>4. c \in InFlight(row, settled)
  BY <1>3 DEF InFlight, Reserved
<1>5. Reserved' = Reserved
  BY <1>2 DEF Reserved
<1>6. outcome[c] \in Nat \cup {Unknown} /\ outcome[c] # Open
  BY <1>1, ValuesAssumption DEF ValuesAssumption
<1>7. \A d \in Calls : settled'[d] = Open <=> settled[d] = Open /\ d # c
  BY <1>1, <1>2, <1>6
<1>8. InFlight(row, settled)' = InFlight(row, settled) \ {c}
  BY <1>1, <1>2, <1>7 DEF InFlight
<1> QED
  BY <1>2, <1>3, <1>4, <1>5, <1>6, <1>8

\* What is reserved stays reserved.
LEMMA ReservedGrows ==
    ASSUME BudgetStrong, Next
    PROVE  Reserved \subseteq Reserved'
<1>1. CASE UNCHANGED store
  BY <1>1, StoreSteps, ScopeKept DEF store, Reserved
<1>2. ASSUME NEW c \in Calls, CommitAdmission(c)
      PROVE  Reserved \subseteq Reserved'
  BY <1>2, StoreSteps, AdmissionCommits
<1>3. ASSUME NEW c \in Calls, CommitSettlement(c)
      PROVE  Reserved \subseteq Reserved'
  BY <1>3, StoreSteps, SettlementCommits
<1> QED
  BY <1>1, <1>2, <1>3, StoreSteps

-----------------------------------------------------------------------------
(***************************************************************************)
(* The projection, the limits and the runtimes in flight.                  *)
(***************************************************************************)

\* The projection after the admission of a model call.
LEMMA UsageAdmitted ==
    ASSUME NEW u \in Usage,
           NEW v, v = [u EXCEPT !.model = u.model + 1, !.inflight = u.inflight + 1]
    PROVE  /\ v \in Usage
           /\ v.model = u.model + 1 /\ v.tools = u.tools
           /\ v.inflight = u.inflight + 1 /\ v.unknown = u.unknown
<1>1. v = [model |-> u.model + 1, tools |-> u.tools, tokens |-> u.tokens,
           inflight |-> u.inflight + 1, unknown |-> u.unknown]
  BY DEF Usage
<1> QED
  BY <1>1 DEF Usage

\* The projection after a settlement of t tokens, or of an unknown number.
LEMMA UsageSettled ==
    ASSUME NEW u \in Usage, u.inflight > 0, NEW t \in Nat, NEW n \in Nat,
           NEW v, v = [u EXCEPT !.inflight = u.inflight - 1, !.tokens = u.tokens + t,
                                !.unknown = u.unknown + n]
    PROVE  v \in Usage
<1>1. v = [model |-> u.model, tools |-> u.tools, tokens |-> u.tokens + t,
           inflight |-> u.inflight - 1, unknown |-> u.unknown + n]
  BY DEF Usage
<1> QED
  BY <1>1 DEF Usage

\* The admission of a call keeps the counts exact and within the limits.
LEMMA AdmissionKeepsStore ==
    ASSUME BudgetStrong, NEW c \in Calls, CommitAdmission(c), scope' = scope
    PROVE  usage' \in Usage /\ UsageExact' /\ WithinLimits' /\ OneRuntimeInFlight'
<1> DEFINE held == Reserved \cap ModelCalls
           tools == Reserved \cap ToolCalls
           flying == InFlight(row, settled)
           lost == {d \in Reserved \cap ModelCalls : settled[d] = Unknown}
<1>1. scope \in Scopes /\ usage \in Usage
  BY DEF BudgetStrong, TypeOK
<1>2. /\ held \in SUBSET Calls /\ tools \in SUBSET Calls
      /\ flying \in SUBSET Calls /\ lost \in SUBSET Calls
  BY <1>1, ScopeTypes DEF InFlight
<1>3. /\ usage.model = Cardinality(held) /\ usage.tools = Cardinality(tools)
      /\ usage.inflight = Cardinality(flying) /\ usage.unknown = Cardinality(lost)
  BY DEF BudgetStrong, UsageExact
<1>4. /\ Cardinality(held) <= ModelLimit /\ Cardinality(tools) <= ToolLimit
      /\ ModelLimit \in Nat /\ ToolLimit \in Nat
      /\ ModelLimit' = ModelLimit /\ ToolLimit' = ToolLimit
  BY <1>1, ScopeTypes, ScopeKept DEF BudgetStrong, WithinLimits
<1>5. /\ Cardinality(held) \in Nat /\ Cardinality(tools) \in Nat
  BY <1>2, CallSets
<1>6. c \notin Reserved /\ Reserved' = Reserved \cup {c} /\ settled' = settled /\ settled[c] # Unknown
  BY AdmissionCommits, ValuesAssumption DEF ValuesAssumption
<1>7. c \notin flying
  BY <1>6 DEF InFlight, Reserved
<1>8. flying' = flying \cup ({c} \cap ModelCalls)
  BY AdmissionCommits
<1>9. lost' = lost
  BY <1>1, <1>6, ScopeKept
<1>10. OneRuntimeInFlight'
  BY <1>1, <1>8, ScopeKept, AdmissionCommits DEF BudgetStrong, OneRuntimeInFlight
<1>11. CASE c \in ModelCalls
  <2>1. held' = held \cup {c} /\ tools' = tools /\ flying' = flying \cup {c}
    BY <1>1, <1>6, <1>8, <1>11, ScopeKept DEF ToolCalls
  <2>2. Cardinality(held') = Cardinality(held) + 1 /\ Cardinality(flying') = Cardinality(flying) + 1
    BY <1>2, <1>6, <1>7, <2>1, OneMore
  <2>3. usage' = [usage EXCEPT !.model = usage.model + 1, !.inflight = usage.inflight + 1]
    BY <1>11, AdmissionCommits
  <2>4. usage.model < ModelLimit
    BY <1>11, AdmissionCommits
  <2>5. usage' \in Usage
    BY <1>1, <2>3, UsageAdmitted
  <2>6. /\ usage'.model = usage.model + 1 /\ usage'.tools = usage.tools
        /\ usage'.inflight = usage.inflight + 1 /\ usage'.unknown = usage.unknown
    BY <1>1, <2>3, UsageAdmitted
  <2>7. /\ usage'.model = Cardinality(held') /\ usage'.tools = Cardinality(tools')
        /\ usage'.inflight = Cardinality(flying') /\ usage'.unknown = Cardinality(lost')
    BY <1>3, <1>9, <2>1, <2>2, <2>6
  <2>8. Cardinality(held') <= ModelLimit' /\ Cardinality(tools') <= ToolLimit'
    <3>1. Cardinality(held') <= ModelLimit
      BY <1>3, <1>4, <1>5, <2>2, <2>4
    <3>2. Cardinality(tools') = Cardinality(tools)
      BY <2>1, Zenon
    <3> QED
      BY <1>4, <3>1, <3>2
  <2> QED
    BY <2>5, <2>7, <2>8, <1>10 DEF UsageExact, WithinLimits
<1>12. CASE c \notin ModelCalls
  <2>1. held' = held /\ tools' = tools \cup {c} /\ flying' = flying
    BY <1>1, <1>6, <1>8, <1>12, ScopeKept DEF ToolCalls
  <2>2. Cardinality(tools') = Cardinality(tools) + 1
    BY <1>2, <1>6, <2>1, OneMore
  <2>3. usage' = [usage EXCEPT !.tools = usage.tools + 1]
    BY <1>12, AdmissionCommits
  <2>4. usage.tools < ToolLimit
    BY <1>12, AdmissionCommits
  <2>5. usage' \in Usage
    BY <1>1, <2>3 DEF Usage
  <2>6. /\ usage'.model = usage.model /\ usage'.tools = usage.tools + 1
        /\ usage'.inflight = usage.inflight /\ usage'.unknown = usage.unknown
    BY <1>1, <2>3 DEF Usage
  <2>7. /\ usage'.model = Cardinality(held') /\ usage'.tools = Cardinality(tools')
        /\ usage'.inflight = Cardinality(flying') /\ usage'.unknown = Cardinality(lost')
    BY <1>3, <1>9, <2>1, <2>2, <2>6
  <2>8. Cardinality(held') <= ModelLimit' /\ Cardinality(tools') <= ToolLimit'
    <3>1. Cardinality(tools') <= ToolLimit
      BY <1>3, <1>4, <1>5, <2>2, <2>4
    <3>2. Cardinality(held') = Cardinality(held)
      BY <2>1, Zenon
    <3> QED
      BY <1>4, <3>1, <3>2
  <2> QED
    BY <2>5, <2>7, <2>8, <1>10 DEF UsageExact, WithinLimits
<1> QED
  BY <1>11, <1>12

\* A settlement moves its call from the calls in flight to the settled or the
\* unknown ones.
LEMMA SettlementKeepsStore ==
    ASSUME BudgetStrong, NEW c \in Calls, CommitSettlement(c), scope' = scope
    PROVE  usage' \in Usage /\ UsageExact' /\ WithinLimits' /\ OneRuntimeInFlight'
<1> DEFINE held == Reserved \cap ModelCalls
           tools == Reserved \cap ToolCalls
           flying == InFlight(row, settled)
           lost == {d \in Reserved \cap ModelCalls : settled[d] = Unknown}
<1>1. scope \in Scopes /\ usage \in Usage /\ settled \in [Calls -> Settlements]
  BY DEF BudgetStrong, TypeOK
<1>2. flying \in SUBSET Calls /\ lost \in SUBSET Calls
  BY <1>1, ScopeTypes DEF InFlight
<1>3. /\ usage.model = Cardinality(held) /\ usage.tools = Cardinality(tools)
      /\ usage.inflight = Cardinality(flying) /\ usage.unknown = Cardinality(lost)
  BY DEF BudgetStrong, UsageExact
<1>4. /\ c \in flying /\ c \in held /\ c \in ModelCalls /\ Reserved' = Reserved /\ flying' = flying \ {c}
      /\ settled' = [settled EXCEPT ![c] = outcome[c]]
      /\ outcome[c] \in Nat \cup {Unknown}
  BY SettlementCommits
<1>5. held' = held /\ tools' = tools
  BY <1>4, ScopeKept
<1>6. Cardinality(flying') = Cardinality(flying) - 1 /\ Cardinality(flying) > 0
  BY <1>2, <1>4, OneLess
<1>7. settled[c] = Open /\ Open # Unknown /\ Unknown \notin Nat
  BY <1>4, ValuesAssumption DEF ValuesAssumption, InFlight
<1>8. c \notin lost
  BY <1>7
<1>9. WithinLimits'
  BY <1>1, <1>5, ScopeKept DEF BudgetStrong, WithinLimits
<1>10. OneRuntimeInFlight'
  BY <1>1, <1>4, ScopeKept DEF BudgetStrong, OneRuntimeInFlight
<1>11. CASE outcome[c] = Unknown
  <2>1. lost' = lost \cup {c}
    BY <1>1, <1>4, <1>11, ScopeKept, ScopeTypes
  <2>2. Cardinality(lost') = Cardinality(lost) + 1
    BY <1>2, <1>8, <2>1, OneMore
  <2>3. usage' = [usage EXCEPT !.inflight = usage.inflight - 1, !.tokens = usage.tokens + 0,
                               !.unknown = usage.unknown + 1]
    BY <1>11 DEF CommitSettlement
  <2>4. usage' \in Usage
    BY <1>1, <1>3, <1>6, <2>3, UsageSettled
  <2>5. /\ usage'.model = usage.model /\ usage'.tools = usage.tools
        /\ usage'.inflight = usage.inflight - 1 /\ usage'.unknown = usage.unknown + 1
    BY <1>1, <2>3 DEF Usage
  <2> QED
    BY <1>3, <1>5, <1>6, <1>9, <1>10, <2>2, <2>4, <2>5 DEF UsageExact
<1>12. CASE outcome[c] # Unknown
  <2>1. lost' = lost
    BY <1>1, <1>4, <1>8, <1>12, ScopeKept, ScopeTypes
  <2>2. usage' = [usage EXCEPT !.inflight = usage.inflight - 1, !.tokens = usage.tokens + outcome[c],
                               !.unknown = usage.unknown + 0]
    BY <1>12 DEF CommitSettlement
  <2>3. usage' \in Usage
    BY <1>1, <1>3, <1>4, <1>6, <1>12, <2>2, UsageSettled
  <2>4. /\ usage'.model = usage.model /\ usage'.tools = usage.tools
        /\ usage'.inflight = usage.inflight - 1 /\ usage'.unknown = usage.unknown
    BY <1>1, <2>2 DEF Usage
  <2> QED
    BY <1>3, <1>5, <1>6, <1>9, <1>10, <2>1, <2>3, <2>4 DEF UsageExact
<1> QED
  BY <1>11, <1>12

\* No step makes the projection lie, passes a limit or lets a second runtime fly.
LEMMA NextStore ==
    ASSUME BudgetStrong, Next
    PROVE  usage' \in Usage /\ UsageExact' /\ WithinLimits' /\ OneRuntimeInFlight'
<1>1. CASE UNCHANGED store
  <2>1. usage' = usage /\ row' = row /\ settled' = settled /\ scope' = scope
    BY <1>1, StoreSteps DEF store
  <2>2. Reserved' = Reserved /\ InFlight(row, settled)' = InFlight(row, settled)
    BY <2>1, ScopeKept DEF Reserved, InFlight
  <2>3. {c \in Reserved \cap ModelCalls : settled[c] = Unknown}'
        = {c \in Reserved \cap ModelCalls : settled[c] = Unknown}
    BY <2>1, <2>2, ScopeKept
  <2>4. usage' \in Usage /\ UsageExact'
    BY <2>1, <2>2, <2>3, ScopeKept DEF BudgetStrong, TypeOK, UsageExact
  <2>5. WithinLimits' /\ OneRuntimeInFlight'
    BY <2>1, <2>2, ScopeKept DEF BudgetStrong, WithinLimits, OneRuntimeInFlight
  <2> QED
    BY <2>4, <2>5
<1>2. ASSUME NEW c \in Calls, CommitAdmission(c)
      PROVE  usage' \in Usage /\ UsageExact' /\ WithinLimits' /\ OneRuntimeInFlight'
  BY <1>2, StoreSteps, AdmissionKeepsStore
<1>3. ASSUME NEW c \in Calls, CommitSettlement(c)
      PROVE  usage' \in Usage /\ UsageExact' /\ WithinLimits' /\ OneRuntimeInFlight'
  BY <1>3, StoreSteps, SettlementKeepsStore
<1> QED
  BY <1>1, <1>2, <1>3, StoreSteps

-----------------------------------------------------------------------------
(***************************************************************************)
(* Types, snapshots and stages.                                            *)
(***************************************************************************)

\* Every step keeps the shape of what is stored and remembered.
LEMMA NextType ==
    ASSUME BudgetStrong, Next
    PROVE  TypeOK'
<1> USE CallsAssumption, ValuesAssumption
<1>1. /\ TypeOK
      /\ scope' = scope
      /\ usage' \in Usage
      /\ ModelCalls' = ModelCalls
      /\ ModelCalls \subseteq Calls
      /\ \A c \in Calls : RuntimeOf(c) \in Runtimes /\ KeyOf(c) \in Keys
      /\ Drawing \subseteq Runtimes
  BY StoreSteps, NextStore, ScopeKept, ScopeTypes DEF BudgetStrong, TypeOK
<1>2. Snapshot \in [usage : Usage, rev : Nat, row : [Keys -> Calls \cup {NoRow}], settled : [Calls -> Settlements]]
  BY <1>1 DEF TypeOK, Snapshot
<1>3. ASSUME NEW c \in Calls, AdmissionStep(c) PROVE TypeOK'
  <2> USE <1>1 DEF TypeOK, Labels, Goto, store
  <2>1. CASE BeginAdmission(c)
    BY <2>1 DEF BeginAdmission
  <2>2. CASE RefuseClosed(c)
    BY <2>2 DEF RefuseClosed
  <2>3. CASE ReadScope(c)
    BY <1>2, <2>3 DEF ReadScope
  <2>4. CASE Refuse(c)
    BY <2>4 DEF Refuse, Discard
  <2>5. CASE RefuseUnresolved(c)
    BY <2>5 DEF RefuseUnresolved, Discard
  <2>6. CASE RetryAdmission(c)
    <3>1. CASE Goto(c, "read") /\ UNCHANGED active
      BY <2>6, <3>1 DEF RetryAdmission
    <3>2. CASE Goto(c, "refused") /\ Discard(c)
      BY <2>6, <3>2 DEF RetryAdmission, Discard
    <3> QED
      BY <2>6, <3>1, <3>2 DEF RetryAdmission
  <2>7. CASE CommitAdmission(c)
    BY <2>7 DEF CommitAdmission
  <2>8. CASE FailAdmission(c)
    BY <2>8 DEF FailAdmission
  <2>9. CASE Readback(c)
    <3>1. CASE Goto(c, "admitted") /\ UNCHANGED active
      BY <2>9, <3>1 DEF Readback
    <3>2. CASE Goto(c, "failed") /\ Discard(c)
      BY <2>9, <3>2 DEF Readback, Discard
    <3> QED
      BY <2>9, <3>1, <3>2 DEF Readback
  <2> QED
    BY <1>3, <2>1, <2>2, <2>3, <2>4, <2>5, <2>6, <2>7, <2>8, <2>9 DEF AdmissionStep
<1>4. ASSUME NEW c \in Calls, SettlementStep(c) PROVE TypeOK'
  <2> USE <1>1 DEF TypeOK, Labels, Goto, store
  <2>1. CASE Dispatch(c)
    BY <2>1 DEF Dispatch
  <2>2. CASE AbandonAdmission(c)
    BY <2>2 DEF AbandonAdmission
  <2>3. CASE EndHandler(c)
    BY <2>3 DEF EndHandler, ValuesAssumption
  <2>4. CASE BeginSettlement(c)
    BY <2>4 DEF BeginSettlement
  <2>5. CASE CommitSettlement(c)
    BY <2>5 DEF CommitSettlement, Settlements
  <2>6. CASE FailSettlement(c)
    BY <2>6 DEF FailSettlement
  <2>7. CASE RetireRequest(c)
    BY <2>7 DEF RetireRequest, DiscardRequest
  <2> QED
    BY <1>4, <2>1, <2>2, <2>3, <2>4, <2>5, <2>6, <2>7 DEF SettlementStep
<1>5. ASSUME NEW c \in Calls, CancelAdmission(c) PROVE TypeOK'
  BY <1>1, <1>5 DEF TypeOK, CancelAdmission, store
<1>6. ASSUME NEW r \in Drawing, BeginClose(r) \/ EndClose(r) \/ Crash(r) PROVE TypeOK'
  BY <1>1, <1>6 DEF TypeOK, BeginClose, EndClose, Crash, store, Labels
<1>7. CASE DeadlinePasses
  BY <1>1, <1>7 DEF TypeOK, DeadlinePasses, store
<1> QED
  BY <1>3, <1>4, <1>5, <1>6, <1>7 DEF Next

\* A commit makes every snapshot old; a read takes the present record.
LEMMA NextSnapshots ==
    ASSUME BudgetStrong, Next
    PROVE  SnapshotsPast'
<1>1. TypeOK /\ SnapshotsPast
  BY DEF BudgetStrong
<1>2. CASE UNCHANGED <<store, seen>>
  BY <1>1, <1>2 DEF store, SnapshotsPast, Snapshot
<1>3. ASSUME NEW c \in Calls, ReadScope(c)
      PROVE  SnapshotsPast'
  <2>1. seen' = [seen EXCEPT ![c] = Snapshot] /\ UNCHANGED store /\ rev \in Nat
    BY <1>1, <1>3 DEF ReadScope, TypeOK
  <2>2. Snapshot' = Snapshot /\ Snapshot.rev = rev /\ rev' = rev
    BY <2>1 DEF store, Snapshot
  <2>3. seen'[c] = Snapshot /\ \A d \in Calls \ {c} : seen'[d] = seen[d]
    BY <1>1, <2>1 DEF TypeOK
  <2> QED
    BY <1>1, <2>1, <2>2, <2>3 DEF SnapshotsPast
<1>4. ASSUME rev' = rev + 1, seen' = seen
      PROVE  SnapshotsPast'
  BY <1>1, <1>4 DEF TypeOK, SnapshotsPast
<1>5. ASSUME NEW c \in Calls, CommitAdmission(c) \/ CommitSettlement(c)
      PROVE  SnapshotsPast'
  BY <1>4, <1>5 DEF CommitAdmission, CommitSettlement
<1>6. UNCHANGED <<store, seen>> \/ \E c \in Calls : ReadScope(c) \/ CommitAdmission(c) \/ CommitSettlement(c)
  BY DEF Next, AdmissionStep, SettlementStep, BeginAdmission, RefuseClosed, Refuse, RefuseUnresolved,
         RetryAdmission, FailAdmission, Readback, CancelAdmission, Dispatch, AbandonAdmission, EndHandler,
         BeginSettlement, FailSettlement, RetireRequest, BeginClose, EndClose, Crash, DeadlinePasses
<1> QED
  BY <1>2, <1>3, <1>5, <1>6

\* Calls reserve before they are admitted and settle once; effects start only
\* after the reservation.
LEMMA NextStaged ==
    ASSUME BudgetStrong, Next
    PROVE  Staged' /\ DispatchedOnce'
<1>1. /\ TypeOK /\ Staged /\ DispatchedOnce
      /\ scope' = scope
      /\ ModelCalls' = ModelCalls
      /\ pc \in [Calls -> Labels] /\ settled \in [Calls -> Settlements]
  BY StoreSteps, ScopeKept DEF BudgetStrong, TypeOK
<1>2. UNCHANGED store => Reserved' = Reserved /\ settled' = settled
  BY <1>1, ScopeKept DEF store, Reserved
<1>3. ASSUME NEW c \in Calls, CommitAdmission(c) PROVE Staged' /\ DispatchedOnce'
  <2>1. Reserved' = Reserved \cup {c} /\ settled[c] = Open /\ settled' = settled
    BY <1>1, <1>3, AdmissionCommits
  <2>2. pc[c] = "check" /\ dispatched' = dispatched /\ \E label \in {"admitted", "unsure"} : Goto(c, label)
    BY <1>3 DEF CommitAdmission
  <2> QED
    BY <1>1, <2>1, <2>2 DEF Staged, DispatchedOnce, Goto
<1>4. ASSUME NEW c \in Calls, CommitSettlement(c) PROVE Staged' /\ DispatchedOnce'
  <2>1. Reserved' = Reserved /\ c \in ModelCalls /\ c \in Reserved /\ settled' = [settled EXCEPT ![c] = outcome[c]]
    BY <1>1, <1>4, SettlementCommits
  <2>2. dispatched' = dispatched /\ Goto(c, "settled")
    BY <1>4 DEF CommitSettlement
  <2> QED
    BY <1>1, <2>1, <2>2 DEF Staged, DispatchedOnce, Goto
<1>5. ASSUME NEW c \in Calls, AdmissionStep(c), ~CommitAdmission(c) PROVE Staged' /\ DispatchedOnce'
  <2>1. UNCHANGED <<store, dispatched>>
    BY <1>5 DEF AdmissionStep, BeginAdmission, RefuseClosed, ReadScope, Refuse, RefuseUnresolved,
                RetryAdmission, FailAdmission, Readback
  <2>2. \/ pc[c] \in {"idle", "read", "check"} /\ \E label \in {"read", "check", "refused", "unresolved", "unsure"} :
                                                        Goto(c, label)
        \/ pc[c] = "unsure" /\ row[KeyOf(c)] = c /\ Goto(c, "admitted")
        \/ pc[c] = "unsure" /\ Goto(c, "failed")
    BY <1>5 DEF AdmissionStep, BeginAdmission, RefuseClosed, ReadScope, Refuse, RefuseUnresolved,
                RetryAdmission, FailAdmission, Readback
  <2>3. row[KeyOf(c)] = c => c \in Reserved
    BY DEF Reserved
  <2> QED
    BY <1>1, <1>2, <2>1, <2>2, <2>3 DEF Staged, DispatchedOnce, Goto
<1>6. ASSUME NEW c \in Calls, SettlementStep(c), ~CommitSettlement(c) PROVE Staged' /\ DispatchedOnce'
  <2>1. UNCHANGED store
    BY <1>6 DEF SettlementStep, Dispatch, AbandonAdmission, EndHandler, BeginSettlement, FailSettlement,
                RetireRequest
  <2>2. \/ /\ pc[c] \in {"admitted", "handler", "settle", "settling"} /\ c \in ModelCalls
           /\ \E label \in {"handler", "settle", "settling", "settled"} : Goto(c, label)
        \/ pc[c] \in {"admitted", "settled"} /\ Goto(c, "done")
    BY <1>1, <1>6 DEF Staged, SettlementStep, Dispatch, AbandonAdmission, EndHandler, BeginSettlement,
                      FailSettlement, RetireRequest
  <2>3. dispatched' \subseteq dispatched \cup {c}
    BY <1>6 DEF SettlementStep, Dispatch, AbandonAdmission, EndHandler, BeginSettlement, FailSettlement,
                RetireRequest
  <2>4. c \in Reserved
    BY <1>1, <2>2 DEF Staged
  <2> QED
    BY <1>1, <1>2, <2>1, <2>2, <2>3, <2>4 DEF Staged, DispatchedOnce, Goto
<1>7. ASSUME NEW c \in Calls, CancelAdmission(c) PROVE Staged' /\ DispatchedOnce'
  BY <1>1, <1>2, <1>7 DEF CancelAdmission, Staged, DispatchedOnce
<1>8. ASSUME NEW r \in Drawing, BeginClose(r) \/ EndClose(r) \/ Crash(r) PROVE Staged' /\ DispatchedOnce'
  BY <1>1, <1>2, <1>8 DEF BeginClose, EndClose, Crash, Staged, DispatchedOnce
<1>9. CASE DeadlinePasses
  BY <1>1, <1>2, <1>9 DEF DeadlinePasses, Staged, DispatchedOnce
<1> QED
  BY <1>3, <1>4, <1>5, <1>6, <1>7, <1>8, <1>9 DEF Next

\* A dead call has ended for good, and so has its process.
LEMMA NextDead ==
    ASSUME BudgetStrong, Next
    PROVE  DeadTogether'
<1>1. /\ TypeOK /\ DeadTogether
      /\ pc \in [Calls -> Labels]
      /\ \A c \in Calls : RuntimeOf(c)' = RuntimeOf(c)
  BY StoreSteps, ScopeKept DEF BudgetStrong, TypeOK
<1>2. ASSUME NEW c \in Calls, AdmissionStep(c) \/ SettlementStep(c) PROVE DeadTogether'
  <2>1. pc[c] \notin {"dead", "done"} /\ \E label \in Labels \ {"dead"} : Goto(c, label)
    BY <1>2 DEF AdmissionStep, BeginAdmission, RefuseClosed, ReadScope, Refuse, RefuseUnresolved,
                RetryAdmission, CommitAdmission, FailAdmission, Readback,
                SettlementStep, Dispatch, AbandonAdmission, EndHandler, BeginSettlement,
                CommitSettlement, FailSettlement, RetireRequest, Labels
  <2> QED
    BY <1>1, <2>1 DEF DeadTogether, Goto
<1>3. ASSUME NEW r \in Drawing, Crash(r) PROVE DeadTogether'
  BY <1>1, <1>3 DEF DeadTogether, Crash
<1>4. CASE pc' = pc
  BY <1>1, <1>4 DEF DeadTogether
<1> QED
  BY <1>2, <1>3, <1>4 DEF Next, CancelAdmission, BeginClose, EndClose, DeadlinePasses

-----------------------------------------------------------------------------
(***************************************************************************)
(* _active_requests, and the refusals that rest on it.                     *)
(***************************************************************************)

Pending == {"read", "check", "unsure", "admitted", "settling"}

\* A closing runtime without pending commits never has one again.
LEMMA DrainedForGood ==
    ASSUME BudgetStrong, Next, NEW r, r \in closing, PendingCommits(r) = {}
    PROVE  r \in closing' /\ PendingCommits(r)' = {}
<1>1. /\ pc \in [Calls -> Labels]
      /\ \A c \in Calls : RuntimeOf(c)' = RuntimeOf(c)
  BY StoreSteps, ScopeKept DEF BudgetStrong, TypeOK
<1>2. closing \subseteq closing'
  BY DEF Next, AdmissionStep, SettlementStep, BeginAdmission, RefuseClosed, ReadScope, Refuse, RefuseUnresolved,
         RetryAdmission, CommitAdmission, FailAdmission, Readback, CancelAdmission, Dispatch, AbandonAdmission,
         EndHandler, BeginSettlement, CommitSettlement, FailSettlement, RetireRequest, BeginClose, EndClose,
         Crash, DeadlinePasses
<1>3. \A d \in Calls : RuntimeOf(d) = r => pc[d] \notin Pending
  BY DEF PendingCommits, Pending
<1>4. ASSUME NEW c \in Calls, AdmissionStep(c) \/ SettlementStep(c)
      PROVE  \A d \in Calls : RuntimeOf(d) = r => pc'[d] \notin Pending
  <2>1. RuntimeOf(c) = r => \E label \in Labels \ Pending : Goto(c, label)
    BY <1>3, <1>4
       DEF Pending, Labels, AdmissionStep, BeginAdmission, RefuseClosed, ReadScope, Refuse, RefuseUnresolved,
           RetryAdmission, CommitAdmission, FailAdmission, Readback,
           SettlementStep, Dispatch, AbandonAdmission, EndHandler, BeginSettlement,
           CommitSettlement, FailSettlement, RetireRequest
  <2>2. \E label \in Labels : Goto(c, label)
    BY <1>4
       DEF Labels, AdmissionStep, BeginAdmission, RefuseClosed, ReadScope, Refuse, RefuseUnresolved,
           RetryAdmission, CommitAdmission, FailAdmission, Readback,
           SettlementStep, Dispatch, AbandonAdmission, EndHandler, BeginSettlement,
           CommitSettlement, FailSettlement, RetireRequest
  <2> QED
    BY <1>1, <1>3, <2>1, <2>2 DEF Goto
<1>5. ASSUME NEW q \in Drawing, Crash(q)
      PROVE  \A d \in Calls : RuntimeOf(d) = r => pc'[d] \notin Pending
  BY <1>3, <1>5 DEF Crash, Pending
<1>6. ASSUME pc' = pc
      PROVE  \A d \in Calls : RuntimeOf(d) = r => pc'[d] \notin Pending
  BY <1>3, <1>6
<1>7. \A d \in Calls : RuntimeOf(d) = r => pc'[d] \notin Pending
  BY <1>3, <1>4, <1>5, <1>6 DEF Next, CancelAdmission, BeginClose, EndClose, DeadlinePasses
<1> QED
  BY <1>1, <1>2, <1>7 DEF PendingCommits, Pending

\* The row of a request is written once.
LEMMA RowsOnce ==
    ASSUME BudgetStrong, Next, NEW k \in Keys, row[k] # NoRow
    PROVE  row'[k] = row[k]
<1>1. row \in [Keys -> Calls \cup {NoRow}] /\ scope \in Scopes
  BY DEF BudgetStrong, TypeOK
<1>2. CASE UNCHANGED store
  BY <1>2 DEF store
<1>3. ASSUME NEW c \in Calls, CommitAdmission(c) PROVE row'[k] = row[k]
  BY <1>1, <1>3, StoreSteps, AdmissionCommits, ScopeTypes DEF CommitAdmission
<1>4. ASSUME NEW c \in Calls, CommitSettlement(c) PROVE row'[k] = row[k]
  BY <1>4 DEF CommitSettlement
<1> QED
  BY <1>2, <1>3, <1>4, StoreSteps

\* A call on its way leaves _active_requests only for the holder of its request
\* or when close() has drained its runtime.
LEMMA NextLive ==
    ASSUME BudgetStrong, Next
    PROVE  LiveCalls'
<1> DEFINE Elsewhere(d) == row[KeyOf(d)] \notin {NoRow, d}
           Drained(d) == RuntimeOf(d) \in closing /\ PendingCommits(RuntimeOf(d)) = {}
<1>1. /\ LiveCalls /\ Staged
      /\ scope' = scope /\ ModelCalls' = ModelCalls /\ ModelCalls \subseteq Calls
      /\ \A c : RuntimeOf(c)' = RuntimeOf(c) /\ KeyOf(c)' = KeyOf(c)
      /\ \A c \in Calls : RuntimeOf(c) \in Runtimes /\ KeyOf(c) \in Keys
      /\ pc \in [Calls -> Labels]
      /\ active \in [Runtimes -> SUBSET ModelCalls]
  BY StoreSteps, ScopeKept, ScopeTypes DEF BudgetStrong, TypeOK
<1>2. SUFFICES ASSUME NEW d \in ModelCalls, pc'[d] \in LiveStages
               PROVE  \/ d \in active'[RuntimeOf(d)]
                      \/ row'[KeyOf(d)] \notin {NoRow, d}
                      \/ RuntimeOf(d) \in closing' /\ PendingCommits(RuntimeOf(d))' = {}
  BY <1>1 DEF LiveCalls
<1>3. d \in Calls /\ RuntimeOf(d) \in Runtimes /\ KeyOf(d) \in Keys
  BY <1>1
<1>4. Elsewhere(d) => row'[KeyOf(d)] \notin {NoRow, d}
  BY <1>3, RowsOnce
<1>5. Drained(d) => RuntimeOf(d) \in closing' /\ PendingCommits(RuntimeOf(d))' = {}
  <2>1. \A r : r \in closing /\ PendingCommits(r) = {} => r \in closing' /\ PendingCommits(r)' = {}
    BY DrainedForGood
  <2> QED
    BY <1>1, <2>1 DEF PendingCommits
<1>6. pc[d] \in LiveStages => d \in active[RuntimeOf(d)] \/ Elsewhere(d) \/ Drained(d)
  BY <1>1 DEF LiveCalls
<1> HIDE DEF Elsewhere, Drained
<1>7. ASSUME NEW c \in Calls, BeginAdmission(c)
      PROVE  d \in active'[RuntimeOf(d)] \/ Elsewhere(d) \/ Drained(d)
  <2>1. CASE c = d
    BY <1>1, <1>3, <1>7, <2>1 DEF BeginAdmission
  <2>2. CASE c # d
    <3>1. pc'[d] = pc[d]
      BY <1>1, <1>3, <1>7, <2>2 DEF BeginAdmission, Goto
    <3>2. d \in active[RuntimeOf(d)] => d \in active'[RuntimeOf(d)]
      BY <1>1, <1>3, <1>7 DEF BeginAdmission
    <3> QED
      BY <1>2, <1>6, <3>1, <3>2
  <2> QED
    BY <2>1, <2>2
<1>8. ASSUME NEW c \in Calls, Discard(c), Goto(c, "refused") \/ Goto(c, "failed") \/ Goto(c, "unresolved")
      PROVE  d \in active'[RuntimeOf(d)] \/ Elsewhere(d) \/ Drained(d)
  <2>1. d # c
    BY <1>1, <1>2, <1>3, <1>8 DEF Goto, LiveStages
  <2>2. pc'[d] = pc[d]
    BY <1>1, <1>3, <1>8, <2>1 DEF Goto
  <2>3. d \in active[RuntimeOf(d)] => d \in active'[RuntimeOf(d)]
    BY <1>1, <1>3, <1>8, <2>1 DEF Discard
  <2> QED
    BY <1>2, <1>6, <2>2, <2>3
<1>9. ASSUME NEW c \in Calls, RetireRequest(c)
      PROVE  d \in active'[RuntimeOf(d)] \/ Elsewhere(d) \/ Drained(d)
  <2>1. d # c
    BY <1>1, <1>2, <1>3, <1>9 DEF RetireRequest, Goto, LiveStages
  <2>2. pc'[d] = pc[d]
    BY <1>1, <1>3, <1>9, <2>1 DEF RetireRequest, Goto
  <2>3. row[KeyOf(c)] = c
    BY <1>1, <1>9 DEF RetireRequest, Staged, Reserved
  <2>4. CASE KeyOf(d) = KeyOf(c)
    BY <2>1, <2>3, <2>4, ValuesAssumption DEF Elsewhere, ValuesAssumption
  <2>5. CASE KeyOf(d) # KeyOf(c)
    <3>1. d \in active[RuntimeOf(d)] => d \in active'[RuntimeOf(d)]
      BY <1>1, <1>3, <1>9, <2>5 DEF RetireRequest, DiscardRequest
    <3> QED
      BY <1>2, <1>6, <2>2, <3>1
  <2> QED
    BY <2>4, <2>5
<1>10. ASSUME NEW r \in Drawing, EndClose(r)
       PROVE  d \in active'[RuntimeOf(d)] \/ Elsewhere(d) \/ Drained(d)
  <2>1. CASE RuntimeOf(d) = r
    BY <1>10, <2>1 DEF EndClose, Drained
  <2>2. CASE RuntimeOf(d) # r
    BY <1>1, <1>2, <1>3, <1>6, <1>10, <2>2 DEF EndClose
  <2> QED
    BY <2>1, <2>2
<1>11. ASSUME NEW r \in Drawing, Crash(r)
       PROVE  d \in active'[RuntimeOf(d)] \/ Elsewhere(d) \/ Drained(d)
  <2>1. RuntimeOf(d) # r /\ pc'[d] = pc[d]
    BY <1>2, <1>3, <1>11 DEF Crash, LiveStages
  <2>2. active'[RuntimeOf(d)] = active[RuntimeOf(d)]
    BY <1>1, <1>3, <1>11, <2>1 DEF Crash
  <2> QED
    BY <1>2, <1>6, <2>1, <2>2
<1>12. ASSUME NEW c \in Calls, active' = active, pc[c] \in LiveStages, \E label \in Labels : Goto(c, label)
       PROVE  d \in active'[RuntimeOf(d)] \/ Elsewhere(d) \/ Drained(d)
  <2>1. pc[d] \in LiveStages
    BY <1>1, <1>2, <1>3, <1>12 DEF Goto
  <2> QED
    BY <1>6, <1>12, <2>1
<1>13. ASSUME active' = active, pc' = pc
       PROVE  d \in active'[RuntimeOf(d)] \/ Elsewhere(d) \/ Drained(d)
  BY <1>2, <1>6, <1>13
<1>14. ASSUME NEW c \in Calls, RefuseClosed(c)
       PROVE  d \in active'[RuntimeOf(d)] \/ Elsewhere(d) \/ Drained(d)
  BY <1>1, <1>2, <1>3, <1>6, <1>14 DEF RefuseClosed, Goto, LiveStages
<1>15. ASSUME NEW c \in Calls, AdmissionStep(c)
       PROVE  d \in active'[RuntimeOf(d)] \/ Elsewhere(d) \/ Drained(d)
  <2>1. CASE BeginAdmission(c) \/ RefuseClosed(c)
    BY <1>7, <1>14, <2>1
  <2>2. CASE ReadScope(c) \/ CommitAdmission(c) \/ FailAdmission(c)
    BY <1>12, <2>2 DEF ReadScope, CommitAdmission, FailAdmission, LiveStages, Labels
  <2>3. CASE Refuse(c) \/ RefuseUnresolved(c)
    BY <1>8, <2>3 DEF Refuse, RefuseUnresolved
  <2>4. CASE RetryAdmission(c) \/ Readback(c)
    BY <1>8, <1>12, <2>4 DEF RetryAdmission, Readback, LiveStages, Labels
  <2> QED
    BY <1>15, <2>1, <2>2, <2>3, <2>4 DEF AdmissionStep
<1>16. ASSUME NEW c \in Calls, SettlementStep(c)
       PROVE  d \in active'[RuntimeOf(d)] \/ Elsewhere(d) \/ Drained(d)
  <2>1. CASE RetireRequest(c)
    BY <1>9, <2>1
  <2>2. CASE ~RetireRequest(c)
    BY <1>12, <1>16, <2>2 DEF SettlementStep, Dispatch, AbandonAdmission, EndHandler, BeginSettlement,
                              CommitSettlement, FailSettlement, LiveStages, Labels
  <2> QED
    BY <2>1, <2>2
<1>17. d \in active'[RuntimeOf(d)] \/ Elsewhere(d) \/ Drained(d)
  BY <1>10, <1>11, <1>13, <1>15, <1>16 DEF Next, CancelAdmission, BeginClose, DeadlinePasses
<1> QED
  BY <1>4, <1>5, <1>17

\* A reservation outside _active_requests, of a runtime that still admits, is one
\* that its call has given up.
LEMMA OrphansAbandoned ==
    ASSUME BudgetStrong, NEW c \in Calls, pc[c] = "check", rev = seen[c].rev, NEW d \in Orphaned(c)
    PROVE  d \in InFlight(row, settled) /\ RuntimeOf(d) = RuntimeOf(c) /\ pc[d] \in {"failed", "done"}
<1>1. /\ TypeOK /\ Staged /\ LiveCalls /\ DeadTogether
      /\ scope \in Scopes
      /\ pc \in [Calls -> Labels]
  BY DEF BudgetStrong, TypeOK
<1>2. seen[c].row = row /\ seen[c].settled = settled
  BY DEF BudgetStrong, SnapshotsPast, Snapshot
<1>3. d \in InFlight(row, settled) /\ RuntimeOf(d) = RuntimeOf(c) /\ d \notin active[RuntimeOf(d)]
  BY <1>2 DEF Orphaned
<1>4. d \in ModelCalls /\ d \in Calls /\ row[KeyOf(d)] = d /\ d \in Reserved
  BY <1>1, <1>3, ScopeTypes DEF InFlight, Reserved
<1>5. c \in PendingCommits(RuntimeOf(d))
  BY <1>3 DEF PendingCommits
<1>6. pc[d] \notin LiveStages
  BY <1>1, <1>3, <1>4, <1>5 DEF LiveCalls
<1>7. pc[d] # "dead"
  BY <1>1, <1>3, <1>4 DEF DeadTogether
<1>8. pc[d] \notin {"idle", "refused", "unresolved"}
  BY <1>1, <1>4 DEF Staged
<1>9. pc[d] \in Labels
  BY <1>1, <1>4
<1> QED
  BY <1>3, <1>6, <1>7, <1>8, <1>9 DEF LiveStages, Labels

\* The reservation that refused a call stays unresolved.
LEMMA NextUnresolved ==
    ASSUME BudgetStrong, Next
    PROVE  GenuinelyUnresolved'
<1> DEFINE Ended == {"failed", "done", "unresolved"}
<1>1. /\ GenuinelyUnresolved
      /\ scope \in Scopes
      /\ \A c : RuntimeOf(c)' = RuntimeOf(c)
      /\ pc \in [Calls -> Labels]
      /\ ModelCalls \subseteq Calls
  BY StoreSteps, ScopeKept, ScopeTypes DEF BudgetStrong, TypeOK
<1>2. SUFFICES ASSUME NEW c \in Calls, pc'[c] = "unresolved"
               PROVE  \E d \in InFlight(row, settled)' : RuntimeOf(d) = RuntimeOf(c) /\ pc'[d] \in Ended
  BY <1>1 DEF GenuinelyUnresolved
<1>3. ASSUME NEW e \in Calls, AdmissionStep(e) \/ SettlementStep(e)
      PROVE  /\ pc[e] \notin Ended
             /\ \E label \in Labels : Goto(e, label)
             /\ pc'[e] = "unresolved" => RefuseUnresolved(e)
  BY <1>1, <1>3
     DEF Labels, Goto, AdmissionStep, BeginAdmission, RefuseClosed, ReadScope, Refuse, RefuseUnresolved,
         RetryAdmission, CommitAdmission, FailAdmission, Readback,
         SettlementStep, Dispatch, AbandonAdmission, EndHandler, BeginSettlement,
         CommitSettlement, FailSettlement, RetireRequest
<1>4. ASSUME NEW d \in InFlight(row, settled), pc[d] \in Ended
      PROVE  d \in InFlight(row, settled)'
  <2>1. CASE UNCHANGED store
    BY <2>1, StoreSteps, ScopeKept DEF store, InFlight
  <2>2. ASSUME NEW e \in Calls, CommitAdmission(e) PROVE d \in InFlight(row, settled)'
    BY <2>2, StoreSteps, AdmissionCommits
  <2>3. ASSUME NEW e \in Calls, CommitSettlement(e) PROVE d \in InFlight(row, settled)'
    <3>1. d # e
      BY <1>4, <2>3 DEF CommitSettlement
    <3> QED
      BY <2>3, <3>1, StoreSteps, SettlementCommits
  <2> QED
    BY <2>1, <2>2, <2>3, StoreSteps
<1>5. CASE pc[c] = "unresolved"
  <2>1. PICK d \in InFlight(row, settled) : RuntimeOf(d) = RuntimeOf(c) /\ pc[d] \in Ended
    BY <1>1, <1>5 DEF GenuinelyUnresolved
  <2>2. d \in Calls /\ d \in InFlight(row, settled)'
    BY <1>1, <1>4, <2>1 DEF InFlight
  <2>3. pc'[d] \in Ended
    <3>1. ASSUME NEW e \in Calls, AdmissionStep(e) \/ SettlementStep(e) PROVE pc'[d] = pc[d]
      BY <1>1, <1>3, <2>1, <2>2, <3>1 DEF Goto
    <3>2. ASSUME NEW r \in Drawing, Crash(r) PROVE pc'[d] = pc[d]
      <4>1. RuntimeOf(c) # r
        BY <1>2, <1>5, <3>2 DEF Crash
      <4> QED
        BY <2>1, <2>2, <3>2, <4>1 DEF Crash
    <3> QED
      BY <2>1, <3>1, <3>2 DEF Next, CancelAdmission, BeginClose, EndClose, DeadlinePasses
  <2> QED
    BY <2>1, <2>2, <2>3
<1>6. CASE pc[c] # "unresolved"
  <2>1. RefuseUnresolved(c)
    <3>1. ASSUME NEW e \in Calls, AdmissionStep(e) \/ SettlementStep(e) PROVE RefuseUnresolved(c)
      BY <1>1, <1>2, <1>3, <1>6, <3>1 DEF Goto
    <3>2. ASSUME NEW r \in Drawing, Crash(r) PROVE FALSE
      BY <1>1, <1>2, <1>6, <3>2 DEF Crash
    <3> QED
      BY <1>2, <1>6, <3>1, <3>2 DEF Next, CancelAdmission, BeginClose, EndClose, DeadlinePasses
  <2>2. PICK d \in Orphaned(c) : TRUE
    BY <2>1 DEF RefuseUnresolved, Unresolved
  <2>3. d \in InFlight(row, settled) /\ RuntimeOf(d) = RuntimeOf(c) /\ pc[d] \in {"failed", "done"}
    BY <2>1, OrphansAbandoned DEF RefuseUnresolved
  <2>4. d # c /\ d \in Calls
    BY <1>1, <2>1, <2>3 DEF RefuseUnresolved, InFlight
  <2>5. pc'[d] = pc[d]
    BY <1>1, <2>1, <2>4 DEF RefuseUnresolved, Goto
  <2> QED
    BY <1>4, <2>3, <2>5
<1> QED
  BY <1>5, <1>6

-----------------------------------------------------------------------------
(***************************************************************************)
(* The theorems.                                                           *)
(***************************************************************************)

\* Every step of a call, of close(), of a crash and of the clock keeps the
\* invariant.
LEMMA NextStrong == BudgetStrong /\ [Next]_vars => BudgetStrong'
<1> SUFFICES ASSUME BudgetStrong, [Next]_vars PROVE BudgetStrong'
  OBVIOUS
<1>1. CASE Next
  BY <1>1, NextType, NextStore, NextSnapshots, NextStaged, NextDead, NextLive, NextUnresolved DEF BudgetStrong
<1>2. CASE UNCHANGED vars
  <2>1. UNCHANGED <<usage, rev, row, settled, active, closing, pc, seen, cancelled, outcome, expired, dispatched, scope>>
    BY <1>2 DEF vars
  <2>2. /\ Reserved' = Reserved
        /\ ModelCalls' = ModelCalls /\ ToolCalls' = ToolCalls
        /\ InFlight(row, settled)' = InFlight(row, settled)
        /\ Snapshot' = Snapshot
        /\ \A r : PendingCommits(r)' = PendingCommits(r)
    BY <2>1 DEF Reserved, ModelCalls, ToolCalls, InFlight, Snapshot, PendingCommits, KeyOf, RuntimeOf
  <2>3. (TypeOK /\ GenuinelyUnresolved /\ DispatchedOnce)'
    BY <2>1, <2>2 DEF BudgetStrong, TypeOK, GenuinelyUnresolved, DispatchedOnce, RuntimeOf
  <2>4. (UsageExact /\ WithinLimits /\ OneRuntimeInFlight)'
    BY <2>1, <2>2 DEF BudgetStrong, UsageExact, WithinLimits, OneRuntimeInFlight, ModelLimit, ToolLimit,
                      TokenLimit, RuntimeOf
  <2>5. (SnapshotsPast /\ Staged /\ LiveCalls /\ DeadTogether)'
    BY <2>1, <2>2 DEF BudgetStrong, SnapshotsPast, Staged, LiveCalls, DeadTogether, KeyOf, RuntimeOf
  <2> QED
    BY <2>3, <2>4, <2>5 DEF BudgetStrong
<1> QED
  BY <1>1, <1>2

\* The strong invariant holds in every reachable state of any budget scope.
THEOREM StrongInvariance == Spec => []BudgetStrong
BY InitStrong, NextStrong, PTL DEF Spec

\* The projection that the limits are checked against is exact, the limits hold,
\* one runtime at a time is in flight under a token limit, and a refusal for an
\* unresolved reservation is right, for every interleaving of admissions, lost
\* answers, cancellations, closes and crashes.
THEOREM BudgetSound == Spec => []BudgetInv
<1>1. BudgetStrong => BudgetInv
  BY DEF BudgetStrong, BudgetInv
<1> QED
  BY <1>1, StrongInvariance, PTL

\* No effect is dispatched without the stored reservation of its own admission,
\* so no request id and no tool call id is dispatched twice.
THEOREM DispatchesReserved == Spec => []DispatchedOnce
<1>1. BudgetStrong => DispatchedOnce
  BY DEF BudgetStrong
<1> QED
  BY <1>1, StrongInvariance, PTL

=============================================================================
