---------------------------- MODULE StorageProofs ----------------------------
(***************************************************************************)
(* Proofs about the locks of storage/_lock.py for any number of tasks and  *)
(* processes: FilesystemLeaseCoordinator gives fenced leases, on which its *)
(* files and the memory of the processes agree, KeyedAsyncLock is a mutual *)
(* exclusion lock whose table is exact, and FilesystemMutationLock admits  *)
(* one mutator with both locks.                                            *)
(* And about the write buffer of storage/_write_cache.py, for any sizes of *)
(* queue and batch and any number of failures: entries are delivered once  *)
(* and in order, and a flush is a receipt.                                 *)
(***************************************************************************)
EXTENDS MCStorage, FiniteSetTheorems, SequenceTheorems, TLAPS

-----------------------------------------------------------------------------
(***************************************************************************)
(* FileLease.  A lost renewal frees the keyed lock of the process by the   *)
(* fence alone; that it does not take it from a task in the middle of an   *)
(* operation rests on where a lease can be: an _active lease belongs to    *)
(* the very task that has the keyed lock, and tasks hold leases only in    *)
(* the stages after their attempt.                                         *)
(***************************************************************************)

\* The lease file carries the newest fence; what is not a lease has no deadline.
FileSound ==
    /\ file.kind = "lease" => file.fence = fence /\ file.fence > 0
    /\ file.kind # "lease" => file.ttl = 0

\* The leases of tasks: issued, and held in these stages.
LeasesPlaced ==
    \A t \in Tasks :
        /\ lease[t] <= fence
        /\ lease[t] # 0 => stage[t] \in {"attempted", "holding", "releasing", "released"}
        /\ stage[t] \in {"holding", "releasing"} => lease[t] # 0
        /\ renewal[t].phase # "none" => renewal[t].fence > 0

\* The keyed lock of a process is held by one of its tasks, and its _active lease
\* is the lease of that task.
ActiveByHolder ==
    \A k \in Processes :
        /\ holder[k] # NoTask => ProcessOf[holder[k]] = k
        /\ active[k] # 0 => /\ holder[k] # NoTask
                            /\ stage[holder[k]] = "holding"
                            /\ lease[holder[k]] = active[k]

LeaseStrong ==
    /\ TypeOK
    /\ FileSound
    /\ LeasesPlaced
    /\ ActiveByHolder
    /\ ProcessLockAccounted
    /\ FencesDistinct

\* The first state is in order.
LEMMA InitStrong == Init => LeaseStrong
BY ProcessesAssumption, BoundsAssumption
   DEF ProcessesAssumption, BoundsAssumption, Init, NoFile, NoRenewal, LeaseStrong, TypeOK, FileSound,
       LeasesPlaced, ActiveByHolder, ProcessLockAccounted, FencesDistinct, Stages, Busy

\* Files are written only by threads: an attempt, a renewal, a release, a crash.
LEMMA NextFiles ==
    ASSUME TypeOK, FileSound, [Next]_vars
    PROVE  /\ file' \in [kind : {"none", "lease", "torn"}, fence : Nat, ttl : 0..LeaseSeconds]
           /\ fence' \in Nat
           /\ fence' >= fence
           /\ FileSound'
<1> USE BoundsAssumption DEF BoundsAssumption, TypeOK, FileSound, NoFile, Torn, LeaseFile
<1>1. ASSUME NEW t \in Tasks, AttemptStep(t) \/ Unlink(t) \/ Renew(t)
      PROVE  /\ file' \in [kind : {"none", "lease", "torn"}, fence : Nat, ttl : 0..LeaseSeconds]
             /\ fence' \in Nat
             /\ fence' >= fence
             /\ FileSound'
  BY <1>1 DEF AttemptStep, AttemptNothing, AttemptGranted, AttemptTooLate, AttemptFails, Unlink, Renew, OnDisk
<1>2. ASSUME NEW k \in Processes, Crash(k)
      PROVE  /\ file' \in [kind : {"none", "lease", "torn"}, fence : Nat, ttl : 0..LeaseSeconds]
             /\ fence' \in Nat
             /\ fence' >= fence
             /\ FileSound'
  BY <1>2 DEF Crash
<1>3. CASE Tick
  BY <1>3 DEF Tick
<1>4. CASE UNCHANGED <<file, fence>>
  BY <1>4
<1> QED BY <1>1, <1>2, <1>3, <1>4
       DEF Next, CallerStep, CleanupStep, RenewalStep, Wait, GiveUpWaiting, StartAttempt, Adopt,
           PollAgain, GiveUp, Abandon, FinishAbandoned, DropAbandoned, BeginRenew, EndLostRenewal,
           ReleaseLost, BeginRelease, UnlinkFails, AbandonRelease, EndRelease, vars

MemoryType ==
    /\ holder \in [Processes -> Tasks \cup {NoTask}]
    /\ active \in [Processes -> Nat]
    /\ stage \in [Tasks -> Stages]
    /\ lease \in [Tasks -> Nat]
    /\ detached \subseteq Tasks
    /\ renewal \in [Tasks -> [phase : {"none", "renewing", "lost"}, fence : Nat]]

Memory ==
    /\ MemoryType
    /\ LeasesPlaced
    /\ ActiveByHolder
    /\ ProcessLockAccounted
    /\ FencesDistinct

\* Every step of a task keeps the memory of the processes in order.
LEMMA TaskMemory ==
    ASSUME LeaseStrong, fence' \in Nat, fence' >= fence, NEW t \in Tasks,
           CallerStep(t) \/ AttemptStep(t) \/ CleanupStep(t) \/ RenewalStep(t)
    PROVE  Memory'
<1> USE ProcessesAssumption DEF ProcessesAssumption, LeaseStrong, Memory, MemoryType, TypeOK,
        LeasesPlaced, ActiveByHolder, ProcessLockAccounted, FencesDistinct, Busy, Stages
<1>1. CASE Wait(t)
  BY <1>1 DEF Wait, Goto
<1>2. CASE GiveUpWaiting(t)
  BY <1>2 DEF GiveUpWaiting, Goto
<1>3. CASE StartAttempt(t)
  BY <1>3 DEF StartAttempt, Goto
<1>4. CASE AttemptNothing(t)
  BY <1>4 DEF AttemptNothing, Goto
<1>5. CASE AttemptGranted(t)
  BY <1>5 DEF AttemptGranted, Goto
<1>6. CASE AttemptTooLate(t)
  BY <1>6 DEF AttemptTooLate, Goto
<1>7. CASE AttemptFails(t)
  BY <1>7 DEF AttemptFails, Goto
<1>8. CASE Adopt(t)
  BY <1>8 DEF Adopt, Goto
<1>9. CASE PollAgain(t)
  BY <1>9 DEF PollAgain, Goto
<1>10. CASE GiveUp(t)
  BY <1>10 DEF GiveUp, Goto, ReleaseOwned
<1>11. CASE Abandon(t)
  BY <1>11 DEF Abandon, Goto
<1>12. CASE FinishAbandoned(t)
  BY <1>12 DEF FinishAbandoned, Goto
<1>13. CASE DropAbandoned(t)
  BY <1>13 DEF DropAbandoned, Goto, ReleaseOwned
<1>14. CASE BeginRenew(t)
  BY <1>14 DEF BeginRenew, Goto
<1>15. CASE Renew(t)
  <2>1. PICK r \in {NoRenewal, [renewal[t] EXCEPT !.phase = "lost"]} :
               renewal' = [renewal EXCEPT ![t] = r]
    BY <1>15 DEF Renew
  <2>2. r \in [phase : {"none", "renewing", "lost"}, fence : Nat] /\ (r.phase # "none" => r.fence > 0)
    BY <1>15 DEF Renew, NoRenewal
  <2>3. UNCHANGED <<holder, active, stage, lease, detached>>
    BY <1>15 DEF Renew
  <2> QED BY <2>1, <2>2, <2>3
<1>16. CASE EndLostRenewal(t)
  <2> DEFINE k == ProcessOf[t]
  <2>1. /\ UNCHANGED <<stage, lease, detached>>
        /\ renewal' = [renewal EXCEPT ![t] = NoRenewal]
        /\ NoRenewal \in [phase : {"none", "renewing", "lost"}, fence : Nat] /\ NoRenewal.phase = "none"
        /\ k \in Processes
    BY <1>16 DEF EndLostRenewal, NoRenewal
  <2>2. renewal' \in [Tasks -> [phase : {"none", "renewing", "lost"}, fence : Nat]] /\ LeasesPlaced'
    BY <2>1
  <2>3. CASE active[k] = renewal[t].fence
    <3>1. /\ active' = [active EXCEPT ![k] = 0]
          /\ holder' = [holder EXCEPT ![k] = NoTask]
          /\ active[k] # 0
      BY <1>16, <2>3 DEF EndLostRenewal
    <3>2. \A u \in Tasks : ProcessOf[u] = k => stage[u] \notin Busy
      BY <2>1, <3>1
    <3>3. ProcessLockAccounted'
      BY <2>1, <3>1, <3>2
    <3>4. MemoryType' /\ ActiveByHolder' /\ FencesDistinct'
      BY <2>1, <2>2, <3>1
    <3> QED BY <2>2, <3>3, <3>4
  <2>4. CASE active[k] # renewal[t].fence
    <3>1. UNCHANGED <<active, holder>>
      BY <1>16, <2>4 DEF EndLostRenewal
    <3> QED BY <2>1, <2>2, <3>1
  <2> QED BY <2>3, <2>4
<1>17. CASE ReleaseLost(t)
  BY <1>17 DEF ReleaseLost, Goto
<1>18. CASE BeginRelease(t)
  BY <1>18 DEF BeginRelease, Goto
<1>19. CASE Unlink(t)
  BY <1>19 DEF Unlink, Goto
<1>20. CASE UnlinkFails(t)
  BY <1>20 DEF UnlinkFails, Goto
<1>21. CASE AbandonRelease(t)
  BY <1>21 DEF AbandonRelease, Goto
<1>22. CASE EndRelease(t)
  BY <1>22 DEF EndRelease, Goto, ReleaseOwned
<1> QED BY <1>1, <1>2, <1>3, <1>4, <1>5, <1>6, <1>7, <1>8, <1>9, <1>10, <1>11, <1>12, <1>13, <1>14, <1>15, <1>16, <1>17, <1>18, <1>19, <1>20, <1>21, <1>22
       DEF CallerStep, AttemptStep, CleanupStep, RenewalStep

\* A crash empties the memory of one process and leaves the others alone.
LEMMA CrashMemory ==
    ASSUME LeaseStrong, fence' \in Nat, fence' >= fence, NEW k \in Processes, Crash(k)
    PROVE  Memory'
<1> USE ProcessesAssumption DEF ProcessesAssumption, LeaseStrong, Memory, MemoryType, TypeOK,
        LeasesPlaced, ActiveByHolder, ProcessLockAccounted, FencesDistinct, Busy, Stages
<1>1. /\ holder' = [holder EXCEPT ![k] = NoTask]
      /\ active' = [active EXCEPT ![k] = 0]
      /\ stage' = [t \in Tasks |-> IF ProcessOf[t] = k THEN "idle" ELSE stage[t]]
      /\ lease' = [t \in Tasks |-> IF ProcessOf[t] = k THEN 0 ELSE lease[t]]
      /\ renewal' = [t \in Tasks |-> IF ProcessOf[t] = k THEN NoRenewal ELSE renewal[t]]
      /\ detached' = {t \in detached : ProcessOf[t] # k}
  BY DEF Crash
<1>2. MemoryType'
  BY <1>1 DEF NoRenewal
<1>3. LeasesPlaced' /\ FencesDistinct'
  BY <1>1 DEF NoRenewal
<1>4. ActiveByHolder'
  BY <1>1
<1>5. ProcessLockAccounted'
  BY <1>1
<1> QED BY <1>2, <1>3, <1>4, <1>5

\* Every step keeps the invariant.
LEMMA NextStrong == ASSUME LeaseStrong, [Next]_vars PROVE LeaseStrong'
<1>1. /\ file' \in [kind : {"none", "lease", "torn"}, fence : Nat, ttl : 0..LeaseSeconds]
      /\ fence' \in Nat
      /\ fence' >= fence
      /\ FileSound'
  BY NextFiles DEF LeaseStrong
<1>2. Memory'
  <2>1. ASSUME NEW t \in Tasks, CallerStep(t) \/ AttemptStep(t) \/ CleanupStep(t) \/ RenewalStep(t)
        PROVE  Memory'
    BY <1>1, <2>1, TaskMemory
  <2>2. ASSUME NEW k \in Processes, Crash(k) PROVE Memory'
    BY <1>1, <2>2, CrashMemory
  <2>3. CASE Tick \/ UNCHANGED vars
    BY <2>3 DEF Tick, vars, Memory, MemoryType, LeaseStrong, TypeOK, LeasesPlaced, ActiveByHolder,
                ProcessLockAccounted, FencesDistinct
  <2> QED BY <2>1, <2>2, <2>3 DEF Next
<1> QED BY <1>1, <1>2 DEF LeaseStrong, TypeOK, Memory, MemoryType

\* The invariant holds in every reachable state.
THEOREM StrongInvariance == Spec => []LeaseStrong
<1>1. Init => LeaseStrong
  BY InitStrong
<1>2. LeaseStrong /\ [Next]_vars => LeaseStrong'
  BY NextStrong
<1> QED BY <1>1, <1>2, PTL DEF Spec

\* The files and the memory of the processes agree on who holds what: the lease
\* on disk is the newest one, the keyed lock of a process is neither leaked nor
\* given away twice, and no two tasks have the same lease.
THEOREM LeasesSound == Spec => []LeaseInv
<1>1. LeaseStrong => LeaseInv
  BY DEF LeaseStrong, LeaseInv, FileSound, NewestOnDisk
<1> QED BY <1>1, StrongInvariance, PTL

(***************************************************************************)
(* Refinement                                                              *)
(***************************************************************************)

\* A step of the coordinator is a step of the fenced lease or leaves it alone.
LEMMA FencedStep == ASSUME LeaseStrong, [Next]_vars PROVE [F!Next]_<<fence, Live>>
<1> USE BoundsAssumption DEF BoundsAssumption, LeaseStrong, TypeOK, FileSound, Live, Free,
        F!Next, F!Issue, F!End, F!Revive
<1>1. ASSUME NEW t \in Tasks, AttemptStep(t) PROVE [F!Next]_<<fence, Live>>
  BY <1>1 DEF AttemptStep, AttemptNothing, AttemptGranted, AttemptTooLate, AttemptFails,
              NoFile, LeaseFile
<1>2. ASSUME NEW t \in Tasks, Unlink(t) PROVE [F!Next]_<<fence, Live>>
  BY <1>2 DEF Unlink, OnDisk, NoFile
<1>3. ASSUME NEW t \in Tasks, Renew(t) PROVE [F!Next]_<<fence, Live>>
  BY <1>3 DEF Renew, OnDisk, LeaseFile
<1>4. ASSUME NEW k \in Processes, Crash(k) PROVE [F!Next]_<<fence, Live>>
  BY <1>4 DEF Crash, NoFile, Torn
<1>5. CASE Tick
  BY <1>5 DEF Tick
<1>6. CASE UNCHANGED <<file, fence>>
  BY <1>6
<1> QED BY <1>1, <1>2, <1>3, <1>4, <1>5, <1>6
       DEF Next, CallerStep, CleanupStep, RenewalStep, Wait, GiveUpWaiting, StartAttempt, Adopt,
           PollAgain, GiveUp, Abandon, FinishAbandoned, DropAbandoned, BeginRenew, EndLostRenewal,
           ReleaseLost, BeginRelease, UnlinkFails, AbandonRelease, EndRelease, vars

\* The lease file and the fence file implement a fenced lease: fences are issued
\* once and grow, and only while no lease is live, across crashes, torn files,
\* late threads and detached cleanups.
THEOREM LeaseFenced == Spec => ImplementsFencedLease
<1>1. Init => F!Init
  BY DEF Init, NoFile, F!Init, Live
<1>2. LeaseStrong /\ [Next]_vars => [F!Next]_<<fence, Live>>
  BY FencedStep
<1> QED BY <1>1, <1>2, StrongInvariance, PTL DEF Spec, ImplementsFencedLease, F!Spec

-----------------------------------------------------------------------------
(***************************************************************************)
(* KeyedLock.  That one task holds the key rests on the table: every lock  *)
(* object but the one in the table is free, that one is locked by the      *)
(* owner, and the owner is among those who refer to it, so the entry       *)
(* cannot go while it is owned.                                            *)
(***************************************************************************)
Referring == {t \in Tasks : waits[t] # 0}

KeyedStrong ==
    /\ Keyed!TypeOK
    /\ Keyed!EntryInUse
    /\ \A o \in Keyed!Objects : locked[o] = IF o = entry THEN owner ELSE NoTask
    /\ owner # NoTask => waits[owner] # 0

\* The instances count with the same Cardinality.
LEMMA KeyedCardinality == ASSUME NEW S PROVE Keyed!Cardinality(S) = Cardinality(S)
BY DEF Keyed!Cardinality, Cardinality

\* Sets of tasks are counted.
LEMMA TasksCounted ==
    ASSUME NEW S, S \subseteq Tasks
    PROVE  IsFiniteSet(S) /\ Cardinality(S) \in 0..Cardinality(Tasks)
<1>1. IsFiniteSet(S) /\ Cardinality(S) <= Cardinality(Tasks)
  BY TasksFinite, FS_Subset DEF TasksFinite
<1>2. Cardinality(S) \in Nat /\ Cardinality(Tasks) \in Nat
  BY <1>1, TasksFinite, FS_CardinalityType DEF TasksFinite
<1> QED BY <1>1, <1>2

\* The empty table is in order.
LEMMA KeyedInit == Keyed!Init => KeyedStrong
<1> SUFFICES ASSUME Keyed!Init PROVE KeyedStrong
  OBVIOUS
<1>1. {t \in Tasks : waits[t] # 0} = {} /\ Cardinality({}) = 0
  BY FS_EmptySet DEF Keyed!Init
<1>2. 0 \in 0..Cardinality(Tasks)
  BY <1>1, TasksCounted
<1>3. Keyed!TypeOK
  BY <1>2, KeyedCardinality, ObjectsAssumption DEF ObjectsAssumption, Keyed!Init, Keyed!TypeOK, Keyed!Objects
<1>4. Keyed!EntryInUse
  <2>1. Keyed!Cardinality({t \in Tasks : waits[t] # 0}) = 0
    BY <1>1, KeyedCardinality
  <2> QED BY <2>1 DEF Keyed!Init, Keyed!EntryInUse
<1> QED BY <1>3, <1>4 DEF Keyed!Init, KeyedStrong, Keyed!Objects

\* The types but for the count, which follows from EntryInUse.
KeyedTypes ==
    /\ entry \in 0..MaxObjects
    /\ owner \in Tasks \cup {NoTask}
    /\ created \in 0..MaxObjects
    /\ locked \in [Keyed!Objects -> Tasks \cup {NoTask}]
    /\ queue \in [Keyed!Objects -> Seq(Tasks)]
    /\ waits \in [Tasks -> 0..MaxObjects]

\* A task that comes to refer to the lock.
LEMMA ReferringMore ==
    ASSUME KeyedTypes, NEW t \in Tasks, waits[t] = 0, NEW o \in Nat \ {0},
           waits' = [waits EXCEPT ![t] = o]
    PROVE  Cardinality(Referring') = Cardinality(Referring) + 1
<1>1. Referring' = Referring \cup {t} /\ t \notin Referring
  BY DEF Referring, KeyedTypes
<1>2. IsFiniteSet(Referring)
  BY TasksCounted DEF Referring
<1> QED BY <1>1, <1>2, FS_AddElement

\* A task that stops referring to it.
LEMMA ReferringLess ==
    ASSUME KeyedTypes, NEW t \in Tasks, waits[t] # 0, waits' = [waits EXCEPT ![t] = 0]
    PROVE  /\ Cardinality(Referring') = Cardinality(Referring) - 1
           /\ Cardinality(Referring) = 1 => \A u \in Tasks : waits[u] # 0 => u = t
<1>1. Referring' = Referring \ {t} /\ t \in Referring
  BY DEF Referring, KeyedTypes
<1>2. Cardinality(Referring') = Cardinality(Referring) - 1 /\ IsFiniteSet(Referring')
  <2>1. IsFiniteSet(Referring)
    BY TasksCounted DEF Referring
  <2> QED BY <1>1, <2>1, FS_RemoveElement
<1>3. Cardinality(Referring) = 1 => Referring' = {}
  BY <1>2, FS_EmptySet
<1> QED BY <1>1, <1>2, <1>3 DEF Referring

\* Every step keeps the table in order.
LEMMA KeyedNext == ASSUME KeyedStrong, [Keyed!Next]_(Keyed!vars) PROVE KeyedStrong'
<1> USE ProcessesAssumption, ObjectsAssumption DEF ProcessesAssumption, ObjectsAssumption
<1>0. /\ KeyedTypes /\ references = Cardinality(Referring) /\ references \in Nat
      /\ \A t \in Tasks : waits[t] # 0 => waits[t] = entry
      /\ entry # 0 <=> references > 0
      /\ \A o \in Keyed!Objects : locked[o] = IF o = entry THEN owner ELSE NoTask
      /\ owner # NoTask => waits[owner] # 0
      /\ NoTask \notin Tasks
  BY KeyedCardinality DEF KeyedStrong, Keyed!TypeOK, KeyedTypes, Keyed!EntryInUse, Referring
<1> DEFINE Order ==
      /\ KeyedTypes
      /\ \A t \in Tasks : waits[t] # 0 => waits[t] = entry
      /\ \A o \in Keyed!Objects : locked[o] = IF o = entry THEN owner ELSE NoTask
      /\ owner # NoTask => waits[owner] # 0
    Counted == references = Cardinality(Referring) /\ (entry # 0 <=> references > 0)
<1>1. ASSUME NEW t \in Tasks, Keyed!Request(t) PROVE Order' /\ Counted'
  <2>1. entry' \in Keyed!Objects /\ (entry # 0 => entry' = entry)
    BY <1>0, <1>1 DEF Keyed!Request, Keyed!Objects, KeyedTypes
  <2>2. /\ waits' = [waits EXCEPT ![t] = entry'] /\ waits[t] = 0 /\ references' = references + 1
        /\ queue' = [queue EXCEPT ![entry'] = Append(queue[entry'], t)]
        /\ UNCHANGED <<owner, locked>> /\ created' \in 0..MaxObjects
    BY <1>0, <1>1 DEF Keyed!Request, KeyedTypes
  <2>3. entry = 0 => owner = NoTask
    BY <1>0 DEF KeyedTypes
  <2>4. KeyedTypes'
    BY <1>0, <2>1, <2>2 DEF KeyedTypes, Keyed!Objects
  <2>5. Order'
    BY <1>0, <2>1, <2>2, <2>3, <2>4 DEF KeyedTypes, Keyed!Objects
  <2>6. Cardinality(Referring') = Cardinality(Referring) + 1
    <3>1. entry' \in Nat \ {0}
      BY <2>1 DEF Keyed!Objects
    <3> QED BY <1>0, <2>2, <3>1, ReferringMore
  <2> QED BY <1>0, <2>1, <2>2, <2>5, <2>6 DEF Keyed!Objects
<1>2. ASSUME NEW t \in Tasks, Keyed!Grant(t) PROVE Order' /\ Counted'
  <2>1. /\ waits[t] = entry /\ entry \in Keyed!Objects
        /\ locked' = [locked EXCEPT ![entry] = t] /\ owner' = t
        /\ queue[entry] # <<>> /\ queue' = [queue EXCEPT ![entry] = Tail(queue[entry])]
        /\ UNCHANGED <<entry, references, created, waits>>
    <3>1. waits[t] = entry /\ entry \in Keyed!Objects
      BY <1>0, <1>2 DEF Keyed!Grant, KeyedTypes, Keyed!Objects
    <3> QED BY <1>2, <3>1 DEF Keyed!Grant
  <2>2. KeyedTypes'
    BY <1>0, <2>1 DEF KeyedTypes
  <2>3. Order'
    BY <1>0, <2>1, <2>2 DEF KeyedTypes, Keyed!Objects
  <2>4. Referring' = Referring
    BY <2>1 DEF Referring
  <2> QED BY <1>0, <2>1, <2>3, <2>4
<1>3. ASSUME NEW t \in Tasks, Keyed!GiveUp(t) PROVE Order' /\ Counted'
  <2>1. /\ waits[t] = entry /\ entry \in Keyed!Objects /\ locked[entry] # t
        /\ waits' = [waits EXCEPT ![t] = 0] /\ waits[t] # 0
        /\ references' = references - 1 /\ entry' = IF references = 1 THEN 0 ELSE entry
        /\ UNCHANGED <<owner, created, locked>>
    BY <1>0, <1>3 DEF Keyed!GiveUp, Keyed!DropReference, KeyedTypes, Keyed!Objects
  <2>2. PICK i \in DOMAIN queue[entry] :
           queue' = [queue EXCEPT ![entry] = SubSeq(queue[entry], 1, i - 1)
                                               \o SubSeq(queue[entry], i + 1, Len(queue[entry]))]
    BY <1>3, <2>1 DEF Keyed!GiveUp
  <2>3. queue[entry] \in Seq(Tasks) /\ i \in 1..Len(queue[entry])
    <3>1. queue[entry] \in Seq(Tasks)
      BY <1>0, <2>1 DEF KeyedTypes
    <3> QED BY <2>2, <3>1
  <2>4. SubSeq(queue[entry], 1, i - 1) \o SubSeq(queue[entry], i + 1, Len(queue[entry])) \in Seq(Tasks)
    BY <2>3
  <2>5. KeyedTypes'
    <3>1. queue' \in [Keyed!Objects -> Seq(Tasks)]
      BY <1>0, <2>1, <2>2, <2>4 DEF KeyedTypes
    <3> QED BY <1>0, <2>1, <3>1 DEF KeyedTypes
  <2>6. /\ Cardinality(Referring') = Cardinality(Referring) - 1
        /\ Cardinality(Referring) = 1 => \A u \in Tasks : waits[u] # 0 => u = t
    BY <1>0, <2>1, ReferringLess
  <2>7. owner # t
    BY <1>0, <2>1
  <2>8. references = 1 => owner = NoTask
    BY <1>0, <2>6, <2>7 DEF KeyedTypes
  <2>9. Order'
    BY <1>0, <2>1, <2>5, <2>6, <2>7, <2>8 DEF KeyedTypes, Keyed!Objects
  <2> QED BY <1>0, <2>1, <2>6, <2>9
<1>4. ASSUME NEW t \in Tasks, Keyed!Release(t) PROVE Order' /\ Counted'
  <2>1. /\ owner = t /\ waits[t] # 0 /\ entry \in Keyed!Objects
        /\ owner' = NoTask /\ locked' = [locked EXCEPT ![entry] = NoTask]
        /\ waits' = [waits EXCEPT ![t] = 0]
        /\ references' = references - 1 /\ entry' = IF references = 1 THEN 0 ELSE entry
        /\ UNCHANGED <<created, queue>>
    BY <1>0, <1>4 DEF Keyed!Release, Keyed!DropReference, KeyedTypes, Keyed!Objects
  <2>2. KeyedTypes'
    BY <1>0, <2>1 DEF KeyedTypes
  <2>3. /\ Cardinality(Referring') = Cardinality(Referring) - 1
        /\ Cardinality(Referring) = 1 => \A u \in Tasks : waits[u] # 0 => u = t
    BY <1>0, <2>1, ReferringLess
  <2>4. Order'
    BY <1>0, <2>1, <2>2, <2>3 DEF KeyedTypes, Keyed!Objects
  <2> QED BY <1>0, <2>1, <2>3, <2>4
<1>5. ASSUME UNCHANGED Keyed!vars PROVE Order' /\ Counted'
  <2>1. UNCHANGED <<entry, references, owner, created, locked, queue, waits>>
    BY <1>5 DEF Keyed!vars
  <2>2. Order'
    BY <1>0, <2>1 DEF KeyedTypes
  <2>3. Referring' = Referring
    BY <2>1 DEF Referring
  <2> QED BY <1>0, <2>1, <2>2, <2>3
<1>6. Order' /\ Counted'
  BY <1>1, <1>2, <1>3, <1>4, <1>5 DEF Keyed!Next
<1>7. Cardinality(Referring') \in 0..Cardinality(Tasks)
  BY TasksCounted DEF Referring
<1> QED BY <1>6, <1>7, KeyedCardinality DEF KeyedStrong, Keyed!TypeOK, KeyedTypes, Keyed!EntryInUse, Referring

\* The table is in order in every reachable state.
THEOREM KeyedInvariance == Keyed!Spec => []KeyedStrong
<1>1. KeyedStrong /\ [Keyed!Next]_(Keyed!vars) => KeyedStrong'
  BY KeyedNext
<1> QED BY <1>1, KeyedInit, PTL DEF Keyed!Spec

\* One task at a time holds a key, although its lock object comes and goes, and
\* the object is in the table exactly as long as somebody refers to it.
THEOREM KeyedLockExact == Keyed!Spec => []KeyedLockSound
<1>1. ASSUME KeyedStrong PROVE KeyedLockSound
  <2>1. Keyed!Holding \subseteq {owner}
    BY <1>1, ObjectsAssumption DEF ObjectsAssumption, KeyedStrong, Keyed!TypeOK, Keyed!EntryInUse,
       Keyed!Holding, Keyed!Objects
  <2>2. IsFiniteSet({owner}) /\ Cardinality({owner}) = 1
    BY FS_Singleton
  <2>3. Cardinality(Keyed!Holding) <= 1
    BY <2>1, <2>2, FS_Subset
  <2> QED BY <1>1, <2>3, KeyedCardinality DEF KeyedLockSound, Keyed!KeyedInv, Keyed!MutualExclusion, KeyedStrong
<1> QED BY <1>1, KeyedInvariance, PTL

\* A keyed lock implements the abstract mutual exclusion lock.
THEOREM KeyedLockExcludes == Keyed!Spec => KeyedLockIsMutex
<1>1. Keyed!Init => Keyed!M!Init
  BY DEF Keyed!Init, Keyed!M!Init
<1>2. KeyedStrong /\ [Keyed!Next]_(Keyed!vars) => [Keyed!M!Next]_owner
  <2> SUFFICES ASSUME KeyedStrong, [Keyed!Next]_(Keyed!vars) PROVE [Keyed!M!Next]_owner
    OBVIOUS
  <2>1. ASSUME NEW t \in Tasks, Keyed!Grant(t) PROVE Keyed!M!Take(t)
    BY <2>1, ObjectsAssumption DEF ObjectsAssumption, Keyed!Grant, KeyedStrong, Keyed!TypeOK,
       Keyed!EntryInUse, Keyed!Objects, Keyed!M!Take
  <2>2. ASSUME NEW t \in Tasks, Keyed!Release(t) PROVE Keyed!M!Give(t)
    BY <2>2 DEF Keyed!Release, Keyed!M!Give
  <2> QED BY <2>1, <2>2 DEF Keyed!Next, Keyed!Request, Keyed!GiveUp, Keyed!vars, Keyed!M!Next
<1> QED BY <1>1, <1>2, KeyedInvariance, PTL
       DEF Keyed!Spec, KeyedLockIsMutex, Keyed!ImplementsMutex, Keyed!M!Spec

(***************************************************************************)
(* MutationLock.  A late thread may take or free the file lock after its   *)
(* task was cancelled.  The invariant ties what a thread does to the stage *)
(* of its task: a thread frees only a lock its own task has, and whoever   *)
(* has the file lock still has to free it or is stuck with it.             *)
(***************************************************************************)
Outside == {"out", "queued", "local queued"}

\* What a task in stage s with a thread in state r may have: the lock of its
\* process and the file lock.
InPlace(s, r, hasProcess, hasFile) ==
    /\ s \notin Outside <=> hasProcess
    /\ s \in Outside \cup {"polling", "inside", "local"} => r = "idle"
    /\ s = "trying" => r \in {"acquiring", "took", "missed", "error"}
    /\ s = "leaving" => r \in {"releasing", "released", "failed"}
    /\ s = "stuck" => r = "failed"
    /\ r \in {"took", "releasing"} \/ s = "inside" => hasFile
    /\ hasFile => s = "inside" \/ r \in {"took", "releasing", "failed"}

TaskPlaced(t) ==
    InPlace(mutationStage[t], thread[t], held[ProcessOf[t]] = t, mutationFile = t)

MutationTypes ==
    /\ held \in [Mutation!Hosts -> Tasks \cup {NoTask}]
    /\ mutationFile \in Tasks \cup {NoTask}
    /\ mutationStage \in [Tasks -> Mutation!Stage]
    /\ thread \in [Tasks -> Mutation!Thread]

MutationStrong ==
    /\ MutationTypes
    /\ \A t \in Tasks : TaskPlaced(t)

\* Task t comes to stage s with a thread in state r, leaves the lock of its
\* process to x and the file lock to f.
Becomes(t, s, r, x, f) ==
    /\ mutationStage' = [mutationStage EXCEPT ![t] = s]
    /\ thread' = [thread EXCEPT ![t] = r]
    /\ held' = [held EXCEPT ![ProcessOf[t]] = x]
    /\ mutationFile' = f

\* A task that gives or takes only locks that are free or its own keeps the order.
LEMMA OneTaskStep ==
    ASSUME MutationStrong, NEW t \in Tasks, NEW s \in Mutation!Stage, NEW r \in Mutation!Thread,
           NEW x, x = held[ProcessOf[t]] \/ {x, held[ProcessOf[t]]} \subseteq {NoTask, t},
           NEW f, f = mutationFile \/ {f, mutationFile} \subseteq {NoTask, t},
           Becomes(t, s, r, x, f), InPlace(s, r, x = t, f = t)
    PROVE  MutationStrong'
<1> USE DEF Becomes
<1>1. ProcessOf[t] \in Mutation!Hosts
  BY DEF Mutation!Hosts
<1>2. x \in Tasks \cup {NoTask} /\ f \in Tasks \cup {NoTask}
  BY <1>1 DEF MutationStrong, MutationTypes
<1>3. MutationTypes'
  BY <1>1, <1>2 DEF MutationStrong, MutationTypes
<1>4. TaskPlaced(t)'
  <2>1. /\ mutationStage'[t] = s /\ thread'[t] = r
        /\ held'[ProcessOf[t]] = x
    BY <1>1 DEF MutationStrong, MutationTypes
  <2> QED BY <2>1 DEF TaskPlaced
<1>5. ASSUME NEW u \in Tasks, u # t PROVE TaskPlaced(u)'
  <2>1. mutationStage'[u] = mutationStage[u] /\ thread'[u] = thread[u]
    BY <1>5 DEF MutationStrong, MutationTypes
  <2>2. mutationFile' = u <=> mutationFile = u
    BY <1>5, ProcessesAssumption DEF ProcessesAssumption
  <2>3. held'[ProcessOf[u]] = u <=> held[ProcessOf[u]] = u
    <3>1. ProcessOf[u] \in Mutation!Hosts
      BY DEF Mutation!Hosts
    <3> QED BY <1>1, <1>5, <3>1, ProcessesAssumption
           DEF ProcessesAssumption, MutationStrong, MutationTypes
  <2>4. TaskPlaced(u)
    BY DEF MutationStrong
  <2> QED BY <2>1, <2>2, <2>3, <2>4 DEF TaskPlaced
<1> QED BY <1>3, <1>4, <1>5 DEF MutationStrong

\* Every step of a task keeps the order.
LEMMA TaskStep ==
    ASSUME MutationStrong, NEW t \in Tasks,
           \/ Mutation!Proceed(t) \/ Mutation!Enter(t) \/ Mutation!TakeProcess(t)
           \/ Mutation!Cancel(t) \/ Mutation!Leave(t) \/ Mutation!EnterLocal(t)
           \/ Mutation!TakeLocal(t) \/ Mutation!LeaveLocal(t)
    PROVE  MutationStrong'
<1> DEFINE s == mutationStage[t]
           r == thread[t]
           x == held[ProcessOf[t]]
           f == mutationFile
<1>1. /\ s \in Mutation!Stage /\ r \in Mutation!Thread
      /\ InPlace(s, r, x = t, f = t)
      /\ NoTask # t
  BY ProcessesAssumption DEF ProcessesAssumption, MutationStrong, MutationTypes, TaskPlaced
<1>2. /\ UNCHANGED mutationStage => mutationStage' = [mutationStage EXCEPT ![t] = s]
      /\ UNCHANGED thread => thread' = [thread EXCEPT ![t] = r]
      /\ UNCHANGED held => held' = [held EXCEPT ![ProcessOf[t]] = x]
  BY DEF MutationStrong, MutationTypes
<1>3. CASE Mutation!TryAcquire(t)
  <2>1. \/ Becomes(t, s, "took", x, t) /\ r = "acquiring" /\ f = NoTask
        \/ Becomes(t, s, "missed", x, f) /\ r = "acquiring"
        \/ Becomes(t, s, "error", x, f) /\ r = "acquiring"
    BY <1>2, <1>3 DEF Mutation!TryAcquire, Becomes, Mutation!Go, Mutation!Run, Mutation!Done
  <2>2. CASE Becomes(t, s, "took", x, t) /\ r = "acquiring" /\ f = NoTask
    BY <1>1, <2>2, OneTaskStep DEF InPlace, Outside, Mutation!Stage, Mutation!Thread
  <2>3. CASE Becomes(t, s, "missed", x, f) /\ r = "acquiring"
    BY <1>1, <2>3, OneTaskStep DEF InPlace, Outside, Mutation!Stage, Mutation!Thread
  <2>4. CASE Becomes(t, s, "error", x, f) /\ r = "acquiring"
    BY <1>1, <2>4, OneTaskStep DEF InPlace, Outside, Mutation!Stage, Mutation!Thread
  <2> QED BY <2>1, <2>2, <2>3, <2>4
<1>4. CASE Mutation!ReleaseFile(t)
  <2>1. \/ Becomes(t, s, "released", x, NoTask) /\ r = "releasing"
        \/ Becomes(t, s, "failed", x, f) /\ r = "releasing"
        \/ Becomes(t, s, "failed", x, NoTask) /\ r = "releasing"
    BY <1>2, <1>4 DEF Mutation!ReleaseFile, Becomes, Mutation!Go, Mutation!Run, Mutation!Done
  <2>2. CASE Becomes(t, s, "released", x, NoTask) /\ r = "releasing"
    BY <1>1, <2>2, OneTaskStep DEF InPlace, Outside, Mutation!Stage, Mutation!Thread
  <2>3. CASE Becomes(t, s, "failed", x, f) /\ r = "releasing"
    BY <1>1, <2>3, OneTaskStep DEF InPlace, Outside, Mutation!Stage, Mutation!Thread
  <2>4. CASE Becomes(t, s, "failed", x, NoTask) /\ r = "releasing"
    BY <1>1, <2>4, OneTaskStep DEF InPlace, Outside, Mutation!Stage, Mutation!Thread
  <2> QED BY <2>1, <2>2, <2>3, <2>4
<1>5. CASE Mutation!Answer(t)
  <2>1. \/ Becomes(t, "inside", "idle", x, f) /\ s = "trying" /\ r = "took"
        \/ Becomes(t, "polling", "idle", x, f) /\ s = "trying" /\ r = "missed"
        \/ Becomes(t, "out", "idle", NoTask, f) /\ s = "trying" /\ r = "error"
    BY <1>2, <1>5 DEF Mutation!Answer, Becomes, Mutation!Go, Mutation!Run, Mutation!Done
  <2>2. CASE Becomes(t, "inside", "idle", x, f) /\ s = "trying" /\ r = "took"
    BY <1>1, <2>2, OneTaskStep DEF InPlace, Outside, Mutation!Stage, Mutation!Thread
  <2>3. CASE Becomes(t, "polling", "idle", x, f) /\ s = "trying" /\ r = "missed"
    BY ZenonT(60), <1>1, <2>3, OneTaskStep DEF InPlace, Outside, Mutation!Stage, Mutation!Thread
  <2>4. CASE Becomes(t, "out", "idle", NoTask, f) /\ s = "trying" /\ r = "error"
    BY <1>1, <2>4, OneTaskStep DEF InPlace, Outside, Mutation!Stage, Mutation!Thread
  <2> QED BY <2>1, <2>2, <2>3, <2>4
<1>6. CASE Mutation!Poll(t)
  <2>1. Becomes(t, "trying", "acquiring", x, f) /\ s = "polling"
    BY <1>2, <1>6 DEF Mutation!Poll, Becomes, Mutation!Go, Mutation!Run, Mutation!Done
  <2> QED BY <1>1, <2>1, OneTaskStep DEF InPlace, Outside, Mutation!Stage, Mutation!Thread
<1>7. CASE Mutation!CleanUp(t)
  <2>1. \/ Becomes(t, s, "releasing", x, f) /\ s = "cleaning" /\ r = "took"
        \/ Becomes(t, "out", "idle", NoTask, f) /\ s = "cleaning" /\ r \in {"idle", "missed", "error", "released"}
        \/ Becomes(t, "stuck", r, x, f) /\ s = "cleaning" /\ r = "failed"
    BY <1>2, <1>7 DEF Mutation!CleanUp, Becomes, Mutation!Go, Mutation!Run, Mutation!Done
  <2>2. CASE Becomes(t, s, "releasing", x, f) /\ s = "cleaning" /\ r = "took"
    BY <1>1, <2>2, OneTaskStep DEF InPlace, Outside, Mutation!Stage, Mutation!Thread
  <2>3. CASE Becomes(t, "out", "idle", NoTask, f) /\ s = "cleaning" /\ r \in {"idle", "missed", "error", "released"}
    BY <1>1, <2>3, OneTaskStep DEF InPlace, Outside, Mutation!Stage, Mutation!Thread
  <2>4. CASE Becomes(t, "stuck", r, x, f) /\ s = "cleaning" /\ r = "failed"
    BY <1>1, <2>4, OneTaskStep DEF InPlace, Outside, Mutation!Stage, Mutation!Thread
  <2> QED BY <2>1, <2>2, <2>3, <2>4
<1>8. CASE Mutation!Left(t)
  <2>1. \/ Becomes(t, "out", "idle", NoTask, f) /\ s = "leaving" /\ r = "released"
        \/ Becomes(t, "stuck", r, x, f) /\ s = "leaving" /\ r = "failed"
    BY <1>2, <1>8 DEF Mutation!Left, Becomes, Mutation!Go, Mutation!Run, Mutation!Done
  <2>2. CASE Becomes(t, "out", "idle", NoTask, f) /\ s = "leaving" /\ r = "released"
    BY <1>1, <2>2, OneTaskStep DEF InPlace, Outside, Mutation!Stage, Mutation!Thread
  <2>3. CASE Becomes(t, "stuck", r, x, f) /\ s = "leaving" /\ r = "failed"
    BY <1>1, <2>3, OneTaskStep DEF InPlace, Outside, Mutation!Stage, Mutation!Thread
  <2> QED BY <2>1, <2>2, <2>3
<1>9. CASE Mutation!Enter(t)
  <2>1. Becomes(t, "queued", r, x, f) /\ s = "out"
    BY <1>2, <1>9 DEF Mutation!Enter, Becomes, Mutation!Go, Mutation!Run, Mutation!Done
  <2> QED BY <1>1, <2>1, OneTaskStep DEF InPlace, Outside, Mutation!Stage, Mutation!Thread
<1>10. CASE Mutation!TakeProcess(t)
  <2>1. Becomes(t, "trying", "acquiring", t, f) /\ s = "queued" /\ x = NoTask
    BY <1>2, <1>10 DEF Mutation!TakeProcess, Becomes, Mutation!Go, Mutation!Run, Mutation!Done
  <2> QED BY <1>1, <2>1, OneTaskStep DEF InPlace, Outside, Mutation!Stage, Mutation!Thread
<1>11. CASE Mutation!Cancel(t)
  <2>1. \/ Becomes(t, "out", r, x, f) /\ s = "queued"
        \/ Becomes(t, "cleaning", r, x, f) /\ s \in {"trying", "polling", "leaving"}
    BY <1>2, <1>11 DEF Mutation!Cancel, Becomes, Mutation!Go, Mutation!Run, Mutation!Done
  <2>2. CASE Becomes(t, "out", r, x, f) /\ s = "queued"
    BY <1>1, <2>2, OneTaskStep DEF InPlace, Outside, Mutation!Stage, Mutation!Thread
  <2>3. CASE Becomes(t, "cleaning", r, x, f) /\ s \in {"trying", "polling", "leaving"}
    BY <1>1, <2>3, OneTaskStep DEF InPlace, Outside, Mutation!Stage, Mutation!Thread
  <2> QED BY <2>1, <2>2, <2>3
<1>12. CASE Mutation!Leave(t)
  <2>1. Becomes(t, "leaving", "releasing", x, f) /\ s = "inside"
    BY <1>2, <1>12 DEF Mutation!Leave, Becomes, Mutation!Go, Mutation!Run, Mutation!Done
  <2> QED BY <1>1, <2>1, OneTaskStep DEF InPlace, Outside, Mutation!Stage, Mutation!Thread
<1>13. CASE Mutation!EnterLocal(t)
  <2>1. Becomes(t, "local queued", r, x, f) /\ s = "out"
    BY <1>2, <1>13 DEF Mutation!EnterLocal, Becomes, Mutation!Go, Mutation!Run, Mutation!Done
  <2> QED BY <1>1, <2>1, OneTaskStep DEF InPlace, Outside, Mutation!Stage, Mutation!Thread
<1>14. CASE Mutation!TakeLocal(t)
  <2>1. Becomes(t, "local", r, t, f) /\ s = "local queued" /\ x = NoTask
    BY <1>2, <1>14 DEF Mutation!TakeLocal, Becomes, Mutation!Go, Mutation!Run, Mutation!Done
  <2> QED BY <1>1, <2>1, OneTaskStep DEF InPlace, Outside, Mutation!Stage, Mutation!Thread
<1>15. CASE Mutation!LeaveLocal(t)
  <2>1. Becomes(t, "out", "idle", NoTask, f) /\ s = "local"
    BY <1>2, <1>15 DEF Mutation!LeaveLocal, Becomes, Mutation!Go, Mutation!Run, Mutation!Done
  <2> QED BY <1>1, <2>1, OneTaskStep DEF InPlace, Outside, Mutation!Stage, Mutation!Thread
<1> QED BY <1>3, <1>4, <1>5, <1>6, <1>7, <1>8, <1>9, <1>10, <1>11, <1>12, <1>13, <1>14, <1>15
       DEF Mutation!Proceed

\* A process that dies leaves nothing behind.
LEMMA CrashStep ==
    ASSUME MutationStrong, NEW h \in Mutation!Hosts, Mutation!Crash(h)
    PROVE  MutationStrong'
<1> DEFINE dead == {t \in Tasks : ProcessOf[t] = h}
<1>1. /\ held' = [held EXCEPT ![h] = NoTask]
      /\ mutationFile' = IF mutationFile \in dead THEN NoTask ELSE mutationFile
      /\ mutationStage' = [t \in Tasks |-> IF t \in dead THEN "out" ELSE mutationStage[t]]
      /\ thread' = [t \in Tasks |-> IF t \in dead THEN "idle" ELSE thread[t]]
  BY DEF Mutation!Crash
<1>2. MutationTypes'
  BY <1>1 DEF MutationStrong, MutationTypes, Mutation!Stage, Mutation!Thread
<1>3. ASSUME NEW t \in Tasks PROVE TaskPlaced(t)'
  <2>1. ProcessOf[t] \in Mutation!Hosts /\ NoTask # t /\ TaskPlaced(t)
    BY ProcessesAssumption DEF ProcessesAssumption, Mutation!Hosts, MutationStrong
  <2>2. CASE t \in dead
    <3>1. /\ mutationStage'[t] = "out" /\ thread'[t] = "idle"
          /\ held'[ProcessOf[t]] # t /\ mutationFile' # t
      BY <1>1, <2>1, <2>2 DEF MutationStrong, MutationTypes
    <3> QED BY <3>1 DEF TaskPlaced, InPlace, Outside
  <2>3. CASE t \notin dead
    <3>1. /\ mutationStage'[t] = mutationStage[t] /\ thread'[t] = thread[t]
          /\ held'[ProcessOf[t]] = held[ProcessOf[t]]
          /\ mutationFile' = t <=> mutationFile = t
      BY <1>1, <2>1, <2>3 DEF MutationStrong, MutationTypes
    <3> QED BY <2>1, <3>1 DEF TaskPlaced
  <2> QED BY <2>2, <2>3
<1> QED BY <1>2, <1>3 DEF MutationStrong

\* However cancellations, late threads, failing releases and crashes mix, one task
\* in all processes is inside, with the file lock and the lock of its process, and
\* no file lock outlives the process lock of its task.
THEOREM MutationLockExact == Mutation!Spec => []MutationLockSound
<1>1. Mutation!Init => MutationStrong
  BY ProcessesAssumption
     DEF ProcessesAssumption, Mutation!Init, MutationStrong, MutationTypes, TaskPlaced, InPlace,
         Outside, Mutation!Hosts, Mutation!Stage, Mutation!Thread
<1>2. MutationStrong /\ [Mutation!Next]_(Mutation!vars) => MutationStrong'
  <2> SUFFICES ASSUME MutationStrong, [Mutation!Next]_(Mutation!vars) PROVE MutationStrong'
    OBVIOUS
  <2>1. CASE UNCHANGED Mutation!vars
    BY <2>1 DEF Mutation!vars, MutationStrong, MutationTypes, TaskPlaced
  <2> QED BY <2>1, TaskStep, CrashStep DEF Mutation!Next
<1>3. MutationStrong => MutationLockSound
  BY DEF MutationStrong, MutationTypes, TaskPlaced, InPlace, Outside, MutationLockSound,
         Mutation!MutationInv, Mutation!TypeOK, Mutation!SoleMutator, Mutation!FileInsideProcess,
         Mutation!HasProcess
<1> QED BY <1>1, <1>2, <1>3, PTL DEF Mutation!Spec

-----------------------------------------------------------------------------
(***************************************************************************)
(* The write buffer.  The inductive invariant follows the accepted entries *)
(* through their stages by position: the source has the first of them, the *)
(* batch comes next, the queue holds what is not settled.  The counters    *)
(* tell where one ends and the other begins, and a failure must freeze     *)
(* them before they drift apart.                                           *)
(***************************************************************************)

Draining == close \in {"open", "draining"}

\* How the flags, close and the writer exclude each other.
Stopped ==
    /\ broken => stopping
    /\ unknown # {} => ~accepting /\ submit = "idle"
    /\ close # "open" => ~accepting
    /\ ~Draining => submit = "idle" /\ writer \in {"none", "done"}

\* Entries are accepted in the order of their numbers, and one that is not yet
\* accepted, or not known to be, comes after them.
Numbered ==
    /\ \A i, j \in 1..Len(accepted) : i < j => accepted[i] < accepted[j]
    /\ \A i \in 1..Len(accepted) : accepted[i] <= submitted
    /\ Len(accepted) <= submitted
    /\ unknown \subseteq {submitted}
    /\ submit # "idle" \/ unknown # {} =>
          /\ Len(accepted) < submitted
          /\ \A i \in 1..Len(accepted) : accepted[i] < submitted

\* The source has the first accepted entries; the counters say how many have a
\* verdict.
Delivered ==
    /\ Len(source) <= Len(accepted)
    /\ \A i \in 1..Len(source) : source[i] = accepted[i]
    /\ confirmed <= Len(source)
    /\ settled <= confirmed + unconfirmed
    /\ confirmed + unconfirmed <= Len(accepted)
    /\ Draining /\ ~failed => unconfirmed = 0 /\ Len(source) = confirmed
    /\ Draining /\ writer \notin {"acking", "done"} => confirmed + unconfirmed = settled
    /\ writer = "acking" => confirmed + unconfirmed = settled + Len(batch)
    /\ close = "closed" => entries = <<>> /\ confirmed + unconfirmed = Len(accepted)

\* The batch of the writer comes next, and is the front of the queue.
BatchInFront ==
    writer \in {"writing", "acking"} =>
        /\ settled + Len(batch) <= Len(accepted)
        /\ Len(batch) <= Len(entries)
        /\ \A i \in 1..Len(batch) : batch[i] = accepted[settled + i] /\ batch[i] = entries[i]

Landed == IF submit = "landed" THEN 1 ELSE 0

\* QueueIsUnsettled, by position.
QueueHolds ==
    ~broken /\ ~stopping /\ Draining =>
        /\ Len(entries) = Len(accepted) - settled + Landed
        /\ \A i \in 1..Len(accepted) - settled : entries[i] = accepted[settled + i]
        /\ submit = "landed" => entries[Len(entries)] = submitted

\* A flush that succeeded waited for entries that the source has.
Receipt == flush = "ok" => target <= Len(source)

BufferStrong ==
    Buffer!TypeOK /\ Stopped /\ Numbered /\ Delivered /\ BatchInFront /\ QueueHolds /\ Receipt

\* Parts of a sequence.
LEMMA Parts ==
    ASSUME NEW S, NEW s \in Seq(S), NEW m \in Nat \ {0}, NEW n \in Nat, n <= Len(s)
    PROVE  /\ SubSeq(s, m, n) \in Seq(S)
           /\ Len(SubSeq(s, m, n)) = IF m <= n THEN n - m + 1 ELSE 0
           /\ \A i \in 1..n - m + 1 : SubSeq(s, m, n)[i] = s[m + i - 1]
BY SubSeqProperties

\* What SetToSeq makes of no entry and of one.
LEMMA SmallSets ==
    /\ Buffer!SetToSeq({}) = <<>>
    /\ \A x : Buffer!SetToSeq({x}) = <<x>>
<1>1. \A S : Buffer!Cardinality(S) = Cardinality(S)
  BY DEF Buffer!Cardinality, Cardinality
<1>2. Cardinality({}) = 0 /\ \A x : Cardinality({x}) = 1
  BY FS_EmptySet, FS_Singleton
<1>3. Buffer!SetToSeq({}) = <<>>
  <2>1. \A f \in [1..0 -> {}] : f = <<>>
    OBVIOUS
  <2>2. <<>> \in [1..0 -> {}] /\ Buffer!IsInjective(<<>>)
    BY DEF Buffer!IsInjective
  <2> QED
    BY <1>1, <1>2, <2>1, <2>2 DEF Buffer!SetToSeq
<1>4. ASSUME NEW x PROVE Buffer!SetToSeq({x}) = <<x>>
  <2>1. \A f \in [1..1 -> {x}] : f = <<x>>
    <3>1. 1..1 = {1}
      OBVIOUS
    <3> QED
      BY <3>1
  <2>2. <<x>> \in [1..1 -> {x}] /\ Buffer!IsInjective(<<x>>)
    BY DEF Buffer!IsInjective
  <2> QED
    BY <1>1, <1>2, <2>1, <2>2 DEF Buffer!SetToSeq
<1> QED
  BY <1>3, <1>4

\* An empty buffer is in order.
LEMMA BufferInit == Buffer!Init => BufferStrong
<1> SUFFICES ASSUME Buffer!Init PROVE BufferStrong
  OBVIOUS
<1>1. Len(accepted) = 0 /\ Len(entries) = 0 /\ Len(source) = 0
  BY DEF Buffer!Init
<1>2. Buffer!TypeOK
  <2>1. accepting \in BOOLEAN /\ stopping \in BOOLEAN /\ broken \in BOOLEAN /\ failed \in BOOLEAN
    BY Zenon DEF Buffer!Init
  <2> QED
    BY <2>1, BufferAssumption DEF BufferAssumption, Buffer!Init, Buffer!TypeOK
<1>3. Stopped /\ Numbered
  BY <1>1 DEF Buffer!Init, Stopped, Numbered, Draining
<1>4. Delivered /\ BatchInFront
  BY <1>1 DEF Buffer!Init, Delivered, BatchInFront, Draining
<1>5. QueueHolds /\ Receipt
  BY <1>1 DEF Buffer!Init, QueueHolds, Receipt, Landed
<1> QED
  BY <1>2, <1>3, <1>4, <1>5 DEF BufferStrong

\* The sizes are numbers, and no more entries are accepted than submitted.
Sizes ==
    /\ submitted \in Nat /\ settled \in Nat /\ confirmed \in Nat /\ unconfirmed \in Nat
    /\ Len(accepted) \in Nat /\ Len(entries) \in Nat /\ Len(batch) \in Nat /\ Len(source) \in Nat
    /\ \A i \in 1..Len(accepted) : accepted[i] \in Nat
    /\ Len(accepted) <= MaxEntries

\* The numbers that the parts of the invariant compare.
LEMMA BufferNumbers == BufferStrong => Sizes
BY BufferAssumption DEF BufferAssumption, Sizes, BufferStrong, Buffer!TypeOK, Buffer!Entries, Numbered

\* The entry that is submitted.
LEMMA SubmitKeeps ==
    ASSUME BufferStrong, Buffer!BeginSubmit \/ Buffer!Land \/ Buffer!Accept \/ Buffer!Withdraw \/ Buffer!AppendFails
    PROVE  BufferStrong'
<1> USE BufferAssumption DEF BufferAssumption, Buffer!submitVars, Buffer!counters, Buffer!flags, Buffer!writerVars,
        Buffer!flushVars
<1>0. Sizes
  BY BufferNumbers
<1>1. Buffer!TypeOK /\ Stopped /\ Numbered /\ Delivered /\ BatchInFront /\ QueueHolds /\ Receipt
  BY DEF BufferStrong
<1> USE DEF Sizes
<1>2. CASE Buffer!BeginSubmit
  <2>1. Buffer!TypeOK' /\ Stopped'
    BY <1>0, <1>1, <1>2 DEF Buffer!BeginSubmit, Buffer!TypeOK, Stopped, Draining
  <2>2. Numbered'
    BY <1>0, <1>1, <1>2 DEF Buffer!BeginSubmit, Buffer!TypeOK, Stopped, Numbered, Buffer!Entries
  <2>3. Delivered' /\ BatchInFront' /\ QueueHolds' /\ Receipt'
    BY <1>0, <1>1, <1>2 DEF Buffer!BeginSubmit, Delivered, BatchInFront, QueueHolds, Receipt, Landed, Draining
  <2> QED
    BY <2>1, <2>2, <2>3 DEF BufferStrong
<1>3. CASE Buffer!Land
  <2>1. submitted \in Buffer!Entries
    BY <1>0, <1>1, <1>3 DEF Buffer!Land, Buffer!TypeOK, Numbered, Buffer!Entries
  <2>2. /\ entries' \in Seq(Buffer!Entries) /\ Len(entries') = Len(entries) + 1
        /\ \A i \in 1..Len(entries) : entries'[i] = entries[i]
        /\ entries'[Len(entries) + 1] = submitted
    BY <1>0, <1>1, <1>3, <2>1, AppendProperties DEF Buffer!Land, Buffer!TypeOK
  <2>3. Buffer!TypeOK' /\ Stopped' /\ Numbered'
    BY <1>0, <1>1, <1>3, <2>2 DEF Buffer!Land, Buffer!TypeOK, Stopped, Draining, Numbered
  <2>4. Delivered' /\ Receipt'
    BY <1>0, <1>1, <1>3 DEF Buffer!Land, Delivered, Receipt, Draining, Stopped
  <2>5. BatchInFront'
    BY <1>0, <1>1, <1>3, <2>2 DEF Buffer!Land, BatchInFront, Buffer!TypeOK
  <2>6. QueueHolds'
    <3>1. submit = "append" /\ submit' = "landed" /\ submitted' = submitted /\ accepted' = accepted
          /\ settled' = settled /\ UNCHANGED <<broken, stopping, close>>
      BY <1>3 DEF Buffer!Land
    <3>2. settled <= Len(accepted)
      BY <1>0, <1>1 DEF Delivered
    <3>3. ASSUME ~broken, ~stopping, Draining
          PROVE  /\ Len(entries) = Len(accepted) - settled
                 /\ \A i \in 1..Len(accepted) - settled : entries[i] = accepted[settled + i]
      BY <1>0, <1>1, <3>1, <3>2, <3>3 DEF QueueHolds, Landed
    <3> QED
      BY <1>0, <2>2, <3>1, <3>2, <3>3 DEF QueueHolds, Landed, Draining
  <2> QED
    BY <2>3, <2>4, <2>5, <2>6 DEF BufferStrong
<1>4. CASE Buffer!Accept
  <2>1. submitted \in Buffer!Entries /\ unknown = {} /\ Draining
    BY <1>0, <1>1, <1>4 DEF Buffer!Accept, Buffer!TypeOK, Numbered, Stopped, Buffer!Entries
  <2>2. /\ accepted' \in Seq(Buffer!Entries) /\ Len(accepted') = Len(accepted) + 1
        /\ \A i \in 1..Len(accepted) : accepted'[i] = accepted[i]
        /\ accepted'[Len(accepted) + 1] = submitted
    BY <1>0, <1>1, <1>4, <2>1, AppendProperties DEF Buffer!Accept, Buffer!TypeOK
  <2>3. Buffer!TypeOK' /\ Stopped'
    BY <1>0, <1>1, <1>4, <2>1, <2>2 DEF Buffer!Accept, Buffer!TypeOK, Stopped, Draining
  <2>4. Numbered'
    <3>1. submit # "idle" /\ submit' = "idle" /\ submitted' = submitted /\ unknown' = {}
      BY <1>4, <2>1 DEF Buffer!Accept
    <3>2. \A i \in 1..Len(accepted) : accepted[i] < submitted
      BY <1>0, <1>1, <3>1 DEF Numbered
    <3>3. ASSUME NEW i \in 1..Len(accepted'), NEW j \in 1..Len(accepted'), i < j PROVE accepted'[i] < accepted'[j]
      <4>1. i \in 1..Len(accepted)
        BY <1>0, <2>2, <3>3
      <4>2. CASE j \in 1..Len(accepted)
        BY <1>1, <2>2, <3>3, <4>1, <4>2 DEF Numbered
      <4>3. CASE j = Len(accepted) + 1
        BY <2>2, <3>2, <4>1, <4>3
      <4> QED
        BY <1>0, <2>2, <4>2, <4>3
    <3>4. \A i \in 1..Len(accepted') : accepted'[i] <= submitted
      BY <1>0, <2>2, <3>2
    <3>5. Len(accepted') <= submitted
      BY <1>0, <1>1, <2>2, <3>1 DEF Numbered
    <3> QED
      BY <3>1, <3>3, <3>4, <3>5 DEF Numbered
  <2>5. Delivered' /\ Receipt'
    BY <1>0, <1>1, <1>4, <2>1, <2>2 DEF Buffer!Accept, Buffer!TypeOK, Delivered, Receipt, Draining
  <2>6. BatchInFront'
    BY <1>0, <1>1, <1>4, <2>2 DEF Buffer!Accept, BatchInFront, Buffer!TypeOK
  <2>7. QueueHolds'
    <3>1. submit = "landed" /\ submit' = "idle" /\ submitted' = submitted /\ entries' = entries
          /\ settled' = settled /\ UNCHANGED <<broken, stopping, close>>
      BY <1>4 DEF Buffer!Accept
    <3>2. settled <= Len(accepted)
      BY <1>0, <1>1 DEF Delivered
    <3>3. ASSUME ~broken, ~stopping
          PROVE  /\ Len(entries) = Len(accepted) - settled + 1
                 /\ \A i \in 1..Len(accepted) - settled : entries[i] = accepted[settled + i]
                 /\ entries[Len(accepted) - settled + 1] = submitted
      BY <1>0, <1>1, <2>1, <3>1, <3>2, <3>3 DEF QueueHolds, Landed
    <3>4. ASSUME ~broken, ~stopping, NEW i \in 1..Len(accepted') - settled
          PROVE  entries[i] = accepted'[settled + i]
      <4>1. CASE i <= Len(accepted) - settled
        BY <1>0, <1>1, <2>2, <3>2, <3>3, <3>4, <4>1
      <4>2. CASE i = Len(accepted) - settled + 1
        BY <1>0, <1>1, <2>2, <3>2, <3>3, <3>4, <4>2
      <4> QED
        BY <1>0, <1>1, <2>2, <3>2, <3>4, <4>1, <4>2
    <3> QED
      BY <1>0, <1>1, <2>2, <3>1, <3>2, <3>3, <3>4 DEF QueueHolds, Landed, Draining
  <2> QED
    BY <2>3, <2>4, <2>5, <2>6, <2>7 DEF BufferStrong
<1>5. CASE Buffer!Withdraw
  <2>1. Buffer!TypeOK' /\ Stopped' /\ Numbered'
    BY <1>0, <1>1, <1>5 DEF Buffer!Withdraw, Buffer!TypeOK, Stopped, Draining, Numbered
  <2>2. Delivered' /\ BatchInFront' /\ QueueHolds' /\ Receipt'
    BY <1>0, <1>1, <1>5 DEF Buffer!Withdraw, Delivered, BatchInFront, QueueHolds, Receipt, Landed, Draining
  <2> QED
    BY <2>1, <2>2 DEF BufferStrong
<1>6. CASE Buffer!AppendFails
  <2>1. submitted \in Buffer!Entries /\ Draining
    BY <1>0, <1>1, <1>6 DEF Buffer!AppendFails, Buffer!TypeOK, Numbered, Stopped, Buffer!Entries
  <2>2. Buffer!TypeOK'
    <3>1. accepting' \in BOOLEAN /\ stopping' \in BOOLEAN /\ broken' \in BOOLEAN
      BY <1>6, Zenon DEF Buffer!AppendFails, Buffer!Break
    <3> QED
      BY <1>0, <1>1, <1>6, <2>1, <3>1 DEF Buffer!AppendFails, Buffer!Fault, Buffer!TypeOK
  <2>5. Stopped'
    BY <1>0, <1>1, <1>6, <2>1 DEF Buffer!AppendFails, Buffer!Break, Stopped, Draining
  <2>3. Numbered'
    BY <1>0, <1>1, <1>6 DEF Buffer!AppendFails, Stopped, Numbered
  <2>4. Delivered' /\ BatchInFront' /\ QueueHolds' /\ Receipt'
    BY <1>0, <1>1, <1>6 DEF Buffer!AppendFails, Buffer!Break, Delivered, BatchInFront, QueueHolds, Receipt, Draining
  <2> QED
    BY <2>2, <2>3, <2>4, <2>5 DEF BufferStrong
<1> QED
  BY <1>2, <1>3, <1>4, <1>5, <1>6

\* The writer task, but for its calls of the source and of ack.
LEMMA WriterKeeps ==
    ASSUME BufferStrong, Buffer!StartBatch \/ Buffer!StopWriter \/ Buffer!ReadBatch \/ Buffer!ReadFails
    PROVE  BufferStrong'
<1> USE BufferAssumption DEF BufferAssumption, Buffer!submitVars, Buffer!counters, Buffer!flags, Buffer!writerVars,
        Buffer!flushVars
<1>0. Sizes
  BY BufferNumbers
<1>1. Buffer!TypeOK /\ Stopped /\ Numbered /\ Delivered /\ BatchInFront /\ QueueHolds /\ Receipt
  BY DEF BufferStrong
<1> USE DEF Sizes
<1>2. CASE Buffer!StartBatch \/ Buffer!StopWriter
  <2>1. Buffer!TypeOK' /\ Stopped'
    BY SMTT(30), <1>0, <1>1, <1>2 DEF Buffer!StartBatch, Buffer!StopWriter, Buffer!TypeOK, Stopped, Draining
  <2>2. Numbered' /\ QueueHolds' /\ Receipt'
    BY <1>0, <1>1, <1>2 DEF Buffer!StartBatch, Buffer!StopWriter, Numbered, QueueHolds, Receipt, Landed, Draining
  <2>3. Delivered' /\ BatchInFront'
    BY <1>0, <1>1, <1>2 DEF Buffer!StartBatch, Buffer!StopWriter, Delivered, BatchInFront, Draining
  <2> QED
    BY <2>1, <2>2, <2>3 DEF BufferStrong
<1>3. ASSUME Buffer!Break, writer = "reading", writer' = "done",
             UNCHANGED <<entries, submit, submitted, accepted, confirmed, unconfirmed, settled, unknown, failed,
                         batch, source, flush, target, close>>,
             faults' \in 0..MaxFaults
      PROVE  BufferStrong'
  <2>1. accepting' \in BOOLEAN /\ stopping' \in BOOLEAN /\ broken' \in BOOLEAN
    BY <1>3, Zenon DEF Buffer!Break
  <2>2. Buffer!TypeOK'
    BY <1>0, <1>1, <1>3, <2>1 DEF Buffer!TypeOK
  <2>3. Stopped' /\ QueueHolds'
    BY <1>0, <1>1, <1>3 DEF Buffer!Break, Stopped, QueueHolds, Draining
  <2>4. Numbered' /\ Receipt' /\ Delivered' /\ BatchInFront'
    BY <1>0, <1>1, <1>3 DEF Numbered, Receipt, Delivered, BatchInFront, Draining
  <2> QED
    BY <2>2, <2>3, <2>4 DEF BufferStrong
<1>4. CASE Buffer!ReadFails
  <2>1. faults' \in 0..MaxFaults
    BY <1>0, <1>1, <1>4 DEF Buffer!ReadFails, Buffer!Fault, Buffer!TypeOK
  <2> QED
    BY <1>3, <1>4, <2>1 DEF Buffer!ReadFails
<1>5. CASE Buffer!ReadBatch
  <2> DEFINE n == Buffer!Min2(Buffer!Min2(Buffer!Pending, BatchSize), Len(entries))
             prefix == SubSeq(entries, 1, n)
  <2>1. writer = "reading" /\ Draining /\ settled <= Len(accepted)
    BY <1>0, <1>1, <1>5 DEF Buffer!ReadBatch, Stopped, Delivered
  <2>2. n \in Nat /\ n <= Len(entries) /\ n <= Len(accepted) - settled
    BY <1>0, <1>1, <2>1 DEF Buffer!Min2, Buffer!Pending
  <2> HIDE DEF n
  <2>3. /\ prefix \in Seq(Buffer!Entries) /\ Len(prefix) = n
        /\ \A i \in 1..n : prefix[i] = entries[i]
    BY <1>0, <1>1, <2>2, Parts DEF Buffer!TypeOK
  <2>4. CASE prefix = <<>>
    <3>1. Buffer!Break /\ writer' = "done" /\ UNCHANGED batch
      BY <1>5, <2>4 DEF Buffer!ReadBatch, n
    <3>2. faults' \in 0..MaxFaults
      BY <1>0, <1>1, <1>5 DEF Buffer!ReadBatch, Buffer!TypeOK
    <3> QED
      BY <1>3, <1>5, <3>1, <3>2 DEF Buffer!ReadBatch
  <2>5. CASE prefix # <<>>
    <3>1. /\ writer' = IF stopping THEN "done" ELSE "writing"
          /\ batch' = IF stopping THEN batch ELSE prefix
          /\ UNCHANGED <<accepting, stopping, broken>>
      BY <1>5, <2>5 DEF Buffer!ReadBatch, n
    <3>2. UNCHANGED <<entries, submit, submitted, accepted, confirmed, unconfirmed, settled, unknown, failed,
                      source, flush, target, close, faults>>
      BY <1>5 DEF Buffer!ReadBatch
    <3> HIDE DEF prefix
    <3>3. Buffer!TypeOK' /\ Stopped'
      BY <1>0, <1>1, <2>1, <2>3, <3>1, <3>2 DEF Buffer!TypeOK, Stopped, Draining
    <3>4. Numbered' /\ QueueHolds' /\ Receipt'
      BY <1>0, <1>1, <3>1, <3>2 DEF Numbered, QueueHolds, Receipt, Landed, Draining
    <3>5. Delivered'
      BY <1>0, <1>1, <2>1, <3>1, <3>2 DEF Delivered, Draining
    <3>6. BatchInFront'
      <4>1. CASE stopping
        BY <3>1, <4>1 DEF BatchInFront
      <4>2. CASE ~stopping
        <5>1. \A i \in 1..Len(accepted) - settled : entries[i] = accepted[settled + i]
          BY <1>0, <1>1, <2>1, <4>2 DEF QueueHolds, Stopped
        <5> QED
          BY <1>0, <1>1, <2>1, <2>2, <2>3, <3>1, <3>2, <4>2, <5>1 DEF BatchInFront
      <4> QED
        BY <4>1, <4>2
    <3> QED
      BY <3>3, <3>4, <3>5, <3>6 DEF BufferStrong
  <2> QED
    BY <2>4, <2>5
<1> QED
  BY <1>2, <1>4, <1>5

\* The write of a batch: the source takes it whole or not at all.
LEMMA WriteKeeps ==
    ASSUME BufferStrong, Buffer!WriteOk \/ Buffer!WriteFails
    PROVE  BufferStrong'
<1> USE BufferAssumption DEF BufferAssumption, Buffer!submitVars, Buffer!counters, Buffer!flags, Buffer!writerVars,
        Buffer!flushVars
<1>0. Sizes
  BY BufferNumbers
<1>1. Buffer!TypeOK /\ Stopped /\ Numbered /\ Delivered /\ BatchInFront /\ QueueHolds /\ Receipt
  BY DEF BufferStrong
<1> USE DEF Sizes
<1>2. /\ writer = "writing" /\ writer' = "acking" /\ Draining
      /\ UNCHANGED <<entries, submit, submitted, accepted, settled, stopping, broken, unknown, batch, flush, target,
                     close>>
      /\ confirmed + unconfirmed = settled /\ settled + Len(batch) <= Len(accepted)
      /\ \A i \in 1..Len(batch) : batch[i] = accepted[settled + i]
  BY <1>0, <1>1 DEF Buffer!WriteOk, Buffer!WriteFails, Stopped, Delivered, BatchInFront, Draining
<1>3. ~failed => /\ Len(source) = settled
                 /\ source \o batch \in Seq(Buffer!Entries) /\ Len(source \o batch) = settled + Len(batch)
                 /\ \A i \in 1..settled + Len(batch) : (source \o batch)[i] = accepted[i]
  <2> SUFFICES ASSUME ~failed
               PROVE  /\ Len(source) = settled
                      /\ source \o batch \in Seq(Buffer!Entries) /\ Len(source \o batch) = settled + Len(batch)
                      /\ \A i \in 1..settled + Len(batch) : (source \o batch)[i] = accepted[i]
    OBVIOUS
  <2>1. Len(source) = settled
    BY <1>0, <1>1, <1>2 DEF Delivered
  <2>2. /\ source \o batch \in Seq(Buffer!Entries) /\ Len(source \o batch) = Len(source) + Len(batch)
        /\ \A i \in 1..Len(source) + Len(batch) :
              (source \o batch)[i] = IF i <= Len(source) THEN source[i] ELSE batch[i - Len(source)]
    BY <1>0, <1>1, ConcatProperties DEF Buffer!TypeOK
  <2>3. ASSUME NEW i \in 1..settled + Len(batch) PROVE (source \o batch)[i] = accepted[i]
    <3>1. CASE i <= settled
      BY <1>0, <1>1, <2>1, <2>2, <3>1 DEF Delivered
    <3>2. CASE i > settled
      <4>1. i - settled \in 1..Len(batch)
        BY <1>0, <1>1, <3>2
      <4>2. batch[i - settled] = accepted[settled + (i - settled)]
        BY <1>2, <4>1
      <4> QED
        BY <1>0, <1>1, <2>1, <2>2, <3>2, <4>2
    <3>3. i <= settled \/ i > settled
      BY <1>0
    <3> QED
      BY <3>1, <3>2, <3>3, Zenon
  <2> QED
    BY <2>1, <2>2, <2>3
<1>4. /\ source' \in Seq(Buffer!Entries) /\ Len(source') \in Nat /\ Len(source') >= Len(source)
      /\ Len(source') <= Len(accepted)
      /\ \A i \in 1..Len(source') : source'[i] = accepted[i]
  <2>1. source' = source \/ (~failed /\ source' = source \o batch)
    BY <1>0, <1>1 DEF Buffer!WriteOk, Buffer!WriteFails
  <2>2. CASE source' = source
    BY <1>0, <1>1, <2>2 DEF Delivered, Buffer!TypeOK
  <2>3. CASE ~failed /\ source' = source \o batch
    BY <1>0, <1>2, <1>3, <2>3
  <2> QED
    BY <2>1, <2>2, <2>3
<1>5. /\ \/ ~failed /\ confirmed' = confirmed + Len(batch) /\ unconfirmed' = unconfirmed /\ source' = source \o batch
            /\ failed' = failed /\ accepting' = accepting
         \/ confirmed' = confirmed /\ unconfirmed' = unconfirmed + Len(batch) /\ failed' = TRUE /\ accepting' = FALSE
      /\ faults' \in 0..MaxFaults
  <2>1. CASE Buffer!WriteOk
    BY <1>0, <1>1, <2>1 DEF Buffer!WriteOk, Buffer!TypeOK
  <2>2. CASE Buffer!WriteFails
    <3>1. faults \in 0..MaxFaults
      BY <1>1 DEF Buffer!TypeOK
    <3>2. faults' \in 0..MaxFaults
      BY <2>2, <3>1 DEF Buffer!WriteFails, Buffer!Fault
    <3> QED
      BY <2>2, <3>2, Zenon DEF Buffer!WriteFails
  <2> QED
    BY <2>1, <2>2
<1>6. Buffer!TypeOK'
  <2>1. failed' \in BOOLEAN /\ accepting' \in BOOLEAN
    BY <1>0, <1>1, <1>5 DEF Buffer!TypeOK
  <2>2. confirmed' \in 0..MaxEntries /\ unconfirmed' \in 0..MaxEntries
    BY SMTT(30), <1>0, <1>1, <1>2, <1>5
  <2> QED
    BY <1>0, <1>1, <1>2, <1>4, <1>5, <2>1, <2>2 DEF Buffer!TypeOK
<1>7. Stopped'
  BY <1>0, <1>1, <1>2, <1>5 DEF Stopped, Draining
<1>8. Numbered' /\ QueueHolds' /\ BatchInFront'
  BY <1>0, <1>1, <1>2 DEF Numbered, QueueHolds, Landed, BatchInFront, Draining
<1>9. Receipt'
  BY <1>0, <1>1, <1>2, <1>4 DEF Receipt, Buffer!TypeOK
<1>10. Delivered'
  <2>1. CASE failed' = TRUE /\ confirmed' = confirmed /\ unconfirmed' = unconfirmed + Len(batch)
    <3>1. confirmed <= Len(source) /\ close # "closed"
      BY <1>1, <1>2 DEF Delivered, Draining
    <3> QED
      BY <1>0, <1>2, <1>4, <2>1, <3>1 DEF Delivered
  <2>2. CASE ~failed /\ confirmed' = confirmed + Len(batch) /\ unconfirmed' = unconfirmed /\ source' = source \o batch
    <3>1. unconfirmed = 0 /\ confirmed = Len(source) /\ close # "closed" /\ Len(source') = settled + Len(batch)
      BY <1>1, <1>2, <1>3, <2>2 DEF Delivered, Draining
    <3> QED
      BY <1>0, <1>2, <1>3, <1>4, <2>2, <3>1 DEF Delivered
  <2> QED
    BY <1>5, <2>1, <2>2
<1> QED
  BY <1>6, <1>7, <1>8, <1>9, <1>10 DEF BufferStrong

\* The queue without the batch.
LEMMA RemainingFacts ==
    ASSUME BufferStrong
    PROVE  /\ Buffer!Remaining(entries, batch) \in Seq(Buffer!Entries)
           /\ Len(batch) <= Len(entries) =>
                 /\ Len(Buffer!Remaining(entries, batch)) = Len(entries) - Len(batch)
                 /\ \A i \in 1..Len(entries) - Len(batch) :
                       Buffer!Remaining(entries, batch)[i] = entries[Len(batch) + i]
<1>1. /\ entries \in Seq(Buffer!Entries) /\ Len(entries) \in Nat /\ Len(batch) + 1 \in Nat \ {0}
      /\ Len(batch) \in Nat
  BY DEF BufferStrong, Buffer!TypeOK
<1> DEFINE r == SubSeq(entries, Len(batch) + 1, Len(entries))
<1>2. /\ r \in Seq(Buffer!Entries)
      /\ Len(r) = IF Len(batch) + 1 <= Len(entries) THEN Len(entries) - (Len(batch) + 1) + 1 ELSE 0
      /\ \A i \in 1..Len(entries) - (Len(batch) + 1) + 1 : r[i] = entries[Len(batch) + 1 + i - 1]
  BY <1>1, Parts
<1> HIDE DEF r
<1>3. Buffer!Remaining(entries, batch) = r
  BY DEF Buffer!Remaining, r
<1> QED
  BY <1>1, <1>2, <1>3

\* Acknowledgements.
LEMMA AckKeeps ==
    ASSUME BufferStrong, Buffer!Ack \/ Buffer!AckFails
    PROVE  BufferStrong'
<1> USE BufferAssumption DEF BufferAssumption, Buffer!submitVars, Buffer!counters, Buffer!flags, Buffer!writerVars,
        Buffer!flushVars
<1>0. Sizes
  BY BufferNumbers
<1>1. Buffer!TypeOK /\ Stopped /\ Numbered /\ Delivered /\ BatchInFront /\ QueueHolds /\ Receipt
  BY DEF BufferStrong
<1> USE DEF Sizes
<1> DEFINE r == Buffer!Remaining(entries, batch)
<1>2. /\ writer = "acking" /\ Draining
      /\ settled + Len(batch) <= Len(accepted) /\ Len(batch) <= Len(entries)
      /\ confirmed + unconfirmed = settled + Len(batch)
      /\ UNCHANGED <<submit, submitted, accepted, confirmed, unconfirmed, unknown, failed, batch, source, flush, target,
                     close>>
  BY <1>1 DEF Buffer!Ack, Buffer!AckFails, Stopped, Delivered, BatchInFront
<1>3. /\ r \in Seq(Buffer!Entries) /\ Len(r) = Len(entries) - Len(batch)
      /\ \A i \in 1..Len(entries) - Len(batch) : r[i] = entries[Len(batch) + i]
  BY <1>2, RemainingFacts
<1> HIDE DEF r
<1>4. Numbered' /\ Receipt'
  BY <1>1, <1>2 DEF Numbered, Receipt
<1>5. CASE Buffer!Ack
  <2>1. /\ entries' = r /\ settled' = settled + Len(batch) /\ writer' = "waiting"
        /\ UNCHANGED <<accepting, stopping, broken, faults>>
    BY <1>5 DEF Buffer!Ack, r
  <2>2. Buffer!TypeOK'
    BY <1>0, <1>1, <1>2, <1>3, <2>1 DEF Buffer!TypeOK
  <2>3. Stopped' /\ BatchInFront'
    BY <1>1, <1>2, <2>1 DEF Stopped, BatchInFront, Draining
  <2>4. Delivered'
    BY <1>0, <1>1, <1>2, <2>1 DEF Delivered, Draining
  <2>5. QueueHolds'
    <3>1. ASSUME ~broken, ~stopping
          PROVE  /\ Len(entries) = Len(accepted) - settled + Landed
                 /\ \A i \in 1..Len(accepted) - settled : entries[i] = accepted[settled + i]
                 /\ submit = "landed" => entries[Len(entries)] = submitted
      BY <1>1, <1>2, <3>1 DEF QueueHolds
    <3>2. Landed \in 0..1 /\ Landed' = Landed /\ (submit = "landed" => Landed = 1)
      BY <1>2 DEF Landed
    <3>3. ASSUME ~broken, ~stopping
          PROVE  /\ Len(r) = Len(accepted) - (settled + Len(batch)) + Landed
                 /\ submit = "landed" => r[Len(r)] = submitted
      <4>1. Len(r) = Len(accepted) - (settled + Len(batch)) + Landed
        <5>1. Len(entries) = Len(accepted) - settled + Landed
          BY <3>1, <3>3
        <5> QED
          BY <1>0, <1>3, <3>2, <5>1
      <4>2. ASSUME submit = "landed" PROVE r[Len(r)] = submitted
        <5>1. Landed = 1 /\ entries[Len(entries)] = submitted
          BY <3>1, <3>2, <3>3, <4>2
        <5>2. Len(r) \in 1..Len(entries) - Len(batch)
          BY <1>0, <1>2, <1>3, <4>1, <5>1
        <5>3. Len(batch) + Len(r) = Len(entries)
          BY <1>0, <1>3
        <5> QED
          BY <1>3, <5>1, <5>2, <5>3
      <4> QED
        BY <4>1, <4>2
    <3>4. ASSUME ~broken, ~stopping, NEW i \in 1..Len(accepted) - (settled + Len(batch))
          PROVE  r[i] = accepted[settled + Len(batch) + i]
      <4>1. Len(batch) + i \in 1..Len(accepted) - settled /\ i \in 1..Len(entries) - Len(batch)
        BY <1>0, <1>2, <3>1, <3>2, <3>4
      <4>2. entries[Len(batch) + i] = accepted[settled + (Len(batch) + i)]
        BY <3>1, <3>4, <4>1
      <4>3. settled + (Len(batch) + i) = settled + Len(batch) + i
        BY <1>0, <4>1
      <4> QED
        BY <1>3, <4>1, <4>2, <4>3
    <3> QED
      BY <1>2, <2>1, <3>2, <3>3, <3>4 DEF QueueHolds
  <2> QED
    BY <1>4, <2>2, <2>3, <2>4, <2>5 DEF BufferStrong
<1>6. CASE Buffer!AckFails
  <2>1. /\ entries' \in {entries, r} /\ settled' = settled /\ writer' = "done" /\ broken' /\ stopping' /\ ~accepting'
    BY <1>6 DEF Buffer!AckFails, Buffer!Break, r
  <2>2. Buffer!TypeOK'
    <3>1. accepting' \in BOOLEAN /\ stopping' \in BOOLEAN /\ broken' \in BOOLEAN
      BY <1>6, Zenon DEF Buffer!AckFails, Buffer!Break
    <3>2. faults' \in 0..MaxFaults
      BY <1>1, <1>6 DEF Buffer!AckFails, Buffer!Fault, Buffer!TypeOK
    <3> QED
      BY <1>0, <1>1, <1>2, <1>3, <2>1, <3>1, <3>2 DEF Buffer!TypeOK
  <2>3. Stopped' /\ BatchInFront' /\ QueueHolds'
    BY <1>1, <1>2, <2>1 DEF Stopped, BatchInFront, Draining, QueueHolds
  <2>4. Delivered'
    BY <1>0, <1>1, <1>2, <2>1 DEF Delivered, Draining
  <2> QED
    BY <1>4, <2>2, <2>3, <2>4 DEF BufferStrong
<1> QED
  BY <1>5, <1>6

\* flush, and close up to the point where the queue is cleared.
LEMMA WaitersKeep ==
    ASSUME BufferStrong,
           Buffer!BeginFlush \/ Buffer!EndFlush \/ Buffer!BeginClose \/ Buffer!CloseTimesOut \/ Buffer!Drained
    PROVE  BufferStrong'
<1> USE BufferAssumption DEF BufferAssumption, Buffer!submitVars, Buffer!counters, Buffer!flags, Buffer!writerVars,
        Buffer!flushVars
<1>0. Sizes
  BY BufferNumbers
<1>1. Buffer!TypeOK /\ Stopped /\ Numbered /\ Delivered /\ BatchInFront /\ QueueHolds /\ Receipt
  BY DEF BufferStrong
<1> USE DEF Sizes
<1>2. CASE Buffer!BeginFlush
  <2>1. Buffer!TypeOK' /\ Stopped' /\ Receipt'
    BY <1>0, <1>1, <1>2 DEF Buffer!BeginFlush, Buffer!TypeOK, Stopped, Receipt, Draining
  <2>2. Numbered' /\ Delivered' /\ BatchInFront' /\ QueueHolds'
    BY <1>1, <1>2 DEF Buffer!BeginFlush, Numbered, Delivered, BatchInFront, QueueHolds, Landed, Draining
  <2> QED
    BY <2>1, <2>2 DEF BufferStrong
<1>3. CASE Buffer!EndFlush
  <2>1. /\ flush' = IF broken \/ failed \/ unconfirmed > 0 THEN "error" ELSE "ok"
        /\ failed' = (failed \/ broken \/ unconfirmed > 0)
        /\ accepting' = (accepting /\ ~failed')
        /\ UNCHANGED <<entries, submit, submitted, accepted, confirmed, unconfirmed, settled, stopping, broken, unknown,
                       writer, batch, source, target, close, faults>>
    BY <1>3 DEF Buffer!EndFlush
  <2>2. failed' \in BOOLEAN /\ accepting' \in BOOLEAN /\ (failed => failed') /\ (accepting' => accepting)
    BY <2>1, Zenon
  <2>3. Buffer!TypeOK' /\ Stopped'
    BY <1>1, <2>1, <2>2 DEF Buffer!TypeOK, Stopped, Draining
  <2>4. Numbered' /\ BatchInFront' /\ QueueHolds'
    BY <1>1, <2>1 DEF Numbered, BatchInFront, QueueHolds, Landed, Draining
  <2>5. Delivered'
    BY <1>1, <2>1, <2>2 DEF Delivered, Draining
  <2>6. Receipt'
    <3>1. SUFFICES ASSUME flush' = "ok" PROVE target <= Len(source)
      BY <2>1 DEF Receipt
    <3>2. ~broken /\ ~(unconfirmed > 0)
      BY <2>1, <3>1
    <3>3. settled >= target
      BY <1>3, <3>2 DEF Buffer!EndFlush
    <3> QED
      BY <1>0, <1>1, <3>2, <3>3 DEF Delivered, Buffer!TypeOK
  <2> QED
    BY <2>3, <2>4, <2>5, <2>6 DEF BufferStrong
<1>4. CASE Buffer!BeginClose
  <2>1. Buffer!TypeOK' /\ Stopped'
    BY <1>1, <1>4 DEF Buffer!BeginClose, Buffer!TypeOK, Stopped, Draining
  <2>2. Numbered' /\ Delivered' /\ BatchInFront' /\ QueueHolds' /\ Receipt'
    BY <1>1, <1>4 DEF Buffer!BeginClose, Numbered, Delivered, BatchInFront, QueueHolds, Landed, Draining, Receipt
  <2> QED
    BY <2>1, <2>2 DEF BufferStrong
<1>5. CASE Buffer!CloseTimesOut
  <2>1. /\ close = "draining" /\ submit = "idle" /\ stopping'
        /\ writer' = IF writer = "writing" THEN writer ELSE "done"
        /\ UNCHANGED <<submit, submitted, accepted, confirmed, unconfirmed, settled, accepting, broken, unknown, failed,
                       batch, source, flush, target, close, faults>>
    BY <1>5 DEF Buffer!CloseTimesOut
  <2>2. /\ entries' \in {entries, Buffer!Remaining(entries, batch)} /\ entries' \in Seq(Buffer!Entries)
        /\ writer = "writing" => entries' = entries
    BY <1>1, <1>5, RemainingFacts DEF Buffer!CloseTimesOut, Buffer!TypeOK
  <2>3. Buffer!TypeOK' /\ Stopped'
    <3>1. stopping' \in BOOLEAN
      BY <1>5, Zenon DEF Buffer!CloseTimesOut
    <3> QED
      BY <1>1, <2>1, <2>2, <3>1 DEF Buffer!TypeOK, Stopped, Draining
  <2>4. Numbered' /\ QueueHolds' /\ Receipt'
    BY <1>1, <2>1 DEF Numbered, QueueHolds, Receipt
  <2>5. Delivered'
    BY <1>1, <2>1 DEF Delivered, Draining
  <2>6. BatchInFront'
    BY <1>1, <2>1, <2>2 DEF BatchInFront
  <2> QED
    BY <2>3, <2>4, <2>5, <2>6 DEF BufferStrong
<1>6. CASE Buffer!Drained
  <2>1. Buffer!TypeOK' /\ Stopped'
    BY <1>1, <1>6 DEF Buffer!Drained, Buffer!TypeOK, Stopped, Draining
  <2>2. Numbered' /\ Delivered' /\ BatchInFront' /\ QueueHolds' /\ Receipt'
    BY <1>1, <1>6 DEF Buffer!Drained, Numbered, Delivered, BatchInFront, QueueHolds, Draining, Receipt
  <2> QED
    BY <2>1, <2>2 DEF BufferStrong
<1> QED
  BY <1>2, <1>3, <1>4, <1>5, <1>6

\* What clearing finds: at most the entry whose admission is unknown.
LEMMA Found ==
    ASSUME NEW S, NEW U, NEW x, U \subseteq {x}
    PROVE  \/ Buffer!SetToSeq(S \cap U) = <<>> /\ U \ Buffer!ToSet(Buffer!SetToSeq(S \cap U)) = U
           \/ Buffer!SetToSeq(S \cap U) = <<x>> /\ U = {x} /\ U \ Buffer!ToSet(Buffer!SetToSeq(S \cap U)) = {}
<1>1. Buffer!ToSet(<<>>) = {} /\ Buffer!ToSet(<<x>>) = {x}
  BY DEF Buffer!ToSet
<1>2. CASE S \cap U = {}
  <2>1. Buffer!SetToSeq(S \cap U) = <<>>
    BY <1>2, SmallSets
  <2> QED
    BY <1>1, <2>1
<1>3. CASE S \cap U # {}
  <2>1. S \cap U = {x} /\ U = {x}
    BY <1>3
  <2>2. Buffer!SetToSeq(S \cap U) = <<x>>
    BY <2>1, SmallSets
  <2> QED
    BY <1>1, <2>1, <2>2
<1> QED
  BY <1>2, <1>3

\* The end of close.
LEMMA ClearKeeps ==
    ASSUME BufferStrong, Buffer!Clear \/ Buffer!ClearFails \/ Buffer!Closed
    PROVE  BufferStrong'
<1> USE BufferAssumption DEF BufferAssumption, Buffer!submitVars, Buffer!counters, Buffer!flags, Buffer!writerVars,
        Buffer!flushVars
<1>0. Sizes
  BY BufferNumbers
<1>1. Buffer!TypeOK /\ Stopped /\ Numbered /\ Delivered /\ BatchInFront /\ QueueHolds /\ Receipt
  BY DEF BufferStrong
<1> USE DEF Sizes
<1>2. close = "clearing" /\ submit = "idle" /\ writer \in {"none", "done"} /\ ~accepting
  BY <1>1 DEF Buffer!Clear, Buffer!ClearFails, Buffer!Closed, Stopped, Draining
<1>3. CASE Buffer!Clear
  <2> DEFINE rest == SubSeq(entries, 1, Buffer!Min2(BatchSize, Len(entries)))
             found == Buffer!SetToSeq(Buffer!ToSet(rest) \cap unknown)
  <2>1. /\ entries' = SubSeq(entries, Len(rest) + 1, Len(entries))
        /\ accepted' = accepted \o found
        /\ unconfirmed' = unconfirmed + Len(found)
        /\ unknown' = unknown \ Buffer!ToSet(found)
        /\ UNCHANGED <<submit, submitted, confirmed, settled, accepting, stopping, broken, failed, writer, batch,
                       source, flush, target, close, faults>>
    BY <1>3 DEF Buffer!Clear, Buffer!Remaining
  <2>2. entries' \in Seq(Buffer!Entries)
    <3>1. rest \in Seq(Buffer!Entries)
      <4>1. Buffer!Min2(BatchSize, Len(entries)) \in Nat /\ Buffer!Min2(BatchSize, Len(entries)) <= Len(entries)
        BY <1>0 DEF Buffer!Min2
      <4> QED
        BY <1>1, <4>1, Parts DEF Buffer!TypeOK
    <3>2. Len(rest) + 1 \in Nat \ {0}
      BY <3>1, LenProperties
    <3>3. entries \in Seq(Buffer!Entries) /\ Len(entries) \in Nat /\ Len(entries) <= Len(entries)
      BY <1>0, <1>1 DEF Buffer!TypeOK
    <3> HIDE DEF rest
    <3>4. SubSeq(entries, Len(rest) + 1, Len(entries)) \in Seq(Buffer!Entries)
      BY <3>2, <3>3, Parts
    <3> QED
      BY <2>1, <3>4
  <2>3. \/ found = <<>> /\ unknown' = unknown
        \/ found = <<submitted>> /\ unknown = {submitted} /\ unknown' = {}
    <3>1. unknown \subseteq {submitted}
      BY <1>1 DEF Numbered
    <3> HIDE DEF rest
    <3> QED
      BY ZenonT(60), <2>1, <3>1, Found
  <2> HIDE DEF found
  <2>4. CASE found = <<>> /\ unknown' = unknown
    <3>1. accepted' = accepted /\ unconfirmed' = unconfirmed
      <4>1. accepted \o <<>> = accepted
        BY <1>1 DEF Buffer!TypeOK
      <4> QED
        BY <1>0, <2>1, <2>4, <4>1
    <3>2. Buffer!TypeOK' /\ Stopped'
      BY ZenonT(60), <1>1, <2>1, <2>2, <2>4, <3>1 DEF Buffer!TypeOK, Stopped, Draining
    <3>3. Numbered' /\ Delivered' /\ BatchInFront' /\ QueueHolds' /\ Receipt'
      BY <1>1, <1>2, <2>1, <2>4, <3>1 DEF Numbered, Delivered, BatchInFront, QueueHolds, Receipt, Draining
    <3> QED
      BY <3>2, <3>3 DEF BufferStrong
  <2>5. CASE found = <<submitted>> /\ unknown = {submitted} /\ unknown' = {}
    <3>1. /\ submitted \in Buffer!Entries
          /\ Len(accepted) < submitted /\ \A i \in 1..Len(accepted) : accepted[i] < submitted
      BY <1>1, <2>5 DEF Numbered, Buffer!TypeOK
    <3>2. accepted' = Append(accepted, submitted) /\ unconfirmed' = unconfirmed + 1
      <4>1. accepted \o <<submitted>> = Append(accepted, submitted)
        BY <1>1, <3>1 DEF Buffer!TypeOK
      <4> QED
        BY <2>1, <2>5, <4>1
    <3>3. /\ accepted' \in Seq(Buffer!Entries) /\ Len(accepted') = Len(accepted) + 1
          /\ \A i \in 1..Len(accepted) : accepted'[i] = accepted[i]
          /\ accepted'[Len(accepted) + 1] = submitted
      BY <1>0, <1>1, <3>1, <3>2, AppendProperties DEF Buffer!TypeOK
    <3>4. Buffer!TypeOK' /\ Stopped'
      <4>1. unconfirmed' \in 0..MaxEntries
        BY <1>0, <1>1, <3>1, <3>2 DEF Delivered, Buffer!TypeOK
      <4> QED
        BY ZenonT(60), <1>1, <2>1, <2>2, <2>5, <3>3, <4>1 DEF Buffer!TypeOK, Stopped, Draining
    <3>5. Numbered'
      <4>1. ASSUME NEW i \in 1..Len(accepted'), NEW j \in 1..Len(accepted'), i < j PROVE accepted'[i] < accepted'[j]
        <5>1. i \in 1..Len(accepted)
          BY <1>0, <3>3, <4>1
        <5>2. CASE j \in 1..Len(accepted)
          BY <1>1, <3>3, <4>1, <5>1, <5>2 DEF Numbered
        <5>3. CASE j = Len(accepted) + 1
          BY <3>1, <3>3, <5>1, <5>3
        <5> QED
          BY <1>0, <3>3, <5>2, <5>3
      <4>2. \A i \in 1..Len(accepted') : accepted'[i] <= submitted
        BY <1>0, <3>1, <3>3
      <4>3. Len(accepted') <= submitted
        BY <1>0, <3>1, <3>3
      <4>4. submit' = "idle" /\ submitted' = submitted /\ unknown' = {}
        BY <1>2, <2>1, <2>5
      <4> QED
        BY <4>1, <4>2, <4>3, <4>4 DEF Numbered
    <3>6. Delivered'
      <4>1. /\ Len(source) <= Len(accepted) /\ \A i \in 1..Len(source) : source[i] = accepted[i]
            /\ confirmed <= Len(source) /\ settled <= confirmed + unconfirmed
            /\ confirmed + unconfirmed <= Len(accepted)
        BY <1>1 DEF Delivered
      <4>2. UNCHANGED <<source, confirmed, settled, writer>> /\ close' = "clearing" /\ writer' # "acking"
        BY <1>2, <2>1
      <4>3. \A i \in 1..Len(source) : source[i] = accepted'[i]
        BY <1>0, <3>3, <4>1
      <4>4. /\ Len(source) <= Len(accepted') /\ settled <= confirmed + unconfirmed'
            /\ confirmed + unconfirmed' <= Len(accepted')
        BY <1>0, <3>2, <3>3, <4>1
      <4> QED
        BY <4>1, <4>2, <4>3, <4>4 DEF Delivered, Draining
    <3>7. BatchInFront' /\ QueueHolds' /\ Receipt'
      BY <1>1, <1>2, <2>1 DEF BatchInFront, QueueHolds, Receipt, Draining
    <3> QED
      BY <3>4, <3>5, <3>6, <3>7 DEF BufferStrong
  <2> QED
    BY <2>3, <2>4, <2>5
<1>4. CASE Buffer!ClearFails
  <2>1. Buffer!TypeOK'
    <3>1. accepting' \in BOOLEAN /\ stopping' \in BOOLEAN /\ broken' \in BOOLEAN
      BY <1>4, Zenon DEF Buffer!ClearFails, Buffer!Break
    <3> QED
      BY <1>1, <1>4, <3>1 DEF Buffer!ClearFails, Buffer!Fault, Buffer!TypeOK
  <2>2. Stopped' /\ Numbered' /\ QueueHolds'
    BY <1>1, <1>2, <1>4 DEF Buffer!ClearFails, Buffer!Break, Stopped, Numbered, QueueHolds, Draining
  <2>3. Delivered' /\ BatchInFront' /\ Receipt'
    BY <1>1, <1>2, <1>4 DEF Buffer!ClearFails, Delivered, BatchInFront, Receipt, Draining
  <2> QED
    BY <2>1, <2>2, <2>3 DEF BufferStrong
<1>5. CASE Buffer!Closed
  <2>1. /\ unconfirmed' = Len(accepted) - confirmed /\ settled' = Len(accepted) /\ close' = "closed" /\ entries = <<>>
        /\ failed' = (failed \/ unconfirmed' > 0)
        /\ UNCHANGED <<entries, submit, submitted, accepted, confirmed, accepting, stopping, broken, unknown, writer,
                       batch, source, flush, target, faults>>
    BY <1>5 DEF Buffer!Closed
  <2>2. failed' \in BOOLEAN
    BY <2>1, Zenon
  <2>3. confirmed <= Len(accepted)
    BY <1>0, <1>1 DEF Delivered
  <2>4. Buffer!TypeOK'
    BY <1>0, <1>1, <2>1, <2>2, <2>3 DEF Buffer!TypeOK
  <2>5. Stopped' /\ Numbered' /\ BatchInFront' /\ QueueHolds' /\ Receipt'
    BY <1>1, <1>2, <2>1 DEF Stopped, Numbered, BatchInFront, QueueHolds, Receipt, Draining
  <2>6. Delivered'
    BY <1>0, <1>1, <1>2, <2>1, <2>3 DEF Delivered, Draining
  <2> QED
    BY <2>4, <2>5, <2>6 DEF BufferStrong
<1> QED
  BY <1>3, <1>4, <1>5

\* Every step of the write buffer preserves the invariant.
LEMMA BufferNext == BufferStrong /\ [Buffer!Next]_Buffer!vars => BufferStrong'
<1> SUFFICES ASSUME BufferStrong, [Buffer!Next]_Buffer!vars PROVE BufferStrong'
  OBVIOUS
<1>1. CASE Buffer!Next
  BY <1>1, SubmitKeeps, WriterKeeps, WriteKeeps, AckKeeps, WaitersKeep, ClearKeeps DEF Buffer!Next
<1>2. CASE UNCHANGED Buffer!vars
  <2>1. UNCHANGED <<entries, submit, submitted, accepted, confirmed, unconfirmed, settled, accepting, stopping, broken,
                    unknown, failed, writer, batch, source, flush, target, close, faults>>
    BY <1>2 DEF Buffer!vars, Buffer!submitVars, Buffer!counters, Buffer!flags, Buffer!writerVars, Buffer!flushVars
  <2>2. Buffer!TypeOK'
    BY <2>1 DEF BufferStrong, Buffer!TypeOK
  <2>3. Stopped' /\ Numbered' /\ Delivered'
    BY <2>1 DEF BufferStrong, Stopped, Numbered, Delivered, Draining
  <2>4. BatchInFront' /\ QueueHolds' /\ Receipt'
    BY <2>1 DEF BufferStrong, BatchInFront, QueueHolds, Receipt, Landed, Draining
  <2> QED
    BY <2>2, <2>3, <2>4 DEF BufferStrong
<1> QED
  BY <1>1, <1>2

\* The stages of the entries stay apart, whatever fails and whenever close or a
\* flush comes.
THEOREM BufferInvariance == Buffer!Spec => []BufferStrong
BY BufferInit, BufferNext, PTL DEF Buffer!Spec

\* The queue, entry by entry, is what QueueIsUnsettled says.
LEMMA QueueFromParts == BufferStrong => Buffer!QueueIsUnsettled
<1> USE DEF Sizes
<1> SUFFICES ASSUME BufferStrong, ~broken, ~stopping, Draining
             PROVE  entries = SubSeq(accepted, settled + 1, Len(accepted))
                              \o (IF submit = "landed" THEN <<submitted>> ELSE <<>>)
  BY DEF Buffer!QueueIsUnsettled, Draining
<1>0. Sizes
  BY BufferNumbers
<1>1. /\ entries \in Seq(Buffer!Entries) /\ accepted \in Seq(Buffer!Entries) /\ settled <= Len(accepted)
  BY <1>0 DEF BufferStrong, Buffer!TypeOK, Buffer!Entries, Delivered
<1>2. /\ Len(entries) = Len(accepted) - settled + Landed
      /\ \A i \in 1..Len(accepted) - settled : entries[i] = accepted[settled + i]
      /\ submit = "landed" => entries[Len(entries)] = submitted
  BY DEF BufferStrong, QueueHolds
<1> DEFINE tail == SubSeq(accepted, settled + 1, Len(accepted))
<1>3. /\ tail \in Seq(Buffer!Entries) /\ Len(tail) = Len(accepted) - settled
      /\ \A i \in 1..Len(accepted) - settled : tail[i] = accepted[settled + i]
  <2>1. settled + 1 \in Nat \ {0} /\ Len(accepted) \in Nat /\ Len(accepted) <= Len(accepted)
    BY <1>0
  <2>2. /\ tail \in Seq(Buffer!Entries)
        /\ Len(tail) = IF settled + 1 <= Len(accepted) THEN Len(accepted) - (settled + 1) + 1 ELSE 0
        /\ \A i \in 1..Len(accepted) - (settled + 1) + 1 : tail[i] = accepted[settled + 1 + i - 1]
    BY <1>1, <2>1, Parts
  <2> HIDE DEF tail
  <2> QED
    BY <1>0, <1>1, <2>2
<1> HIDE DEF tail
<1>4. CASE submit = "landed"
  <2>0. submitted \in Buffer!Entries
    BY <1>0, <1>4 DEF BufferStrong, Buffer!TypeOK, Numbered, Buffer!Entries
  <2>1. Len(entries) = Len(tail) + 1 /\ entries[Len(tail) + 1] = submitted
    BY <1>0, <1>1, <1>2, <1>3, <1>4 DEF Landed
  <2>2. /\ Append(tail, submitted) \in Seq(Buffer!Entries) /\ Len(Append(tail, submitted)) = Len(tail) + 1
        /\ \A i \in 1..Len(tail) : Append(tail, submitted)[i] = tail[i]
        /\ Append(tail, submitted)[Len(tail) + 1] = submitted
    BY <1>3, <2>0, AppendProperties
  <2>3. \A i \in 1..Len(entries) : entries[i] = Append(tail, submitted)[i]
    <3>1. ASSUME NEW i \in 1..Len(tail) PROVE entries[i] = Append(tail, submitted)[i]
      BY <1>2, <1>3, <2>2, <3>1
    <3>2. \A i \in 1..Len(entries) : i \in 1..Len(tail) \/ i = Len(tail) + 1
      BY <1>0, <1>1, <1>3, <2>1
    <3> QED
      BY <2>1, <2>2, <3>1, <3>2
  <2>4. entries = Append(tail, submitted)
    BY <1>1, <2>1, <2>2, <2>3, SeqEqual
  <2>5. Append(tail, submitted) = tail \o <<submitted>>
    BY <1>3, <2>0
  <2> QED
    BY <1>4, <2>4, <2>5 DEF tail
<1>5. CASE submit # "landed"
  <2>1. Len(entries) = Len(tail) /\ \A i \in 1..Len(entries) : entries[i] = tail[i]
    BY <1>0, <1>1, <1>2, <1>3, <1>5 DEF Landed
  <2>2. entries = tail
    BY <1>1, <1>3, <2>1, SeqEqual
  <2>3. tail \o <<>> = tail
    BY <1>3
  <2> QED
    BY <1>5, <2>2, <2>3 DEF tail
<1> QED
  BY <1>4, <1>5

\* What the run checks follows from the stages.
LEMMA BufferFromStages == BufferStrong => BufferSound /\ FlushIsReceipt
<1> USE DEF Sizes
<1> SUFFICES ASSUME BufferStrong PROVE BufferSound /\ FlushIsReceipt
  OBVIOUS
<1>0. Sizes
  BY BufferNumbers
<1>1. /\ DOMAIN source = 1..Len(source) /\ DOMAIN accepted = 1..Len(accepted)
      /\ Len(source) <= Len(accepted) /\ \A i \in 1..Len(source) : source[i] = accepted[i]
  BY <1>0 DEF BufferStrong, Buffer!TypeOK, Delivered
<1>2. Buffer!DeliveredInOrder
  <2>1. \A i, j \in DOMAIN source : i < j => source[i] < source[j]
    BY <1>0, <1>1 DEF BufferStrong, Numbered
  <2>2. Buffer!ToSet(source) \subseteq Buffer!ToSet(accepted)
    BY <1>0, <1>1 DEF Buffer!ToSet
  <2> QED
    BY <2>1, <2>2 DEF Buffer!DeliveredInOrder
<1>3. Buffer!Accounted
  BY <1>0 DEF BufferStrong, Delivered, Buffer!Accounted
<1>4. FlushIsReceipt
  <2>1. target \in Nat /\ (flush = "ok" => target <= Len(source))
    BY DEF BufferStrong, Receipt, Buffer!TypeOK
  <2>2. ASSUME flush = "ok", NEW i \in 1..target PROVE accepted[i] \in Buffer!ToSet(source)
    <3>1. i \in DOMAIN source /\ source[i] = accepted[i]
      BY <1>0, <1>1, <2>1, <2>2
    <3> QED
      BY <3>1 DEF Buffer!ToSet
  <2> QED
    BY <2>2 DEF FlushIsReceipt, Buffer!FlushIsReceipt
<1> QED
  BY <1>2, <1>3, <1>4, QueueFromParts DEF BufferStrong, BufferSound, Buffer!BufferInv

\* Whatever append, read, write or ack fails, with or without effect: the source
\* gets every accepted entry at most once and in the order of admission, every
\* one is counted, and the queue is what is not settled.
THEOREM BufferExact == Buffer!Spec => []BufferSound
BY BufferInvariance, BufferFromStages, PTL

\* A flush that returns without error is a receipt for every entry accepted
\* before it began.
THEOREM FlushesConfirmed == Buffer!Spec => []FlushIsReceipt
BY BufferInvariance, BufferFromStages, PTL

=============================================================================
