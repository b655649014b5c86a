------------------------------ MODULE KeyedLock ------------------------------
(***************************************************************************)
(* KeyedAsyncLock (storage/_lock.py) for one key of one process.  The lock *)
(* table keeps an asyncio.Lock per key only while somebody refers to it;   *)
(* deleting it too early would let two tasks hold two different locks for  *)
(* the same key.  The guard is never held across a suspension, so what     *)
(* happens under it is one step.  asyncio.Lock (external) serves its       *)
(* waiters in order; a released lock stays free until the task at the head *)
(* of the queue runs.                                                      *)
(***************************************************************************)
EXTENDS Integers, Sequences, FiniteSets

CONSTANTS
    Tasks,      \* asyncio tasks of the process
    NoTask,     \* no owner
    MaxObjects  \* bound: asyncio.Lock objects created for the key

VARIABLES
    entry,      \* _locks[key]: the id of its lock object, 0 if there is none
    references, \* _references[key], 0 if there is none
    owner,      \* _owners[key]
    created,    \* lock objects created so far
    locked,     \* lock object -> the task that has locked it, or NoTask
    queue,      \* lock object -> the tasks waiting for it
    waits       \* task -> the object it waits for or has locked, 0 if none

vars == <<entry, references, owner, created, locked, queue, waits>>

Objects == 1..MaxObjects

Init ==
    /\ entry = 0
    /\ references = 0
    /\ owner = NoTask
    /\ created = 0
    /\ locked = [o \in Objects |-> NoTask]
    /\ queue = [o \in Objects |-> <<>>]
    /\ waits = [t \in Tasks |-> 0]

\* As DropReference, but the entry goes when its holder goes.
DropEntry ==
    /\ references' = references - 1
    /\ entry' = 0

\* _drop_reference, from the count it finds.
DropReference ==
    /\ references' = references - 1
    /\ entry' = IF references = 1 THEN 0 ELSE entry

\* acquire up to its wait: the task refers to the lock of the key.  The owner
\* itself is refused as recursive.
Request(t) ==
    /\ waits[t] = 0
    /\ owner # t
    /\ \/ entry # 0 /\ UNCHANGED <<entry, created>>
       \/ /\ entry = 0
          /\ created < MaxObjects
          /\ created' = created + 1
          /\ entry' = created + 1
    /\ references' = references + 1
    /\ waits' = [waits EXCEPT ![t] = entry']
    /\ queue' = [queue EXCEPT ![entry'] = Append(@, t)]
    /\ UNCHANGED <<owner, locked>>

\* The lock is granted and the task becomes its owner.
Grant(t) ==
    /\ waits[t] # 0
    /\ LET o == waits[t] IN
       /\ locked[o] = NoTask
       /\ queue[o] # <<>>
       /\ Head(queue[o]) = t
       /\ locked' = [locked EXCEPT ![o] = t]
       /\ queue' = [queue EXCEPT ![o] = Tail(@)]
    /\ owner' = t
    /\ UNCHANGED <<entry, references, created, waits>>

\* A waiting task times out or is cancelled; its place in the queue is removed.
GiveUp(t) ==
    /\ waits[t] # 0
    /\ LET o == waits[t] IN
       /\ locked[o] # t
       /\ \E i \in DOMAIN queue[o] :
            /\ queue[o][i] = t
            /\ queue' = [queue EXCEPT ![o] = SubSeq(@, 1, i - 1) \o SubSeq(@, i + 1, Len(@))]
    /\ waits' = [waits EXCEPT ![t] = 0]
    /\ DropReference
    /\ UNCHANGED <<owner, created, locked>>

\* _release_owned on behalf of task t; without an entry, with an entry nobody
\* has locked, or for another owner, it changes nothing.
Release(t) ==
    /\ entry # 0
    /\ locked[entry] # NoTask
    /\ owner = t
    /\ owner' = NoTask
    /\ locked' = [locked EXCEPT ![entry] = NoTask]
    /\ waits' = [waits EXCEPT ![t] = 0]
    /\ DropReference
    /\ UNCHANGED <<created, queue>>

Next == \E t \in Tasks : Request(t) \/ Grant(t) \/ GiveUp(t) \/ Release(t)

Spec == Init /\ [][Next]_vars

-----------------------------------------------------------------------------
\* Values of the lock tables.
TypeOK ==
    /\ entry \in 0..MaxObjects
    /\ references \in 0..Cardinality(Tasks)
    /\ owner \in Tasks \cup {NoTask}
    /\ created \in 0..MaxObjects
    /\ locked \in [Objects -> Tasks \cup {NoTask}]
    /\ queue \in [Objects -> Seq(Tasks)]
    /\ waits \in [Tasks -> 0..MaxObjects]

Holding == {t \in Tasks : waits[t] # 0 /\ locked[waits[t]] = t}

\* However acquisitions, time-outs and releases interleave, one task at a time
\* holds the key, even when lock objects come and go.
MutualExclusion == Cardinality(Holding) <= 1

\* Everybody who waits or holds does so on the lock object of the table, which
\* is there exactly as long as somebody needs it: idle keys leave nothing behind.
EntryInUse ==
    /\ \A t \in Tasks : waits[t] # 0 => waits[t] = entry
    /\ references = Cardinality({t \in Tasks : waits[t] # 0})
    /\ entry # 0 <=> references > 0

\* The lock tables stay in order whatever times out, is cancelled or released.
KeyedInv == TypeOK /\ MutualExclusion /\ EntryInUse

\* A keyed lock implements the abstract mutual exclusion lock.
M == INSTANCE Mutex WITH holder <- owner
ImplementsMutex == M!Spec

=============================================================================
