------------------------------ MODULE MCStorage ------------------------------
(***************************************************************************)
(* The locks of storage/_lock.py, for two tasks of one process and one of  *)
(* another, and the write side of storage/_write_cache.py.  They share no  *)
(* state, so the run explores them one at a time: the parts that are not   *)
(* the subject stay as they began, where none of their fair steps is       *)
(* possible.                                                               *)
(***************************************************************************)
EXTENDS FileLease, Sequences, TLC

CONSTANTS t1, t2, t3, p, q,
    MaxObjects, FailingReleases,                 \* KeyedLock, MutationLock
    MaxEntries, BatchSize, Capacity, MaxFaults   \* WriteBuffer

ASSUME TasksFinite == IsFiniteSet(Tasks)
ASSUME ObjectsAssumption == MaxObjects \in Nat
ASSUME BufferAssumption ==
    MaxEntries \in Nat /\ BatchSize \in Nat \ {0} /\ Capacity \in Nat /\ MaxFaults \in Nat

Placed == t1 :> p @@ t2 :> p @@ t3 :> q

VARIABLES
    subject,                                                  \* the part that is used
    entry, references, owner, created, locked, queue, waits,  \* KeyedLock
    held, mutationFile, mutationStage, thread,                \* MutationLock
    entries, submit, submitted, accepted, confirmed, unconfirmed, settled, accepting, stopping,
    broken, unknown, failed, writer, batch, source, flush, target, close, faults

Keyed == INSTANCE KeyedLock
Mutation == INSTANCE MutationLock WITH file <- mutationFile, stage <- mutationStage
Buffer == INSTANCE WriteBuffer WITH queue <- entries

keyedVars == <<entry, references, owner, created, locked, queue, waits>>
mutationVars == <<held, mutationFile, mutationStage, thread>>
bufferVars == <<entries, submit, submitted, accepted, confirmed, unconfirmed, settled,
                accepting, stopping, broken, unknown, failed, writer, batch, source, flush,
                target, close, faults>>
allVars == <<subject, vars, keyedVars, mutationVars, bufferVars>>

StorageInit ==
    /\ subject \in {"lease", "keyed", "mutation", "buffer"}
    /\ Init /\ Keyed!Init /\ Mutation!Init /\ Buffer!Init

StorageNext ==
    /\ UNCHANGED subject
    /\ \/ subject = "lease" /\ Next /\ UNCHANGED <<keyedVars, mutationVars, bufferVars>>
       \/ subject = "keyed" /\ Keyed!Next /\ UNCHANGED <<vars, mutationVars, bufferVars>>
       \/ subject = "mutation" /\ Mutation!Next /\ UNCHANGED <<vars, keyedVars, bufferVars>>
       \/ subject = "buffer" /\ Buffer!Next /\ UNCHANGED <<vars, keyedVars, mutationVars>>

StorageSpec ==
    /\ StorageInit /\ [][StorageNext]_allVars
    /\ Fairness /\ Mutation!Fairness /\ Buffer!Fairness

\* The table of keyed locks: one holder, and an entry exactly while it is used.
KeyedLockSound == Keyed!KeyedInv

\* A keyed lock implements the abstract mutual exclusion lock.
KeyedLockIsMutex == Keyed!ImplementsMutex

\* A filesystem mutation lock admits one mutator, which has both its locks.
MutationLockSound == Mutation!MutationInv

\* Whatever a cancelled acquire or release left to a detached cleanup is given
\* back in the end, by leases and by mutation locks.
CleanupsEnd == CleanupEnds /\ Mutation!CancelledGivesBack

\* Buffered entries are delivered once and in order, and accounted for.
BufferSound == Buffer!BufferInv

\* A flush that returns is a receipt: the source has what it waited for.
FlushIsReceipt == Buffer!FlushIsReceipt

\* Closing a buffer ends: admissions, the writer and the queue are drained.
CloseEnds == Buffer!CloseEnds

=============================================================================
