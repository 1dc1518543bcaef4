----------------------------- MODULE UploadLocks -----------------------------
(***************************************************************************)
(* The reference-counted mutexes that serialise the requests on one        *)
(* multipart upload (acquireUploadLock).  A table names the current lock   *)
(* of an upload; the lock counts the requests that hold it or wait for it, *)
(* and the last one takes it out of the table.  The table and the counts   *)
(* are only touched under uploadLocksMu, so each of those sections is a    *)
(* step.  A lock is a heap object: one that nothing refers to may be       *)
(* allocated again.                                                        *)
(*                                                                         *)
(* MultipartUpload.tla takes what is checked here, one mutex per upload    *)
(* ID, as given.                                                           *)
(***************************************************************************)
EXTENDS Naturals, FiniteSets

CONSTANTS
    UploadIDs,      \* multipart uploads
    Callers,        \* requests that work on uploads
    Locks,          \* addresses of uploadLock structs
    NoLock,         \* nil
    Nobody          \* holder of a free mutex

ASSUME LocksAssumption ==
    /\ IsFiniteSet(Callers)
    /\ NoLock \notin Locks
    /\ Nobody \notin Callers

VARIABLES
    table,      \* uploadLocks: the lock of each upload, or nil
    refs,       \* the reference count of each lock
    holder,     \* who has each mutex
    caller      \* where each request is, for which upload, with which lock

lockVars == <<table, refs, holder, caller>>

\* Outside; waiting in lock.mu.Lock(); holding the mutex; past its Unlock.
LockPCs == {"out", "waiting", "holding", "leaving"}

Caller == [pc : LockPCs, upload : UploadIDs, lock : Locks \cup {NoLock}]

LockTypeOK ==
    /\ table \in [UploadIDs -> Locks \cup {NoLock}]
    /\ refs \in [Locks -> Nat]
    /\ holder \in [Locks -> Callers \cup {Nobody}]
    /\ caller \in [Callers -> Caller]

LockInit ==
    /\ table = [u \in UploadIDs |-> NoLock]
    /\ refs = [l \in Locks |-> 0]
    /\ holder = [l \in Locks |-> Nobody]
    /\ caller \in [Callers -> {[pc |-> "out", upload |-> u, lock |-> NoLock] : u \in UploadIDs}]

\* Nothing refers to l.
Unreferenced(l) ==
    /\ \A u \in UploadIDs : table[u] # l
    /\ \A c \in Callers : caller[c].lock # l

\* The first critical section of acquireUploadLock.
Acquire(c, u, l) ==
    /\ caller[c].pc = "out"
    /\ IF table[u] = NoLock
       THEN /\ Unreferenced(l)
            /\ table' = [table EXCEPT ![u] = l]
            /\ refs' = [refs EXCEPT ![l] = 1]
            /\ holder' = [holder EXCEPT ![l] = Nobody]
       ELSE /\ l = table[u]
            /\ refs' = [refs EXCEPT ![l] = @ + 1]
            /\ UNCHANGED <<table, holder>>
    /\ caller' = [caller EXCEPT ![c] = [pc |-> "waiting", upload |-> u, lock |-> l]]

\* lock.mu.Lock()
Lock(c) ==
    LET l == caller[c].lock
    IN  /\ caller[c].pc = "waiting"
        /\ holder[l] = Nobody
        /\ holder' = [holder EXCEPT ![l] = c]
        /\ caller' = [caller EXCEPT ![c].pc = "holding"]
        /\ UNCHANGED <<table, refs>>

\* Mutant: a path on which the returned function is not called in full.
Unlock_Forgotten(c) ==
    /\ caller[c].pc = "holding"
    /\ caller' = [caller EXCEPT ![c].pc = "leaving"]
    /\ UNCHANGED <<table, refs, holder>>

\* The returned function: lock.mu.Unlock() ...
Unlock(c) ==
    /\ caller[c].pc = "holding"
    /\ holder' = [holder EXCEPT ![caller[c].lock] = Nobody]
    /\ caller' = [caller EXCEPT ![c].pc = "leaving"]
    /\ UNCHANGED <<table, refs>>

\* Mutant: the entry goes whoever else waits for the lock.
Release_IgnoresRefs(c) ==
    LET l == caller[c].lock
        u == caller[c].upload
    IN  /\ caller[c].pc = "leaving"
        /\ refs' = [refs EXCEPT ![l] = @ - 1]
        /\ table' = [table EXCEPT ![u] = NoLock]
        /\ caller' = [caller EXCEPT ![c].pc = "out", ![c].lock = NoLock]
        /\ UNCHANGED holder

\* Mutant: the entry goes while one reference is left.
Release_KeepsLast(c) ==
    LET l == caller[c].lock
        u == caller[c].upload
    IN  /\ caller[c].pc = "leaving"
        /\ refs' = [refs EXCEPT ![l] = @ - 1]
        /\ table' = IF refs[l] = 2 /\ table[u] = l THEN [table EXCEPT ![u] = NoLock] ELSE table
        /\ caller' = [caller EXCEPT ![c].pc = "out", ![c].lock = NoLock]
        /\ UNCHANGED holder

\* ... and its critical section: the last one out removes the entry.
Release(c) ==
    LET l == caller[c].lock
        u == caller[c].upload
    IN  /\ caller[c].pc = "leaving"
        /\ refs' = [refs EXCEPT ![l] = @ - 1]
        /\ table' = IF refs'[l] = 0 /\ table[u] = l THEN [table EXCEPT ![u] = NoLock] ELSE table
        /\ caller' = [caller EXCEPT ![c].pc = "out", ![c].lock = NoLock]
        /\ UNCHANGED holder

LockStep(c) == Lock(c) \/ Unlock(c) \/ Release(c)

LockNext ==
    \E c \in Callers : \/ \E u \in UploadIDs, l \in Locks : Acquire(c, u, l)
                       \/ LockStep(c)

\* A request that holds the mutex goes on; sync.Mutex hands itself to a
\* waiter that has waited for a millisecond, so no waiter is passed over for
\* ever.
LockFairness ==
    \A c \in Callers : SF_lockVars(Lock(c)) /\ WF_lockVars(Unlock(c) \/ Release(c))

LockSpec == LockInit /\ [][LockNext]_lockVars

-----------------------------------------------------------------------------
(* Properties                                                              *)

\* Two requests are never at work on one upload at a time, although each
\* looks its mutex up by itself and locks come and go.
OneRequestPerUpload ==
    \A c, d \in Callers :
        /\ caller[c].pc = "holding"
        /\ caller[d].pc = "holding"
        /\ caller[c].upload = caller[d].upload
        => c = d

\* The table has an entry exactly for the uploads that requests work on: it
\* does not grow with the uploads ever seen.
TableIsTight ==
    \A u \in UploadIDs :
        table[u] # NoLock <=> \E c \in Callers : caller[c].pc # "out" /\ caller[c].upload = u

\* Whoever asks for an upload gets it.
UploadIsGranted ==
    \A c \in Callers : caller[c].pc = "waiting" ~> caller[c].pc = "holding"

-----------------------------------------------------------------------------
(* The inductive invariant (UploadLocksProofs.tla)                         *)

\* The requests that hold a reference to l.
Referrers(l) == {c \in Callers : caller[c].lock = l}

\* A request outside has no lock; any other has the one the table names for
\* its upload.
LockIsCurrent ==
    \A c \in Callers :
        IF caller[c].pc = "out" THEN caller[c].lock = NoLock
        ELSE caller[c].lock \in Locks /\ table[caller[c].upload] = caller[c].lock

\* Uploads do not share locks.
TableInjective ==
    \A u, v \in UploadIDs : table[u] # NoLock /\ table[u] = table[v] => u = v

\* A lock in the table is counted exactly, and somebody has it.
RefsAreExact ==
    \A u \in UploadIDs :
        table[u] # NoLock =>
            /\ refs[table[u]] = Cardinality(Referrers(table[u]))
            /\ Referrers(table[u]) # {}

\* The holder of a mutex is the one that is at work with it.
HolderIsHolding ==
    \A c \in Callers : caller[c].pc = "holding" => holder[caller[c].lock] = c

LockInv ==
    /\ LockTypeOK
    /\ LockIsCurrent
    /\ TableInjective
    /\ RefsAreExact
    /\ HolderIsHolding

=============================================================================
