--------------------------- MODULE MetadataCache ---------------------------
(***************************************************************************)
(* The in-memory metadata cache and the cached bucket and object           *)
(* repositories around it.                                                 *)
(*                                                                         *)
(* Readers (GetByName, GetByKey) remember the cache-wide revision, look    *)
(* into the cache, on a miss read the database, and publish what they read *)
(* only if the revision is still the same; otherwise they start over.      *)
(* Writers change the database and then evict, which raises the revision.  *)
(* Each critical section of the mutex and each database access is one      *)
(* step; the steps of concurrent callers interleave.                       *)
(***************************************************************************)
EXTENDS Integers, Sequences, FiniteSetsExt, SequencesExt

CONSTANTS
    Buckets,        \* bucket names
    Keys,           \* object keys
    Sizes,          \* estimated sizes of rows, in bytes
    MaxBytes,       \* the cache's budget
    Procs,          \* concurrent callers
    MaxWrites,      \* bound on write calls
    None            \* no row, no entry

ASSUME CacheAssumption ==
    /\ Sizes \subseteq Nat \ {0}
    /\ MaxBytes \in Nat \ {0}
    /\ MaxWrites \in Nat
    /\ None \notin [version : Nat, size : Sizes]
    /\ None \notin Keys

\* Cache keys.
BucketKey(b) == [kind |-> "bucket", bucketName |-> b, objectKey |-> None]
ObjectKey(b, k) == [kind |-> "object", bucketName |-> b, objectKey |-> k]

ObjectsIn(b) == {ObjectKey(b, k) : k \in Keys}
Ids == UNION {{BucketKey(b)} \cup ObjectsIn(b) : b \in Buckets}

\* A row is told apart by the write that produced it.
Row == [version : Nat, size : Sizes]

VARIABLES
    rows,       \* the database: Ids -> Row or None
    entries,    \* MetadataCache.entries: Ids -> Row or None
    lru,        \* MetadataCache.lru, most recently used first
    used,       \* MetadataCache.used
    revision,   \* MetadataCache.revision
    proc,       \* the callers
    writes,     \* write calls so far
    stale,      \* history: rows superseded since their id was last evicted
    acked       \* history: the latest write of each id that has returned

cache == <<entries, lru, used, revision>>
history == <<writes, stale, acked>>
vars == <<rows, cache, proc, history>>

-----------------------------------------------------------------------------

ReaderPCs == {"revision", "lookup", "fetch", "publish", "done"}

\* scope and changed: the ids a writer evicts and those it wrote; floor: the
\* latest write that had returned when a reader started.
Proc ==
    [pc      : ReaderPCs \cup {"idle", "evict"},
     id      : Ids \cup {None},
     rev     : Nat,
     row     : Row \cup {None},
     floor   : Nat,
     scope   : SUBSET Ids,
     changed : SUBSET Ids,
     version : Nat]

Idle ==
    [pc |-> "idle", id |-> None, rev |-> 0, row |-> None, floor |-> 0,
     scope |-> {}, changed |-> {}, version |-> 0]

Go(p, rec) == proc' = [proc EXCEPT ![p] = rec]

\* The foreign key from objects to buckets.
Consistent(t) ==
    \A b \in Buckets : t[BucketKey(b)] = None => \A i \in ObjectsIn(b) : t[i] = None

\* The server starts with an empty cache on whatever the database holds.
Init ==
    /\ rows \in {t \in [Ids -> [version : {0}, size : Sizes] \cup {None}] : Consistent(t)}
    /\ entries = [i \in Ids |-> None]
    /\ lru = <<>>
    /\ used = 0
    /\ revision = 0
    /\ proc = [p \in Procs |-> Idle]
    /\ writes = 0
    /\ stale = [i \in Ids |-> {}]
    /\ acked = [i \in Ids |-> 0]

-----------------------------------------------------------------------------
(* The cache                                                               *)

Cached == {i \in Ids : entries[i] # None}
BytesOf(i) == IF entries[i] = None THEN 0 ELSE entries[i].size
Bytes == [i \in Ids |-> BytesOf(i)]

\* A list without the elements in S.
Without(s, S) ==
    LET rest[n \in 0..Len(s)] ==
            IF n = 0 THEN <<>>
            ELSE IF s[n] \in S THEN rest[n - 1] ELSE Append(rest[n - 1], s[n])
    IN  rest[Len(s)]

\* The order of use once id is pushed to the front.
Touched(id) == <<id>> \o Without(lru, {id})

\* What evictOverBudgetLocked drops when only the first n of order stay.
Dropped(order, id, w, n) ==
    SumFunctionOnSet([Bytes EXCEPT ![id] = w.size], {order[m] : m \in (n + 1)..Len(order)})

\* Mutant: the entry that a new one replaces stays in the accounts.
BytesWith_Replaced(id, w) == used + w.size

\* Mutant: a new entry is not accounted for.
BytesWith_NotAdded(id, w) == used - BytesOf(id)

\* used after the new entry is added and an existing one is taken out.
BytesWith(id, w) == used - BytesOf(id) + w.size

\* What evictOverBudgetLocked keeps: it drops from the back while used is
\* over budget.
Kept(id, w) ==
    LET order == Touched(id)
        fits == {n \in 0..Len(order) :
                    BytesWith(id, w) - Dropped(order, id, w, n) <= MaxBytes}
    IN  SubSeq(order, 1, Max(fits \cup {0}))

\* putLocked.
Put(id, w) ==
    /\ lru' = Kept(id, w)
    /\ entries' = [i \in Ids |->
                    IF i \notin ToSet(Kept(id, w)) THEN None
                    ELSE IF i = id THEN w ELSE entries[i]]
    /\ used' = BytesWith(id, w) - Dropped(Touched(id), id, w, Len(Kept(id, w)))
    /\ UNCHANGED revision

\* Mutant: an eviction that finds nothing to remove leaves the revision.
EvictIds_OnlyIfPresent(S) ==
    /\ revision' = IF \E i \in S : entries[i] # None THEN revision + 1 ELSE revision
    /\ entries' = [i \in Ids |-> IF i \in S THEN None ELSE entries[i]]
    /\ lru' = Without(lru, S)
    /\ used' = used - SumFunctionOnSet(Bytes, S \cap Cached)

\* evictObject, evictObjectsInBucket and evictBucket.
EvictIds(S) ==
    /\ revision' = revision + 1
    /\ entries' = [i \in Ids |-> IF i \in S THEN None ELSE entries[i]]
    /\ lru' = Without(lru, S)
    /\ used' = used - SumFunctionOnSet(Bytes, S \cap Cached)

-----------------------------------------------------------------------------
(* Readers: cachedBucketRepository.GetByName, cachedObjectRepository.GetByKey *)

StartRead(p) ==
    /\ proc[p].pc = "idle"
    /\ \E i \in Ids : Go(p, [Idle EXCEPT !.pc = "revision", !.id = i, !.floor = acked[i]])
    /\ UNCHANGED <<rows, cache, history>>

CurrentRevision(p) ==
    /\ proc[p].pc = "revision"
    /\ Go(p, [proc[p] EXCEPT !.pc = "lookup", !.rev = revision])
    /\ UNCHANGED <<rows, cache, history>>

\* A hit moves the entry to the front and answers with a copy of it.
Hit(p) ==
    LET q == proc[p] IN
    /\ q.pc = "lookup"
    /\ entries[q.id] # None
    /\ lru' = Touched(q.id)
    /\ Go(p, [q EXCEPT !.pc = "done", !.row = entries[q.id]])
    /\ UNCHANGED <<rows, entries, used, revision, history>>

Miss(p) ==
    /\ proc[p].pc = "lookup"
    /\ entries[proc[p].id] = None
    /\ Go(p, [proc[p] EXCEPT !.pc = "fetch"])
    /\ UNCHANGED <<rows, cache, history>>

\* The delegate reads the database; ErrNotFound is returned at once.
Fetch(p) ==
    LET q == proc[p] IN
    /\ q.pc = "fetch"
    /\ Go(p, [q EXCEPT !.pc = IF rows[q.id] = None THEN "done" ELSE "publish",
                       !.row = rows[q.id]])
    /\ UNCHANGED <<rows, cache, history>>

\* Any other error of the delegate ends the call.
FetchFails(p) ==
    /\ proc[p].pc = "fetch"
    /\ Go(p, Idle)
    /\ UNCHANGED <<rows, cache, history>>

\* publishObject, publishBucket: check and insertion are one critical section.
Publish(p) ==
    LET q == proc[p] IN
    /\ q.pc = "publish"
    /\ revision = q.rev
    /\ Put(q.id, q.row)
    /\ Go(p, [q EXCEPT !.pc = "done"])
    /\ UNCHANGED <<rows, history>>

\* Mutant: the loop goes on with the revision it started with.
PublishRefused_SameRevision(p) ==
    /\ proc[p].pc = "publish"
    /\ revision # proc[p].rev
    /\ \/ Go(p, [proc[p] EXCEPT !.pc = "lookup", !.row = None])
       \/ Go(p, Idle)
    /\ UNCHANGED <<rows, cache, history>>

\* Something was evicted meanwhile: start over, unless the caller has left.
PublishRefused(p) ==
    /\ proc[p].pc = "publish"
    /\ revision # proc[p].rev
    /\ \/ Go(p, [proc[p] EXCEPT !.pc = "revision", !.row = None])
       \/ Go(p, Idle)
    /\ UNCHANGED <<rows, cache, history>>

\* The caller takes the answer.
Return(p) ==
    /\ proc[p].pc = "done"
    /\ Go(p, Idle)
    /\ UNCHANGED <<rows, cache, history>>

-----------------------------------------------------------------------------
(* Writers                                                                 *)

\* The delegate commits new rows for the ids in changed; the deferred
\* eviction of scope is next.
Commit(p, t, changed, scope) ==
    /\ proc[p].pc = "idle"
    /\ writes < MaxWrites
    /\ writes' = writes + 1
    /\ rows' = t
    /\ stale' = [i \in Ids |-> IF i \in changed /\ rows[i] # None
                               THEN stale[i] \cup {rows[i]} ELSE stale[i]]
    /\ Go(p, [Idle EXCEPT !.pc = "evict", !.scope = scope, !.changed = changed,
                          !.version = writes + 1])
    /\ UNCHANGED <<cache, acked>>

NewRow == [version : {writes + 1}, size : Sizes]

\* Objects: Create, Replace and Delete, and the multipart completion that is
\* committed elsewhere and followed by InvalidateObjectCache.
WriteObject(p) ==
    \E b \in Buckets, k \in Keys :
        /\ rows[BucketKey(b)] # None
        /\ \E w \in NewRow \cup (IF rows[ObjectKey(b, k)] = None THEN {} ELSE {None}) :
            Commit(p, [rows EXCEPT ![ObjectKey(b, k)] = w],
                   {ObjectKey(b, k)}, {ObjectKey(b, k)})

DeleteAllInBucket(p) ==
    \E b \in Buckets :
        Commit(p, [i \in Ids |-> IF i \in ObjectsIn(b) THEN None ELSE rows[i]],
               ObjectsIn(b), ObjectsIn(b))

\* Buckets: Create and UpdateOwner.
WriteBucket(p) ==
    \E b \in Buckets, w \in NewRow :
        Commit(p, [rows EXCEPT ![BucketKey(b)] = w],
               {BucketKey(b)}, {BucketKey(b)} \cup ObjectsIn(b))

\* Buckets: Delete, which the foreign key refuses while objects remain.
DeleteBucket(p) ==
    \E b \in Buckets :
        /\ rows[BucketKey(b)] # None
        /\ \A i \in ObjectsIn(b) : rows[i] = None
        /\ Commit(p, [rows EXCEPT ![BucketKey(b)] = None],
                  {BucketKey(b)}, {BucketKey(b)} \cup ObjectsIn(b))

\* Mutant: the bucket's own entry is all that its deletion evicts.
DeleteWithObjects_BucketOnly(p) ==
    \E b \in Buckets :
        /\ rows[BucketKey(b)] # None
        /\ Commit(p, [i \in Ids |-> IF i \in {BucketKey(b)} \cup ObjectsIn(b)
                                    THEN None ELSE rows[i]],
                  {BucketKey(b)} \cup ObjectsIn(b), {BucketKey(b)})

\* Buckets: DeleteWithObjects.
DeleteWithObjects(p) ==
    \E b \in Buckets :
        /\ rows[BucketKey(b)] # None
        /\ Commit(p, [i \in Ids |-> IF i \in {BucketKey(b)} \cup ObjectsIn(b)
                                    THEN None ELSE rows[i]],
                  {BucketKey(b)} \cup ObjectsIn(b), {BucketKey(b)} \cup ObjectsIn(b))

\* A write that fails evicts all the same.
FailedWrite(p) ==
    \E b \in Buckets :
        \E scope \in {{ObjectKey(b, k)} : k \in Keys}
                     \cup {ObjectsIn(b), {BucketKey(b)} \cup ObjectsIn(b)} :
            Commit(p, rows, {}, scope)

\* The deferred eviction, after which the write returns.
Evict(p) ==
    LET q == proc[p] IN
    /\ q.pc = "evict"
    /\ EvictIds(q.scope)
    /\ stale' = [i \in Ids |-> IF i \in q.scope THEN {} ELSE stale[i]]
    /\ acked' = [i \in Ids |-> IF i \in q.changed /\ q.version > acked[i]
                               THEN q.version ELSE acked[i]]
    /\ Go(p, Idle)
    /\ UNCHANGED <<rows, writes>>

-----------------------------------------------------------------------------

\* The steps of a call that has begun.
Continue(p) ==
    \/ CurrentRevision(p) \/ Hit(p) \/ Miss(p) \/ Fetch(p) \/ FetchFails(p)
    \/ Publish(p) \/ PublishRefused(p) \/ Return(p) \/ Evict(p)

Begin(p) ==
    \/ StartRead(p) \/ WriteObject(p) \/ DeleteAllInBucket(p) \/ WriteBucket(p)
    \/ DeleteBucket(p) \/ DeleteWithObjects(p) \/ FailedWrite(p)

Next == \E p \in Procs : Begin(p) \/ Continue(p)

Spec == Init /\ [][Next]_vars

\* Every call that has begun is eventually scheduled again.
FairSpec == Spec /\ \A p \in Procs : WF_vars(Continue(p))

-----------------------------------------------------------------------------
(* Properties                                                              *)

\* Variables and callers have the shape the code gives them.
TypeOK ==
    /\ rows \in [Ids -> Row \cup {None}]
    /\ entries \in [Ids -> Row \cup {None}]
    /\ lru \in Seq(Ids)
    /\ used \in Nat
    /\ revision \in Nat
    /\ proc \in [Procs -> Proc]
    /\ writes \in 0..MaxWrites
    /\ stale \in [Ids -> SUBSET Row]
    /\ acked \in [Ids -> 0..MaxWrites]

\* The budget holds whatever is inserted, replaced and evicted, because the
\* accounts are exact: used is the size of the entries, and list and map hold
\* the same keys, each once.
WithinBudget ==
    /\ used = SumFunctionOnSet(Bytes, Cached)
    /\ used <= MaxBytes
    /\ ToSet(lru) = Cached
    /\ IsInjective(lru)

\* Rows a reader may be given: the committed one and those superseded by
\* writers that have not evicted yet.
Visible(i) == stale[i] \cup ({rows[i]} \ {None})

\* Cached entries, and rows that a reader is still allowed to publish, are
\* visible: a miss that overlaps a write never caches the superseded row for
\* good.
Coherent ==
    /\ \A i \in Ids : entries[i] # None => entries[i] \in Visible(i)
    /\ \A p \in Procs :
        proc[p].pc = "publish" /\ proc[p].rev = revision
            => proc[p].row \in Visible(proc[p].id)

\* A read that starts after a write has returned never answers with a row
\* older than that write, be it cached, in flight or deleted since.
ReadsSeeReturnedWrites ==
    \A p \in Procs :
        proc[p].pc = "done" /\ proc[p].row # None => proc[p].row.version >= proc[p].floor

\* A lookup does not retry for ever once writers pause.
ReadsTerminate ==
    \A p \in Procs : proc[p].pc = "revision" ~> proc[p].pc = "idle"

\* The read in progress, as a caller of the repository sees it.
CallOf(q) ==
    IF q.pc \in {"idle", "evict"} THEN [pc |-> "ready", id |-> None, row |-> None]
    ELSE IF q.pc = "done" THEN [pc |-> "done", id |-> q.id, row |-> q.row]
    ELSE [pc |-> "reading", id |-> q.id, row |-> None]

Call == [p \in Procs |-> CallOf(proc[p])]

Promise == INSTANCE Repository WITH
    Rows <- Row, Clients <- Procs, call <- Call

\* The cached repositories keep the promise of Repository.
KeepsPromise == Promise!Spec

=============================================================================
