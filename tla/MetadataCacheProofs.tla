------------------------ MODULE MetadataCacheProofs ------------------------
(***************************************************************************)
(* Proofs about MetadataCache, for every budget, every set of rows and any *)
(* number of callers and writes.  The argument: rows become visible when   *)
(* they are committed and stop being visible only in an eviction, which    *)
(* removes them from the cache and, by raising the revision, from every    *)
(* reader that has yet to publish.  The accounts of the cache are exact    *)
(* because every step adds or takes out the sizes of exactly the keys that *)
(* it adds to or takes out of the map.                                     *)
(***************************************************************************)
EXTENDS MetadataCache, TLAPS, FiniteSetTheorems, WellFoundedInduction

-----------------------------------------------------------------------------
(* The inductive invariant                                                 *)

\* The parts of TypeOK that the argument needs.
Types ==
    /\ rows \in [Ids -> Row \cup {None}]
    /\ entries \in [Ids -> Row \cup {None}]
    /\ revision \in Nat
    /\ proc \in [Procs -> Proc]
    /\ writes \in Nat
    /\ stale \in [Ids -> SUBSET Row]
    /\ acked \in [Ids -> Nat]

\* What a caller holds at each point.
CallerOK(q) ==
    /\ q.pc \in ReaderPCs => q.id \in Ids /\ q.floor <= acked[q.id]
    /\ q.pc \in {"lookup", "fetch", "publish"} => q.rev <= revision
    /\ q.pc = "publish" => q.row \in Row
    /\ q.pc = "done" /\ q.row # None => q.row.version >= q.floor
    /\ q.pc = "evict" =>
        /\ q.changed \subseteq q.scope
        /\ q.version <= writes
        /\ \A i \in q.changed : rows[i] # None => rows[i].version >= q.version

CallersOK == \A p \in Procs : CallerOK(proc[p])

\* Visible rows are no older than the writes that have returned.
VisibleFresh ==
    \A i \in Ids :
        /\ acked[i] <= writes
        /\ \A w \in Visible(i) : w.version >= acked[i] /\ w.version <= writes

CInv == Types /\ CallersOK /\ VisibleFresh /\ Coherent

-----------------------------------------------------------------------------
(* Steps of a caller that change neither rows nor cache                    *)

\* The caller's next record q is in order, and publishes only visible rows.
LEMMA CallerStep ==
    ASSUME CInv, NEW p \in Procs, NEW q \in Proc,
           Go(p, q), UNCHANGED <<rows, entries, revision, history>>,
           CallerOK(q),
           q.pc = "publish" /\ q.rev = revision => q.row \in Visible(q.id)
    PROVE  CInv'
<1>1. proc' = [proc EXCEPT ![p] = q]
  BY DEF Go
<1>2. proc'[p] = q /\ \A s \in Procs : s # p => proc'[s] = proc[s]
  BY <1>1 DEF CInv, Types
<1>3. UNCHANGED <<rows, entries, revision, writes, stale, acked>>
  BY DEF history
<1>4. \A i \in Ids : Visible(i)' = Visible(i)
  BY <1>3 DEF Visible
<1>5. Types'
  BY <1>1, <1>3 DEF CInv, Types
<1>6. CallersOK'
  <2> SUFFICES ASSUME NEW s \in Procs PROVE CallerOK(proc[s])'
    BY DEF CallersOK
  <2>1. CallerOK(proc'[s])
    BY <1>2 DEF CInv, CallersOK
  <2> QED BY <1>3, <2>1 DEF CallerOK
<1>7. VisibleFresh'
  BY <1>3, <1>4 DEF CInv, VisibleFresh
<1>8. Coherent'
  <2>1. \A s \in Procs : proc[s].pc = "publish" => proc[s].id \in Ids
    BY DEF CInv, CallersOK, CallerOK, ReaderPCs
  <2>2. q.pc = "publish" => q.id \in Ids
    BY DEF CallerOK, ReaderPCs
  <2> QED BY <1>2, <1>3, <1>4, <2>1, <2>2 DEF CInv, Coherent
<1> QED BY <1>5, <1>6, <1>7, <1>8 DEF CInv

\* An idle caller holds nothing.
LEMMA IdleCaller == Idle \in Proc /\ Idle.pc = "idle" /\ CallerOK(Idle)
<1>1. Idle \in Proc /\ Idle.pc = "idle"
  BY DEF Idle, Proc
<1> QED BY <1>1 DEF CallerOK, ReaderPCs

\* The steps of readers other than a publication.
LEMMA ReaderSteps ==
    ASSUME CInv, NEW p \in Procs,
           \/ StartRead(p) \/ CurrentRevision(p) \/ Hit(p) \/ Miss(p) \/ Fetch(p)
           \/ FetchFails(p) \/ PublishRefused(p) \/ Return(p)
    PROVE  CInv'
<1> USE CacheAssumption
<1> DEFINE q == proc[p]
<1>a. q \in Proc /\ CallerOK(q) /\ Types
  BY DEF CInv, Types, CallersOK
<1>b. UNCHANGED <<rows, entries, revision, history>>
  BY DEF StartRead, CurrentRevision, Hit, Miss, Fetch, FetchFails, PublishRefused,
         Return, cache
<1>c. q.pc \in ReaderPCs => q.id \in Ids /\ q.floor <= acked[q.id]
  BY <1>a DEF CallerOK
<1>1. CASE StartRead(p)
  <2>1. PICK i \in Ids :
          Go(p, [Idle EXCEPT !.pc = "revision", !.id = i, !.floor = acked[i]])
    BY <1>1 DEF StartRead
  <2> DEFINE f == [Idle EXCEPT !.pc = "revision", !.id = i, !.floor = acked[i]]
  <2>2. f \in Proc /\ f.pc = "revision" /\ f.id = i /\ f.floor = acked[i]
    <3>1. acked[i] \in Nat
      BY <1>a DEF Types
    <3> QED BY <3>1 DEF Idle, Proc, ReaderPCs
  <2> HIDE DEF f
  <2>3. f.floor <= acked[i]
    BY <1>a, <2>2 DEF Types
  <2>4. CallerOK(f)
    BY <2>2, <2>3 DEF CallerOK
  <2> QED BY <1>b, <2>1, <2>2, <2>4, CallerStep DEF f
<1>2. CASE CurrentRevision(p)
  <2> DEFINE f == [q EXCEPT !.pc = "lookup", !.rev = revision]
  <2>1. Go(p, f) /\ q.pc \in ReaderPCs
    BY <1>2 DEF CurrentRevision, ReaderPCs
  <2>2. f \in Proc /\ f.pc = "lookup" /\ f.id = q.id /\ f.floor = q.floor
        /\ f.rev = revision
    <3> HIDE DEF q
    <3> QED BY <1>a, ZenonT(60) DEF Proc, ReaderPCs, Types
  <2> HIDE DEF f
  <2>3. CallerOK(f)
    BY <1>a, <1>c, <2>1, <2>2 DEF CallerOK, Types
  <2> QED BY <1>b, <2>1, <2>2, <2>3, CallerStep
<1>3. CASE Hit(p)
  <2> DEFINE f == [q EXCEPT !.pc = "done", !.row = entries[q.id]]
  <2>1. Go(p, f) /\ q.pc \in ReaderPCs /\ entries[q.id] # None
    BY <1>3 DEF Hit, ReaderPCs
  <2>2. entries[q.id] \in Row /\ entries[q.id].version >= acked[q.id]
        /\ entries[q.id].version \in Nat
    BY <1>a, <1>c, <2>1 DEF CInv, Coherent, VisibleFresh, Types, Row
  <2>3. f \in Proc /\ f.pc = "done" /\ f.id = q.id /\ f.floor = q.floor
        /\ f.row = entries[q.id]
    <3> HIDE DEF q
    <3> QED BY <1>a, <2>2 DEF Proc, ReaderPCs
  <2>4. q.floor \in Nat /\ acked[q.id] \in Nat
    BY <1>a, <1>c, <2>1 DEF Proc, Types
  <2>5. entries[q.id].version >= q.floor
    BY <1>c, <2>1, <2>2, <2>4
  <2> HIDE DEF f
  <2>6. CallerOK(f)
    BY <1>c, <2>1, <2>3, <2>5 DEF CallerOK
  <2> QED BY <1>b, <2>1, <2>3, <2>6, CallerStep
<1>4. CASE Miss(p)
  <2> DEFINE f == [q EXCEPT !.pc = "fetch"]
  <2>1. Go(p, f) /\ q.pc \in ReaderPCs /\ q.rev <= revision
    BY <1>4, <1>a DEF Miss, ReaderPCs, CallerOK
  <2>2. f \in Proc /\ f.pc = "fetch" /\ f.id = q.id /\ f.floor = q.floor /\ f.rev = q.rev
    <3> HIDE DEF q
    <3> QED BY <1>a DEF Proc, ReaderPCs
  <2> HIDE DEF f
  <2>3. CallerOK(f)
    BY <1>c, <2>1, <2>2 DEF CallerOK
  <2> QED BY <1>b, <2>1, <2>2, <2>3, CallerStep
<1>5. CASE Fetch(p)
  <2> DEFINE next == IF rows[q.id] = None THEN "done" ELSE "publish"
             f == [q EXCEPT !.pc = next, !.row = rows[q.id]]
  <2>1. Go(p, f) /\ q.pc = "fetch" /\ q.pc \in ReaderPCs
    BY <1>5 DEF Fetch, ReaderPCs
  <2>2. q.id \in Ids /\ rows[q.id] \in Row \cup {None}
    BY <1>a, <1>c, <2>1 DEF Types
  <2>3. next \in ReaderPCs /\ (next = "done" <=> rows[q.id] = None)
        /\ (next = "publish" <=> rows[q.id] # None)
    BY DEF ReaderPCs
  <2> HIDE DEF next
  <2>4. f \in Proc /\ f.pc = next /\ f.id = q.id /\ f.floor = q.floor
        /\ f.row = rows[q.id] /\ f.rev = q.rev
    <3> HIDE DEF q
    <3> QED BY <1>a, <2>2, <2>3 DEF Proc
  <2> HIDE DEF f
  <2>5. CallerOK(f)
    <3>1. q.rev <= revision
      BY <1>a, <2>1 DEF CallerOK
    <3> QED BY <1>c, <2>1, <2>2, <2>3, <2>4, <3>1 DEF CallerOK
  <2>6. f.pc = "publish" => f.row \in Visible(f.id)
    BY <2>3, <2>4 DEF Visible
  <2> QED BY <1>b, <2>1, <2>4, <2>5, <2>6, CallerStep
<1>6. CASE FetchFails(p) \/ Return(p)
  <2>1. Go(p, Idle)
    BY <1>6 DEF FetchFails, Return
  <2> QED BY <1>b, <2>1, IdleCaller, CallerStep
<1>7. CASE PublishRefused(p)
  <2> DEFINE f == [q EXCEPT !.pc = "revision", !.row = None]
  <2>1. (Go(p, f) \/ Go(p, Idle)) /\ q.pc \in ReaderPCs
    BY <1>7 DEF PublishRefused, ReaderPCs
  <2>2. f \in Proc /\ f.pc = "revision" /\ f.id = q.id /\ f.floor = q.floor
    <3> HIDE DEF q
    <3> QED BY <1>a DEF Proc, ReaderPCs
  <2> HIDE DEF f
  <2>3. CallerOK(f)
    BY <1>c, <2>1, <2>2 DEF CallerOK
  <2> QED BY <1>b, <2>1, <2>2, <2>3, IdleCaller, CallerStep
<1> QED BY <1>1, <1>2, <1>3, <1>4, <1>5, <1>6, <1>7

-----------------------------------------------------------------------------
(* Publication, commit and eviction                                        *)

\* A publication caches a visible row.
LEMMA PublishPreserves ==
    ASSUME CInv, NEW p \in Procs, Publish(p)
    PROVE  CInv'
<1> USE CacheAssumption
<1> DEFINE q == proc[p]
           f == [q EXCEPT !.pc = "done"]
<1>1. q \in Proc /\ CallerOK(q) /\ Types /\ q.pc = "publish" /\ q.rev = revision
  BY DEF CInv, Types, CallersOK, Publish
<1>2. q.id \in Ids /\ q.row \in Row /\ q.row \in Visible(q.id) /\ q.floor <= acked[q.id]
  BY <1>1 DEF CallerOK, ReaderPCs, CInv, Coherent
<1>3. f \in Proc /\ f.pc = "done" /\ f.id = q.id /\ f.floor = q.floor /\ f.row = q.row
  <2> HIDE DEF q
  <2> QED BY <1>1 DEF Proc, ReaderPCs
<1>4. proc' = [proc EXCEPT ![p] = f]
      /\ UNCHANGED <<rows, revision, writes, stale, acked>>
  BY DEF Publish, Put, Go, history
<1>5. /\ entries' \in [Ids -> Row \cup {None}]
      /\ \A i \in Ids : entries'[i] \in {None, entries[i]} \/ (i = q.id /\ entries'[i] = q.row)
  <2> DEFINE K == ToSet(Kept(q.id, q.row))
  <2>1. entries' = [i \in Ids |-> IF i \notin K THEN None
                                  ELSE IF i = q.id THEN q.row ELSE entries[i]]
    BY DEF Publish, Put
  <2> HIDE DEF K
  <2> QED BY <1>1, <1>2, <2>1 DEF Types
<1> HIDE DEF f
<1>6. proc'[p] = f /\ \A s \in Procs : s # p => proc'[s] = proc[s]
  BY <1>1, <1>4 DEF Types
<1>7. \A i \in Ids : Visible(i)' = Visible(i)
  BY <1>4 DEF Visible
<1>8. Types'
  BY <1>1, <1>3, <1>4, <1>5 DEF Types
<1>9. CallersOK'
  <2>1. q.row.version >= q.floor
    <3>1. q.row.version \in Nat /\ q.floor \in Nat /\ acked[q.id] \in Nat
      BY <1>1, <1>2 DEF Row, Proc, Types
    <3> QED BY <1>2, <3>1 DEF CInv, VisibleFresh
  <2>2. CallerOK(f)
    BY <1>2, <1>3, <2>1 DEF CallerOK
  <2> SUFFICES ASSUME NEW s \in Procs PROVE CallerOK(proc[s])'
    BY DEF CallersOK
  <2>3. CallerOK(proc'[s])
    BY <1>6, <2>2 DEF CInv, CallersOK
  <2> QED BY <1>4, <2>3 DEF CallerOK
<1>10. VisibleFresh'
  BY <1>4, <1>7 DEF CInv, VisibleFresh
<1>11. Coherent'
  <2>1. \A s \in Procs : proc[s].pc = "publish" => proc[s].id \in Ids
    BY DEF CInv, CallersOK, CallerOK, ReaderPCs
  <2>2. \A i \in Ids : entries'[i] # None => entries'[i] \in Visible(i)
    BY <1>2, <1>5 DEF CInv, Coherent
  <2> QED BY <1>3, <1>4, <1>6, <1>7, <2>1, <2>2 DEF CInv, Coherent
<1> QED BY <1>8, <1>9, <1>10, <1>11 DEF CInv

\* The table t differs from rows only in changed, by rows of the next write,
\* and all that is changed will be evicted.
Writes(t, changed, scope) ==
    /\ t \in [Ids -> Row \cup {None}]
    /\ changed \subseteq scope
    /\ scope \subseteq Ids
    /\ \A i \in Ids \ changed : t[i] = rows[i]
    /\ \A i \in changed : t[i] # None => t[i].version = writes + 1

\* A commit only adds visible rows.
LEMMA CommitPreserves ==
    ASSUME CInv, NEW p \in Procs, NEW t, NEW changed, NEW scope,
           Writes(t, changed, scope), Commit(p, t, changed, scope)
    PROVE  CInv'
<1> USE CacheAssumption
<1>0. /\ t \in [Ids -> Row \cup {None}]
      /\ changed \subseteq scope
      /\ scope \subseteq Ids
      /\ \A i \in Ids \ changed : t[i] = rows[i]
      /\ \A i \in changed : t[i] # None => t[i].version = writes + 1
  BY DEF Writes
<1> DEFINE f == [Idle EXCEPT !.pc = "evict", !.scope = scope, !.changed = changed,
                             !.version = writes + 1]
<1>1. Types /\ writes \in Nat /\ writes' = writes + 1 /\ writes' \in Nat
  BY DEF CInv, Types, Commit
<1>2. /\ rows' = t
      /\ stale' = [i \in Ids |-> IF i \in changed /\ rows[i] # None
                                 THEN stale[i] \cup {rows[i]} ELSE stale[i]]
      /\ proc' = [proc EXCEPT ![p] = f]
      /\ UNCHANGED <<entries, revision, acked>>
  BY DEF Commit, Go, cache
<1>3. f \in Proc /\ f.pc = "evict" /\ f.scope = scope /\ f.changed = changed
      /\ f.version = writes + 1
  BY <1>0, <1>1 DEF Idle, Proc
<1> HIDE DEF f
<1>4. proc'[p] = f /\ \A s \in Procs : s # p => proc'[s] = proc[s]
  BY <1>0, <1>1, <1>2 DEF Types
<1>5. \A i \in Ids : Visible(i) \subseteq Visible(i)'
  BY <1>0, <1>2 DEF Visible
<1>6. \A i \in Ids : \A w \in Visible(i)' :
        w \in Visible(i) \/ (i \in changed /\ w = t[i] /\ w \in Row /\ w.version = writes + 1)
  BY <1>0, <1>2 DEF Visible
<1>7. Types'
  <2>1. stale' \in [Ids -> SUBSET Row]
    BY <1>0, <1>1, <1>2 DEF Types
  <2> QED BY <1>0, <1>1, <1>2, <1>3, <2>1 DEF Types
<1>8. VisibleFresh'
  <2> SUFFICES ASSUME NEW i \in Ids
               PROVE  /\ acked[i] <= writes + 1
                      /\ \A w \in Visible(i)' : w.version >= acked[i]
                                              /\ w.version <= writes + 1
    BY <1>1, <1>2 DEF VisibleFresh
  <2>1. acked[i] \in Nat /\ acked[i] <= writes
    BY <1>1 DEF CInv, VisibleFresh, Types
  <2>2. \A w \in Visible(i) : w.version \in Nat
    BY <1>1 DEF Types, Visible, Row
  <2>3. \A w \in Visible(i) : w.version >= acked[i] /\ w.version <= writes
    BY DEF CInv, VisibleFresh
  <2> QED BY <1>1, <1>6, <2>1, <2>2, <2>3
<1>9. CallersOK'
  <2> SUFFICES ASSUME NEW s \in Procs PROVE CallerOK(proc[s])'
    BY DEF CallersOK
  <2>1. CASE s = p
    <3>1. \A i \in changed : t[i] # None => t[i].version >= writes + 1
      BY <1>0, <1>1
    <3> QED BY <1>0, <1>1, <1>2, <1>3, <1>4, <2>1, <3>1 DEF CallerOK, ReaderPCs
  <2>2. CASE s # p
    <3> DEFINE q == proc[s]
    <3>1. q \in Proc /\ CallerOK(q) /\ proc'[s] = q
      BY <1>1, <1>4, <2>2 DEF CInv, CallersOK, Types
    <3>2. q.version \in Nat /\ q.changed \subseteq Ids
      BY <3>1 DEF Proc
    <3>3. q.pc = "evict" => q.version <= writes /\ q.changed \subseteq q.scope
      BY <3>1 DEF CallerOK
    <3>4. ASSUME q.pc = "evict", NEW i \in q.changed, t[i] # None
          PROVE  t[i].version >= q.version
      <4>1. CASE i \in changed
        BY <1>0, <1>1, <3>2, <3>3, <3>4, <4>1
      <4>2. CASE i \notin changed
        BY <1>0, <3>1, <3>2, <3>4, <4>2 DEF CallerOK
      <4> QED BY <4>1, <4>2
    <3>5. q.pc = "evict" => q.version <= writes + 1
      BY <1>1, <3>2, <3>3
    <3> HIDE DEF q
    <3> QED BY <1>1, <1>2, <3>1, <3>3, <3>4, <3>5 DEF CallerOK
  <2> QED BY <2>1, <2>2
<1>10. Coherent'
  <2>1. \A s \in Procs : proc[s].pc = "publish" => proc[s].id \in Ids
    BY DEF CInv, CallersOK, CallerOK, ReaderPCs
  <2> QED BY <1>2, <1>3, <1>4, <1>5, <2>1 DEF CInv, Coherent
<1> QED BY <1>7, <1>8, <1>9, <1>10 DEF CInv

\* Every call that writes evicts what it changes.
LEMMA WritersEvict ==
    ASSUME CInv, NEW p \in Procs,
           \/ WriteObject(p) \/ DeleteAllInBucket(p) \/ WriteBucket(p)
           \/ DeleteBucket(p) \/ DeleteWithObjects(p) \/ FailedWrite(p)
    PROVE  \E t, C, scope : Writes(t, C, scope) /\ Commit(p, t, C, scope)
<1> USE CacheAssumption
<1>a. rows \in [Ids -> Row \cup {None}] /\ writes \in Nat
  BY DEF CInv, Types
<1>b. ASSUME NEW b \in Buckets
      PROVE  BucketKey(b) \in Ids /\ ObjectsIn(b) \subseteq Ids
             /\ \A k \in Keys : ObjectKey(b, k) \in Ids
  BY DEF Ids, ObjectsIn
<1>c. \A w \in NewRow : w \in Row /\ w.version = writes + 1
  BY <1>a DEF NewRow, Row
<1>1. ASSUME NEW i \in Ids, NEW w \in Row \cup {None}, NEW scope \in SUBSET Ids,
             i \in scope, w # None => w.version = writes + 1,
             Commit(p, [rows EXCEPT ![i] = w], {i}, scope)
      PROVE  \E t, C, D : Writes(t, C, D) /\ Commit(p, t, C, D)
  <2> DEFINE t == [rows EXCEPT ![i] = w]
             C == {i}
  <2>1. t \in [Ids -> Row \cup {None}] /\ C \in SUBSET Ids /\ C \subseteq scope
        /\ (\A j \in Ids \ C : t[j] = rows[j])
        /\ (\A j \in C : t[j] # None => t[j].version = writes + 1)
    BY <1>1, <1>a
  <2>2. Commit(p, t, C, scope)
    BY <1>1
  <2> HIDE DEF t, C
  <2> QED BY <2>1, <2>2 DEF Writes
<1>2. ASSUME NEW C \in SUBSET Ids,
             Commit(p, [j \in Ids |-> IF j \in C THEN None ELSE rows[j]], C, C)
      PROVE  \E t, E, D : Writes(t, E, D) /\ Commit(p, t, E, D)
  <2> DEFINE t == [j \in Ids |-> IF j \in C THEN None ELSE rows[j]]
  <2>1. t \in [Ids -> Row \cup {None}]
        /\ (\A j \in Ids \ C : t[j] = rows[j]) /\ (\A j \in C : t[j] = None)
    BY <1>a
  <2>2. Commit(p, t, C, C)
    BY <1>2
  <2> HIDE DEF t
  <2> QED BY <2>1, <2>2 DEF Writes
<1>3. CASE WriteObject(p)
  <2>1. PICK b \in Buckets, k \in Keys, w \in NewRow \cup {None} :
          Commit(p, [rows EXCEPT ![ObjectKey(b, k)] = w],
                 {ObjectKey(b, k)}, {ObjectKey(b, k)})
    BY <1>3 DEF WriteObject
  <2> DEFINE i == ObjectKey(b, k)
  <2>2. i \in Ids /\ {i} \in SUBSET Ids
    BY <1>b
  <2> HIDE DEF i
  <2> QED BY <1>1, <1>c, <2>1, <2>2 DEF i
<1>4. CASE DeleteAllInBucket(p)
  BY <1>2, <1>4, <1>b DEF DeleteAllInBucket
<1>5. CASE WriteBucket(p) \/ DeleteBucket(p)
  <2>1. PICK b \in Buckets, w \in NewRow \cup {None} :
          Commit(p, [rows EXCEPT ![BucketKey(b)] = w],
                 {BucketKey(b)}, {BucketKey(b)} \cup ObjectsIn(b))
    BY <1>5 DEF WriteBucket, DeleteBucket
  <2> DEFINE i == BucketKey(b)
             D == {i} \cup ObjectsIn(b)
  <2>2. i \in Ids /\ D \in SUBSET Ids /\ i \in D
    BY <1>b
  <2>3. Commit(p, [rows EXCEPT ![i] = w], {i}, D)
    BY <2>1
  <2> HIDE DEF i, D
  <2> QED BY <1>1, <1>c, <2>2, <2>3
<1>6. CASE DeleteWithObjects(p)
  <2>1. PICK b \in Buckets :
          Commit(p, [i \in Ids |-> IF i \in {BucketKey(b)} \cup ObjectsIn(b)
                                   THEN None ELSE rows[i]],
                 {BucketKey(b)} \cup ObjectsIn(b), {BucketKey(b)} \cup ObjectsIn(b))
    BY <1>6 DEF DeleteWithObjects
  <2> DEFINE D == {BucketKey(b)} \cup ObjectsIn(b)
  <2>2. D \in SUBSET Ids
    BY <1>b
  <2>3. Commit(p, [i \in Ids |-> IF i \in D THEN None ELSE rows[i]], D, D)
    BY <2>1
  <2> HIDE DEF D
  <2> QED BY <1>2, <2>2, <2>3
<1>7. CASE FailedWrite(p)
  <2>1. PICK b \in Buckets : \E scope \in {{ObjectKey(b, k)} : k \in Keys}
                     \cup {ObjectsIn(b), {BucketKey(b)} \cup ObjectsIn(b)} :
            Commit(p, rows, {}, scope)
    BY <1>7 DEF FailedWrite
  <2>2. PICK scope \in SUBSET Ids : Commit(p, rows, {}, scope)
    BY <1>b, <2>1
  <2> DEFINE C == {}
  <2>3. C \in SUBSET Ids /\ (\A j : j \notin C) /\ C \subseteq scope
        /\ Commit(p, rows, C, scope)
    BY <2>2
  <2> HIDE DEF C
  <2> QED BY <1>a, <2>3 DEF Writes
<1> QED BY <1>3, <1>4, <1>5, <1>6, <1>7

\* The calls that write.
LEMMA WritersPreserve ==
    ASSUME CInv, NEW p \in Procs,
           \/ WriteObject(p) \/ DeleteAllInBucket(p) \/ WriteBucket(p)
           \/ DeleteBucket(p) \/ DeleteWithObjects(p) \/ FailedWrite(p)
    PROVE  CInv'
BY WritersEvict, CommitPreserves

\* An eviction takes the superseded rows of its scope from the cache and, by
\* the revision, from every reader in flight.
LEMMA EvictPreserves ==
    ASSUME CInv, NEW p \in Procs, Evict(p)
    PROVE  CInv'
<1> USE CacheAssumption
<1> DEFINE q == proc[p]
<1>1. q \in Proc /\ CallerOK(q) /\ Types /\ q.pc = "evict"
  BY DEF CInv, Types, CallersOK, Evict
<1>2. q.changed \subseteq q.scope /\ q.scope \subseteq Ids /\ q.version \in Nat
      /\ q.version <= writes
      /\ \A i \in q.changed : rows[i] # None => rows[i].version >= q.version
  BY <1>1 DEF Proc, CallerOK
<1>3. /\ revision' = revision + 1
      /\ entries' = [i \in Ids |-> IF i \in q.scope THEN None ELSE entries[i]]
      /\ stale' = [i \in Ids |-> IF i \in q.scope THEN {} ELSE stale[i]]
      /\ acked' = [i \in Ids |-> IF i \in q.changed /\ q.version > acked[i]
                                 THEN q.version ELSE acked[i]]
      /\ proc' = [proc EXCEPT ![p] = Idle]
      /\ UNCHANGED <<rows, writes>>
  BY DEF Evict, EvictIds, Go
<1>4. proc'[p] = Idle /\ \A s \in Procs : s # p => proc'[s] = proc[s]
  BY <1>1, <1>3 DEF Types
<1> HIDE DEF q
<1>5. Types'
  <2>1. acked' \in [Ids -> Nat] /\ revision' \in Nat
    BY <1>1, <1>2, <1>3 DEF Types
  <2>2. stale' \in [Ids -> SUBSET Row] /\ entries' \in [Ids -> Row \cup {None}]
    BY <1>1, <1>3 DEF Types
  <2>3. proc' \in [Procs -> Proc]
    BY <1>1, <1>3, IdleCaller DEF Types
  <2> QED BY <1>1, <1>3, <2>1, <2>2, <2>3 DEF Types
<1>6. \A i \in Ids : /\ Visible(i)' \subseteq Visible(i)
                     /\ i \notin q.scope => Visible(i)' = Visible(i)
                     /\ i \in q.scope => Visible(i)' = {rows[i]} \ {None}
  BY <1>3 DEF Visible
<1>7. VisibleFresh'
  <2> SUFFICES ASSUME NEW i \in Ids
               PROVE  /\ acked'[i] <= writes
                      /\ \A w \in Visible(i)' : w.version >= acked'[i] /\ w.version <= writes
    BY <1>3 DEF VisibleFresh
  <2>1. acked[i] <= writes /\ \A w \in Visible(i) : w.version >= acked[i] /\ w.version <= writes
    BY DEF CInv, VisibleFresh
  <2>2. CASE i \in q.changed /\ q.version > acked[i]
    <3>1. acked'[i] = q.version /\ Visible(i)' = {rows[i]} \ {None}
      BY <1>2, <1>3, <1>6, <2>2
    <3> QED BY <1>2, <1>6, <2>1, <2>2, <3>1
  <2>3. CASE ~(i \in q.changed /\ q.version > acked[i])
    BY <1>3, <1>6, <2>1, <2>3
  <2> QED BY <2>2, <2>3
<1>8. \A i \in Ids : acked[i] \in Nat /\ acked'[i] \in Nat /\ acked[i] <= acked'[i]
  BY <1>1, <1>2, <1>3 DEF Types
<1>9. CallersOK'
  <2> SUFFICES ASSUME NEW s \in Procs, s # p PROVE CallerOK(proc[s])'
    <3>1. CallerOK(proc[p])'
      BY <1>4, IdleCaller DEF CallerOK, ReaderPCs
    <3> QED BY <3>1 DEF CallersOK
  <2> DEFINE g == proc[s]
  <2>1. g \in Proc /\ CallerOK(g) /\ proc'[s] = g
    BY <1>1, <1>4 DEF CInv, CallersOK, Types
  <2>2. g.rev \in Nat /\ g.floor \in Nat /\ revision \in Nat
    BY <1>1, <2>1 DEF Proc, Types
  <2> HIDE DEF g
  <2>3. g.pc \in ReaderPCs => g.id \in Ids /\ g.floor <= acked'[g.id]
    BY <1>8, <2>1, <2>2 DEF CallerOK
  <2>4. g.pc \in {"lookup", "fetch", "publish"} => g.rev <= revision'
    BY <1>3, <2>1, <2>2 DEF CallerOK
  <2> QED BY <1>3, <2>1, <2>3, <2>4 DEF CallerOK
<1>10. Coherent'
  <2>1. \A i \in Ids : entries'[i] # None => entries'[i] \in Visible(i)'
    BY <1>3, <1>6 DEF CInv, Coherent
  <2>2. ASSUME NEW s \in Procs, proc'[s].pc = "publish" PROVE proc'[s].rev # revision'
    <3>1. s # p /\ proc'[s] = proc[s]
      BY <1>4, <2>2, IdleCaller
    <3>2. proc[s] \in Proc /\ proc[s].rev <= revision
      BY <1>1, <2>2, <3>1 DEF CInv, CallersOK, CallerOK, Types
    <3> QED BY <1>1, <1>3, <3>1, <3>2 DEF Proc, Types
  <2> QED BY <2>1, <2>2 DEF Coherent
<1> QED BY <1>5, <1>7, <1>9, <1>10 DEF CInv

-----------------------------------------------------------------------------
(* The theorems                                                            *)

\* An empty cache is coherent.
LEMMA InitEstablishes == Init => CInv
<1> USE CacheAssumption
<1> SUFFICES ASSUME Init PROVE CInv
  OBVIOUS
<1>1. Types
  BY IdleCaller DEF Init, Types, Row
<1>2. \A p \in Procs : proc[p] = Idle
  BY DEF Init
<1>3. CallersOK
  BY <1>2, IdleCaller DEF CallersOK
<1>4. \A i \in Ids : rows[i] # None => rows[i].version = 0
  BY DEF Init
<1>5. \A i \in Ids : \A w \in Visible(i) : w.version = 0
  BY <1>4 DEF Init, Visible
<1>6. VisibleFresh
  BY <1>5 DEF Init, VisibleFresh
<1>7. Coherent
  BY <1>2, IdleCaller DEF Init, Coherent
<1> QED BY <1>1, <1>3, <1>6, <1>7 DEF CInv

\* Every step preserves the invariant.
LEMMA NextPreserves == CInv /\ [Next]_vars => CInv'
<1> SUFFICES ASSUME CInv, [Next]_vars PROVE CInv'
  OBVIOUS
<1>1. CASE Next
  BY <1>1, ReaderSteps, PublishPreserves, WritersPreserve, EvictPreserves
     DEF Next, Begin, Continue
<1>2. CASE UNCHANGED vars
  <2>1. UNCHANGED <<rows, entries, revision, proc, writes, stale, acked>>
    BY <1>2 DEF vars, cache, history
  <2>2. \A i \in Ids : Visible(i)' = Visible(i)
    BY <2>1 DEF Visible
  <2>3. Types' /\ VisibleFresh'
    BY <2>1, <2>2 DEF CInv, Types, VisibleFresh
  <2>4. CallersOK'
    BY <2>1 DEF CInv, CallersOK, CallerOK
  <2>5. Coherent'
    <3>1. \A s \in Procs : proc[s].pc = "publish" => proc[s].id \in Ids
      BY DEF CInv, CallersOK, CallerOK, ReaderPCs
    <3> QED BY <2>1, <2>2, <3>1 DEF CInv, Coherent
  <2> QED BY <2>3, <2>4, <2>5 DEF CInv
<1> QED BY <1>1, <1>2

\* The invariant holds for any number of callers, writes and evictions.
THEOREM CacheInvariance == Spec => []CInv
BY InitEstablishes, NextPreserves, PTL DEF Spec

\* No interleaving of misses, writes and evictions leaves a superseded row in
\* the cache, or in a reader that may still publish it, after the eviction.
THEOREM CacheCoherent == Spec => []Coherent
<1>1. CInv => Coherent
  BY DEF CInv
<1> QED BY <1>1, CacheInvariance, PTL

\* A GetByKey or GetByName that begins after a write returned answers with
\* that write or a later one.
THEOREM ReturnedWritesAreSeen == Spec => []ReadsSeeReturnedWrites
<1>1. CInv => ReadsSeeReturnedWrites
  BY DEF CInv, CallersOK, CallerOK, ReadsSeeReturnedWrites
<1> QED BY <1>1, CacheInvariance, PTL

-----------------------------------------------------------------------------
(* The cached repositories implement Repository                            *)

\* What the step of one caller does to the reads in progress.
LEMMA CallUpdate ==
    ASSUME Types, NEW p \in Procs, NEW q, proc' = [proc EXCEPT ![p] = q]
    PROVE  Call' = [Call EXCEPT ![p] = CallOf(q)] /\ Call[p] = CallOf(proc[p])
<1>1. proc'[p] = q /\ \A s \in Procs : s # p => proc'[s] = proc[s]
  BY DEF Types
<1>2. Call' = [s \in Procs |-> CallOf(proc'[s])]
  BY DEF Call, CallOf
<1>3. Call = [s \in Procs |-> CallOf(proc[s])]
  BY DEF Call
<1> HIDE DEF Call
<1> QED BY <1>1, <1>2, <1>3

\* Readers ask, are answered with visible rows, and leave.
LEMMA ReadersImplement ==
    ASSUME CInv, NEW p \in Procs,
           \/ StartRead(p) \/ CurrentRevision(p) \/ Hit(p) \/ Miss(p) \/ Fetch(p)
           \/ FetchFails(p) \/ Publish(p) \/ PublishRefused(p) \/ Return(p)
    PROVE  \/ Promise!Ask(p) \/ Promise!Reply(p) \/ Promise!Leave(p)
           \/ UNCHANGED Promise!vars
<1> USE CacheAssumption
<1> DEFINE q == proc[p]
<1>a. q \in Proc /\ CallerOK(q) /\ Types
  BY DEF CInv, Types, CallersOK
<1>b. UNCHANGED <<rows, stale>>
  BY DEF StartRead, CurrentRevision, Hit, Miss, Fetch, FetchFails, Publish,
         PublishRefused, Return, history
<1>c. q.pc \in ReaderPCs => q.id \in Ids
  BY <1>a DEF CallerOK
<1>d. Promise!Visible(q.id) = Visible(q.id)
  BY DEF Promise!Visible, Visible
<1>1. ASSUME NEW f \in Proc, Go(p, f), CallOf(f) = CallOf(q)
      PROVE  UNCHANGED Promise!vars
  <2>1. Call' = [Call EXCEPT ![p] = CallOf(f)] /\ Call[p] = CallOf(q)
    BY <1>1, <1>a, CallUpdate DEF Go
  <2>2. Call' = Call
    BY <1>1, <2>1 DEF Call
  <2> QED BY <1>b, <2>2 DEF Promise!vars
<1>2. ASSUME NEW f \in Proc, Go(p, f), q.pc \in {"lookup", "fetch", "publish"},
             f.pc = "done", f.id = q.id,
             f.row \in Visible(q.id) \/ (f.row = None /\ rows[q.id] = None)
      PROVE  Promise!Reply(p)
  <2>1. Call' = [Call EXCEPT ![p] = CallOf(f)] /\ Call[p] = CallOf(q)
    BY <1>2, <1>a, CallUpdate DEF Go
  <2>2. CallOf(f) = [pc |-> "done", id |-> q.id, row |-> f.row]
    BY <1>2 DEF CallOf
  <2>3. Call[p].pc = "reading" /\ Call[p].id = q.id
    BY <1>2, <2>1 DEF CallOf
  <2> HIDE DEF q
  <2> QED BY <1>2, <1>b, <1>d, <2>1, <2>2, <2>3 DEF Promise!Reply
<1>3. ASSUME Go(p, Idle), q.pc \in ReaderPCs
      PROVE  Promise!Leave(p)
  <2>1. Call' = [Call EXCEPT ![p] = CallOf(Idle)] /\ Call[p] = CallOf(q)
    BY <1>3, <1>a, CallUpdate DEF Go
  <2>2. CallOf(Idle) = Promise!Ready
    BY IdleCaller DEF CallOf, Promise!Ready
  <2>3. Call[p].pc # "ready"
    BY <1>3, <2>1 DEF CallOf, ReaderPCs
  <2>4. Call[p] # Promise!Ready
    BY <2>3 DEF Promise!Ready
  <2> QED BY <1>b, <2>1, <2>2, <2>4 DEF Promise!Leave
<1>4. CASE StartRead(p)
  <2>1. PICK i \in Ids :
          Go(p, [Idle EXCEPT !.pc = "revision", !.id = i, !.floor = acked[i]])
    BY <1>4 DEF StartRead
  <2> DEFINE f == [Idle EXCEPT !.pc = "revision", !.id = i, !.floor = acked[i]]
  <2>2. f.pc = "revision" /\ f.id = i
    BY DEF Idle
  <2>3. Go(p, f)
    BY <2>1
  <2> HIDE DEF f
  <2>4. Call' = [Call EXCEPT ![p] = CallOf(f)] /\ Call[p] = CallOf(q)
    BY <1>a, <2>3, CallUpdate DEF Go
  <2>5. CallOf(f) = [pc |-> "reading", id |-> i, row |-> None]
    BY <2>2 DEF CallOf
  <2>6. CallOf(q) = Promise!Ready
    BY <1>4 DEF StartRead, CallOf, Promise!Ready
  <2> QED BY <1>b, <2>4, <2>5, <2>6 DEF Promise!Ask
<1>5. CASE CurrentRevision(p) \/ Miss(p)
  <2>1. PICK f \in {[q EXCEPT !.pc = "lookup", !.rev = revision], [q EXCEPT !.pc = "fetch"]} :
          Go(p, f) /\ q.pc \in {"revision", "lookup"}
    BY <1>5 DEF CurrentRevision, Miss
  <2>2. f \in Proc /\ f.pc \in {"lookup", "fetch"} /\ f.id = q.id
    <3> HIDE DEF q
    <3> QED BY <1>a, ZenonT(60) DEF Proc, ReaderPCs, Types
  <2>3. CallOf(f) = CallOf(q)
    BY <2>1, <2>2 DEF CallOf
  <2> QED BY <1>1, <2>1, <2>2, <2>3
<1>6. CASE Hit(p)
  <2> DEFINE f == [q EXCEPT !.pc = "done", !.row = entries[q.id]]
  <2>1. Go(p, f) /\ q.pc = "lookup" /\ entries[q.id] # None
    BY <1>6 DEF Hit
  <2>2. q.id \in Ids /\ entries[q.id] \in Row /\ entries[q.id] \in Visible(q.id)
    BY <1>a, <1>c, <2>1 DEF CInv, Coherent, Types, ReaderPCs
  <2>3. f \in Proc /\ f.pc = "done" /\ f.id = q.id /\ f.row = entries[q.id]
    <3> HIDE DEF q
    <3> QED BY <1>a, <2>2 DEF Proc, ReaderPCs
  <2> HIDE DEF f
  <2> QED BY <1>2, <2>1, <2>2, <2>3
<1>7. CASE Fetch(p)
  <2> DEFINE next == IF rows[q.id] = None THEN "done" ELSE "publish"
             f == [q EXCEPT !.pc = next, !.row = rows[q.id]]
  <2>1. Go(p, f) /\ q.pc = "fetch" /\ q.pc \in ReaderPCs
    BY <1>7 DEF Fetch, ReaderPCs
  <2>2. rows[q.id] \in Row \cup {None}
    BY <1>a, <1>c, <2>1 DEF Types
  <2>3. next \in ReaderPCs /\ (next = "done" <=> rows[q.id] = None)
        /\ (next = "publish" <=> rows[q.id] # None)
    BY DEF ReaderPCs
  <2> HIDE DEF next
  <2>4. f \in Proc /\ f.pc = next /\ f.id = q.id /\ f.row = rows[q.id]
    <3> HIDE DEF q
    <3> QED BY <1>a, <2>2, <2>3 DEF Proc
  <2> HIDE DEF f
  <2>5. CASE rows[q.id] = None
    BY <1>2, <2>1, <2>3, <2>4, <2>5
  <2>6. CASE rows[q.id] # None
    <3>1. CallOf(f) = CallOf(q)
      BY <2>1, <2>3, <2>4, <2>6 DEF CallOf
    <3> QED BY <1>1, <2>1, <2>4, <3>1
  <2> QED BY <2>5, <2>6
<1>8. CASE Publish(p)
  <2> DEFINE f == [q EXCEPT !.pc = "done"]
  <2>1. Go(p, f) /\ q.pc = "publish" /\ q.rev = revision
    BY <1>8 DEF Publish
  <2>2. q.row \in Visible(q.id)
    BY <2>1 DEF CInv, Coherent
  <2>3. f \in Proc /\ f.pc = "done" /\ f.id = q.id /\ f.row = q.row
    <3> HIDE DEF q
    <3> QED BY <1>a DEF Proc, ReaderPCs
  <2> HIDE DEF f
  <2> QED BY <1>2, <2>1, <2>2, <2>3
<1>9. CASE FetchFails(p) \/ Return(p)
  BY <1>3, <1>9 DEF FetchFails, Return, ReaderPCs
<1>10. CASE PublishRefused(p)
  <2> DEFINE f == [q EXCEPT !.pc = "revision", !.row = None]
  <2>1. (Go(p, f) \/ Go(p, Idle)) /\ q.pc = "publish"
    BY <1>10 DEF PublishRefused
  <2>2. f \in Proc /\ f.pc = "revision" /\ f.id = q.id
    <3> HIDE DEF q
    <3> QED BY <1>a DEF Proc, ReaderPCs
  <2> HIDE DEF f
  <2>3. CallOf(f) = CallOf(q)
    BY <2>1, <2>2 DEF CallOf
  <2> QED BY <1>1, <1>3, <2>1, <2>2, <2>3 DEF ReaderPCs
<1> QED BY <1>4, <1>5, <1>6, <1>7, <1>8, <1>9, <1>10

\* Writers commit and evict.
LEMMA WritersImplement ==
    ASSUME CInv, NEW p \in Procs,
           \/ WriteObject(p) \/ DeleteAllInBucket(p) \/ WriteBucket(p)
           \/ DeleteBucket(p) \/ DeleteWithObjects(p) \/ FailedWrite(p) \/ Evict(p)
    PROVE  Promise!Commit \/ Promise!Evict
<1> USE CacheAssumption
<1>1. Types
  BY DEF CInv
<1>2. CASE Evict(p)
  <2>1. /\ stale' = [i \in Ids |-> IF i \in proc[p].scope THEN {} ELSE stale[i]]
        /\ proc' = [proc EXCEPT ![p] = Idle]
        /\ rows' = rows /\ proc[p].pc = "evict"
    BY <1>2 DEF Evict, Go
  <2>2. Call' = [Call EXCEPT ![p] = CallOf(Idle)] /\ Call[p] = CallOf(proc[p])
    BY <1>1, <2>1, CallUpdate
  <2>3. CallOf(Idle) = CallOf(proc[p])
    BY <2>1, IdleCaller DEF CallOf
  <2>4. Call' = Call
    BY <2>2, <2>3 DEF Call
  <2>5. stale' \in [Ids -> SUBSET Row] /\ \A i \in Ids : stale'[i] \in {stale[i], {}}
    BY <1>1, <2>1 DEF Types
  <2> QED BY <2>1, <2>4, <2>5 DEF Promise!Evict
<1>3. CASE ~Evict(p)
  <2>1. PICK t, C, scope : Writes(t, C, scope) /\ Commit(p, t, C, scope)
    BY <1>3, WritersEvict
  <2> DEFINE f == [Idle EXCEPT !.pc = "evict", !.scope = scope, !.changed = C,
                               !.version = writes + 1]
  <2>2. /\ rows' = t
        /\ stale' = [i \in Ids |-> IF i \in C /\ rows[i] # None
                                   THEN stale[i] \cup {rows[i]} ELSE stale[i]]
        /\ proc' = [proc EXCEPT ![p] = f] /\ proc[p].pc = "idle"
    BY <2>1 DEF Commit, Go
  <2>3. f.pc = "evict"
    BY DEF Idle
  <2> HIDE DEF f
  <2>4. Call' = [Call EXCEPT ![p] = CallOf(f)] /\ Call[p] = CallOf(proc[p])
    BY <1>1, <2>2, CallUpdate
  <2>5. CallOf(f) = CallOf(proc[p])
    BY <2>2, <2>3 DEF CallOf
  <2>6. Call' = Call
    BY <2>4, <2>5 DEF Call
  <2>7. \A i \in Ids : rows[i] # None => rows[i].version \in Nat /\ rows[i].version <= writes
    BY <1>1 DEF CInv, VisibleFresh, Visible, Types, Row
  <2>8. \A i \in Ids : rows[i] # None => (t[i] # rows[i] <=> i \in C)
    BY <1>1, <2>1, <2>7 DEF Writes, Types
  <2>9. stale' = [i \in Ids |-> IF rows[i] # None /\ rows'[i] # rows[i]
                                THEN stale[i] \cup {rows[i]} ELSE stale[i]]
    BY <2>2, <2>8
  <2>10. rows' \in [Ids -> Row \cup {None}]
    BY <2>1, <2>2 DEF Writes
  <2> QED BY <2>6, <2>9, <2>10 DEF Promise!Commit
<1> QED BY <1>2, <1>3

\* The metadata cache keeps the promise that the object handlers rely on.
THEOREM CacheKeepsPromise == Spec => KeepsPromise
<1>1. Init => Promise!Init
  <2> SUFFICES ASSUME Init PROVE Promise!Init
    OBVIOUS
  <2>1. rows \in [Ids -> Row \cup {None}] /\ stale = [i \in Ids |-> {}]
    BY InitEstablishes DEF CInv, Types, Init
  <2>2. Call = [c \in Procs |-> Promise!Ready]
    BY IdleCaller DEF Init, Call, CallOf, Promise!Ready
  <2> QED BY <2>1, <2>2 DEF Promise!Init
<1>2. CInv /\ [Next]_vars => [Promise!Next]_(Promise!vars)
  <2> SUFFICES ASSUME CInv, [Next]_vars PROVE [Promise!Next]_(Promise!vars)
    OBVIOUS
  <2>1. CASE UNCHANGED vars
    BY <2>1 DEF vars, history, Promise!vars, Call, CallOf
  <2>2. CASE Next
    <3>1. PICK p \in Procs : Begin(p) \/ Continue(p)
      BY <2>2 DEF Next
    <3>2. \/ Promise!Ask(p) \/ Promise!Reply(p) \/ Promise!Leave(p)
          \/ UNCHANGED Promise!vars \/ Promise!Commit \/ Promise!Evict
      BY <3>1, ReadersImplement, WritersImplement DEF Begin, Continue
    <3> QED BY <3>2 DEF Promise!Next
  <2> QED BY <2>1, <2>2
<1> QED BY <1>1, <1>2, CacheInvariance, PTL DEF Spec, KeepsPromise, Promise!Spec

-----------------------------------------------------------------------------
(* Sums over finite sets                                                   *)

\* A set of numbers that is not empty has a smallest element.  The lemmas
\* below are proved by induction in this form: from the smallest size, or the
\* smallest index, at which they would fail.
LEMMA Smallest ==
    ASSUME NEW T, T \subseteq Nat, T # {}
    PROVE  \E n \in T : \A m \in T : n <= m
<1>1. IsWellFoundedOn(OpToRel(<, Nat), Nat)
  BY NatLessThanWellFounded
<1>2. PICK n \in T : \A m \in T : ~(<<m, n>> \in OpToRel(<, Nat))
  BY <1>1, WFMin
<1>3. \A m \in T : ~(m < n)
  BY <1>2 DEF OpToRel
<1> QED BY <1>3

\* The element that a fold takes first, and the equation of a sum.
First(s) == CHOOSE x \in s : TRUE
Adds(g, f, D) ==
    g = [s \in D |-> IF s = {} THEN 0 ELSE f[First(s)] + g[s \ {First(s)}]]

\* What is left without the first element is smaller.
LEMMA FirstIn ==
    ASSUME NEW s, IsFiniteSet(s), s # {}
    PROVE  /\ First(s) \in s /\ IsFiniteSet(s \ {First(s)}) /\ Cardinality(s) \in Nat
           /\ Cardinality(s \ {First(s)}) = Cardinality(s) - 1
<1>1. First(s) \in s
  BY DEF First
<1> QED BY <1>1, FS_RemoveElement, FS_CardinalityType

\* There is a function that satisfies the equation.
LEMMA AddsExists ==
    ASSUME NEW f, NEW S, IsFiniteSet(S)
    PROVE  \E g : Adds(g, f, SUBSET S)
<1> DEFINE D(k) == {s \in SUBSET S : Cardinality(s) <= k}
           T == {k \in Nat : ~\E g : Adds(g, f, D(k))}
<1>1. \A s \in SUBSET S : IsFiniteSet(s) /\ Cardinality(s) \in Nat /\ Cardinality(s) <= Cardinality(S)
  BY FS_Subset, FS_CardinalityType
<1>2. 0 \notin T
  <2>1. \A s \in D(0) : s = {}
    BY <1>1, FS_EmptySet
  <2> DEFINE g == [s \in D(0) |-> 0]
  <2>2. Adds(g, f, D(0))
    BY <2>1 DEF Adds
  <2> HIDE DEF g, D
  <2> QED BY <2>2
<1>3. ASSUME NEW n \in T, n # 0, n - 1 \notin T PROVE FALSE
  <2>1. PICK g : Adds(g, f, D(n - 1))
    <3>1. n - 1 \in Nat
      BY <1>3
    <3> HIDE DEF D
    <3> QED BY <1>3, <3>1
  <2> DEFINE h == [s \in D(n) |-> IF s = {} THEN 0 ELSE f[First(s)] + g[s \ {First(s)}]]
  <2>2. ASSUME NEW s \in D(n), s # {} PROVE h[s \ {First(s)}] = g[s \ {First(s)}]
    <3>1. s \ {First(s)} \in D(n - 1) /\ s \ {First(s)} \in D(n)
      BY <1>1, <2>2, FirstIn
    <3> HIDE DEF D
    <3> QED BY <2>1, <3>1 DEF Adds
  <2>3. Adds(h, f, D(n))
    <3> HIDE DEF D
    <3> QED BY <2>2 DEF Adds
  <2> QED BY <2>3
<1>4. T = {}
  <2> SUFFICES ASSUME T # {} PROVE FALSE
    OBVIOUS
  <2>1. PICK n \in T : \A m \in T : n <= m
    BY Smallest
  <2> HIDE DEF T
  <2>2. n \in Nat
    BY DEF T
  <2>3. n # 0 => n - 1 \notin T
    BY <2>1, <2>2
  <2> QED BY <1>2, <1>3, <2>1, <2>3
<1>5. D(Cardinality(S)) = SUBSET S
  BY <1>1
<1>6. Cardinality(S) \notin T /\ Cardinality(S) \in Nat
  BY <1>4, <1>1
<1> QED BY <1>5, <1>6

\* It does not matter of which larger set a set is a part.
LEMMA AddsUnique ==
    ASSUME NEW f, NEW S, IsFiniteSet(S), NEW R \in SUBSET S, NEW g, NEW h,
           Adds(g, f, SUBSET S), Adds(h, f, SUBSET R)
    PROVE  g[R] = h[R]
<1> DEFINE T == {k \in Nat : \E s \in SUBSET R : Cardinality(s) = k /\ g[s] # h[s]}
<1>1. \A s \in SUBSET R : s \in SUBSET S /\ IsFiniteSet(s) /\ Cardinality(s) \in Nat
  BY FS_Subset, FS_CardinalityType
<1>2. ASSUME T # {} PROVE FALSE
  <2>1. PICK n \in Nat : n \in T /\ \A m \in T : n <= m
    BY <1>2, Smallest
  <2>2. PICK s \in SUBSET R : Cardinality(s) = n /\ g[s] # h[s]
    BY <2>1
  <2>3. s # {}
    BY <1>1, <2>2 DEF Adds
  <2> DEFINE t == s \ {First(s)}
  <2>4. t \in SUBSET R /\ Cardinality(t) = n - 1 /\ n - 1 \in Nat
    BY <1>1, <2>2, <2>3, FirstIn
  <2>5. g[t] = h[t]
    <3>1. n - 1 \notin T
      BY <2>1, <2>4
    <3> HIDE DEF t
    <3> QED BY <2>4, <3>1
  <2>6. g[s] = f[First(s)] + g[t] /\ h[s] = f[First(s)] + h[t]
    BY <1>1, <2>3 DEF Adds
  <2> QED BY <2>2, <2>5, <2>6
<1>3. R \in SUBSET R
  OBVIOUS
<1> QED BY <1>1, <1>2, <1>3

\* A sum is what the equation says.
LEMMA SumIs ==
    ASSUME NEW f, NEW S, IsFiniteSet(S)
    PROVE  \E g : Adds(g, f, SUBSET S) /\ SumFunctionOnSet(f, S) = g[S]
<1>1. SumFunctionOnSet(f, S) = (CHOOSE g : Adds(g, f, SUBSET S))[S]
  BY DEF SumFunctionOnSet, FoldFunctionOnSet, MapThenFoldSet, Adds, First
<1> QED BY <1>1, AddsExists

\* Nothing adds up to nothing.
LEMMA SumEmpty ==
    ASSUME NEW f
    PROVE  SumFunctionOnSet(f, {}) = 0
<1>1. PICK g : Adds(g, f, SUBSET {}) /\ SumFunctionOnSet(f, {}) = g[{}]
  BY SumIs, FS_EmptySet
<1> QED BY <1>1 DEF Adds

\* The sum is the first element and the sum of the others.
LEMMA SumFirst ==
    ASSUME NEW f, NEW S, IsFiniteSet(S), S # {}
    PROVE  SumFunctionOnSet(f, S) = f[First(S)] + SumFunctionOnSet(f, S \ {First(S)})
<1> DEFINE R == S \ {First(S)}
<1>1. IsFiniteSet(R) /\ R \in SUBSET S
  BY FirstIn
<1>2. PICK g : Adds(g, f, SUBSET S) /\ SumFunctionOnSet(f, S) = g[S]
  BY SumIs
<1>3. PICK h : Adds(h, f, SUBSET R) /\ SumFunctionOnSet(f, R) = h[R]
  BY <1>1, SumIs
<1>4. g[R] = h[R]
  BY <1>1, <1>2, <1>3, AddsUnique
<1>5. g[S] = f[First(S)] + g[R]
  BY <1>2 DEF Adds
<1> QED BY <1>2, <1>3, <1>4, <1>5

\* A sum of sizes is a size.
LEMMA SumNat ==
    ASSUME NEW f, NEW S, IsFiniteSet(S), \A x \in S : f[x] \in Nat
    PROVE  SumFunctionOnSet(f, S) \in Nat
<1> DEFINE T == {k \in Nat : \E s \in SUBSET S : Cardinality(s) = k /\ SumFunctionOnSet(f, s) \notin Nat}
<1>1. \A s \in SUBSET S : IsFiniteSet(s) /\ Cardinality(s) \in Nat
  BY FS_Subset, FS_CardinalityType
<1>2. ASSUME T # {} PROVE FALSE
  <2>1. PICK n \in Nat : n \in T /\ \A m \in T : n <= m
    BY <1>2, Smallest
  <2>2. PICK s \in SUBSET S : Cardinality(s) = n /\ SumFunctionOnSet(f, s) \notin Nat
    BY <2>1
  <2>3. s # {}
    BY <2>2, SumEmpty
  <2> DEFINE t == s \ {First(s)}
  <2>4. t \in SUBSET S /\ Cardinality(t) = n - 1 /\ n - 1 \in Nat /\ First(s) \in S
    BY <1>1, <2>2, <2>3, FirstIn
  <2>5. SumFunctionOnSet(f, t) \in Nat
    <3>1. n - 1 \notin T
      BY <2>1, <2>4
    <3> HIDE DEF t
    <3> QED BY <2>4, <3>1
  <2>6. SumFunctionOnSet(f, s) = f[First(s)] + SumFunctionOnSet(f, t)
    BY <1>1, <2>3, SumFirst
  <2> QED BY <2>2, <2>4, <2>5, <2>6
<1>3. S \in SUBSET S
  OBVIOUS
<1> QED BY <1>1, <1>2, <1>3

\* Any element can be taken out of a sum.
LEMMA SumTakeOut ==
    ASSUME NEW f, NEW S, IsFiniteSet(S), \A x \in S : f[x] \in Nat, NEW y \in S
    PROVE  SumFunctionOnSet(f, S) = f[y] + SumFunctionOnSet(f, S \ {y})
<1> DEFINE T == {k \in Nat : \E s \in SUBSET S : \E z \in s :
                    /\ Cardinality(s) = k
                    /\ SumFunctionOnSet(f, s) # f[z] + SumFunctionOnSet(f, s \ {z})}
<1>1. \A s \in SUBSET S : IsFiniteSet(s) /\ Cardinality(s) \in Nat
  BY FS_Subset, FS_CardinalityType
<1>2. ASSUME T # {} PROVE FALSE
  <2>1. PICK n \in Nat : n \in T /\ \A m \in T : n <= m
    BY <1>2, Smallest
  <2>2. PICK s \in SUBSET S : \E v \in s :
            /\ Cardinality(s) = n
            /\ SumFunctionOnSet(f, s) # f[v] + SumFunctionOnSet(f, s \ {v})
    BY <2>1
  <2>3. PICK z \in s :
            /\ Cardinality(s) = n
            /\ SumFunctionOnSet(f, s) # f[z] + SumFunctionOnSet(f, s \ {z})
    BY <2>2
  <2>4. PICK x : x = First(s)
    OBVIOUS
  <2>5. SumFunctionOnSet(f, s) = f[x] + SumFunctionOnSet(f, s \ {x}) /\ x \in s
    BY <1>1, <2>3, <2>4, SumFirst, FirstIn
  <2>6. x # z
    BY <2>3, <2>5
  <2>7. ASSUME NEW v \in s, NEW w \in s, v # w
        PROVE  SumFunctionOnSet(f, s \ {v}) = f[w] + SumFunctionOnSet(f, s \ {v, w})
    <3>1. s \ {v} \in SUBSET S
      OBVIOUS
    <3>2. Cardinality(s \ {v}) = n - 1
      BY <1>1, <2>3, FS_RemoveElement
    <3>3. n - 1 \in Nat
      BY <1>1, <3>1, <3>2
    <3>4. n - 1 \notin T
      <4> HIDE DEF T
      <4> QED BY <2>1, <3>3
    <3>5. w \in s \ {v} /\ (s \ {v}) \ {w} = s \ {v, w}
      BY <2>7
    <3> QED BY <3>1, <3>2, <3>3, <3>4, <3>5, Zenon
  <2>8. SumFunctionOnSet(f, s \ {x}) = f[z] + SumFunctionOnSet(f, s \ {x, z})
        /\ SumFunctionOnSet(f, s \ {z}) = f[x] + SumFunctionOnSet(f, s \ {x, z})
    <3>1. s \ {z, x} = s \ {x, z}
      OBVIOUS
    <3> QED BY <2>5, <2>6, <2>7, <3>1
  <2>9. SumFunctionOnSet(f, s \ {x, z}) \in Nat /\ f[x] \in Nat /\ f[z] \in Nat
    <3>1. s \ {x, z} \in SUBSET S
      OBVIOUS
    <3> QED BY <1>1, <2>5, <3>1, SumNat
  <2> QED BY <2>3, <2>5, <2>8, <2>9
<1>3. S \in SUBSET S /\ Cardinality(S) \in Nat
  BY <1>1
<1> QED BY <1>2, <1>3

\* Functions that agree on a set have the same sum.
LEMMA SumSame ==
    ASSUME NEW f, NEW g, NEW S, IsFiniteSet(S), \A x \in S : f[x] = g[x]
    PROVE  SumFunctionOnSet(f, S) = SumFunctionOnSet(g, S)
<1> DEFINE T == {k \in Nat : \E s \in SUBSET S :
                    Cardinality(s) = k /\ SumFunctionOnSet(f, s) # SumFunctionOnSet(g, s)}
<1>1. \A s \in SUBSET S : IsFiniteSet(s) /\ Cardinality(s) \in Nat
  BY FS_Subset, FS_CardinalityType
<1>2. ASSUME T # {} PROVE FALSE
  <2>1. PICK n \in Nat : n \in T /\ \A m \in T : n <= m
    BY <1>2, Smallest
  <2>2. PICK s \in SUBSET S : Cardinality(s) = n /\ SumFunctionOnSet(f, s) # SumFunctionOnSet(g, s)
    BY <2>1
  <2>3. s # {}
    BY <2>2, SumEmpty
  <2> DEFINE t == s \ {First(s)}
  <2>4. t \in SUBSET S /\ Cardinality(t) = n - 1 /\ n - 1 \in Nat /\ First(s) \in S
    BY <1>1, <2>2, <2>3, FirstIn
  <2>5. SumFunctionOnSet(f, t) = SumFunctionOnSet(g, t)
    <3>1. n - 1 \notin T
      BY <2>1, <2>4
    <3> HIDE DEF t
    <3> QED BY <2>4, <3>1
  <2>6. /\ SumFunctionOnSet(f, s) = f[First(s)] + SumFunctionOnSet(f, t)
        /\ SumFunctionOnSet(g, s) = g[First(s)] + SumFunctionOnSet(g, t)
    BY <1>1, <2>3, SumFirst
  <2> QED BY <2>2, <2>4, <2>5, <2>6
<1>3. S \in SUBSET S
  OBVIOUS
<1> QED BY <1>1, <1>2, <1>3

\* A sum is the sum over a part and the sum over the rest.
LEMMA SumSplit ==
    ASSUME NEW f, NEW S, IsFiniteSet(S), \A x \in S : f[x] \in Nat, NEW R \in SUBSET S
    PROVE  SumFunctionOnSet(f, S) = SumFunctionOnSet(f, R) + SumFunctionOnSet(f, S \ R)
<1> DEFINE T == {k \in Nat : \E s \in SUBSET S : /\ Cardinality(s) = k
                    /\ SumFunctionOnSet(f, S) # SumFunctionOnSet(f, s) + SumFunctionOnSet(f, S \ s)}
<1>1. \A s \in SUBSET S : IsFiniteSet(s) /\ Cardinality(s) \in Nat /\ SumFunctionOnSet(f, s) \in Nat
  BY FS_Subset, FS_CardinalityType, SumNat
<1>2. ASSUME T # {} PROVE FALSE
  <2>1. PICK n \in Nat : n \in T /\ \A m \in T : n <= m
    BY <1>2, Smallest
  <2>2. PICK s \in SUBSET S : /\ Cardinality(s) = n
            /\ SumFunctionOnSet(f, S) # SumFunctionOnSet(f, s) + SumFunctionOnSet(f, S \ s)
    BY <2>1
  <2>3. s # {}
    <3>1. S \ {} = S /\ S \in SUBSET S
      OBVIOUS
    <3> QED BY <1>1, <2>2, <3>1, SumEmpty
  <2>4. PICK x : x = First(s)
    OBVIOUS
  <2>5. s \ {x} \in SUBSET S /\ Cardinality(s \ {x}) = n - 1 /\ n - 1 \in Nat /\ x \in s
    BY <1>1, <2>2, <2>3, <2>4, FirstIn
  <2>6. SumFunctionOnSet(f, S) = SumFunctionOnSet(f, s \ {x}) + SumFunctionOnSet(f, S \ (s \ {x}))
    <3>1. n - 1 \notin T
      <4> HIDE DEF T
      <4> QED BY <2>1, <2>5
    <3> QED BY <2>5, <3>1
  <2>7. SumFunctionOnSet(f, s) = f[x] + SumFunctionOnSet(f, s \ {x})
    BY <1>1, <2>5, SumTakeOut
  <2>8. SumFunctionOnSet(f, S \ (s \ {x})) = f[x] + SumFunctionOnSet(f, S \ s)
    <3>1. x \in S \ (s \ {x}) /\ S \ (s \ {x}) \in SUBSET S /\ (S \ (s \ {x})) \ {x} = S \ s
      BY <2>5
    <3> QED BY <1>1, <3>1, SumTakeOut
  <2>9. SumFunctionOnSet(f, s \ {x}) \in Nat /\ SumFunctionOnSet(f, S \ s) \in Nat /\ f[x] \in Nat
    <3>1. S \ s \in SUBSET S
      OBVIOUS
    <3> QED BY <1>1, <2>5, <3>1
  <2> QED BY <2>2, <2>6, <2>7, <2>8, <2>9
<1>3. Cardinality(R) \in Nat
  BY <1>1
<1> QED BY <1>2, <1>3

-----------------------------------------------------------------------------
(* Lists without some of their elements                                    *)

\* The equation of Without, and how far it has got with s after n elements.
Skips(g, s, S, n) ==
    g = [k \in 0..n |-> IF k = 0 THEN <<>>
                        ELSE IF s[k] \in S THEN g[k - 1] ELSE Append(g[k - 1], s[k])]

\* There is a function that satisfies the equation.
LEMMA SkipsExists ==
    ASSUME NEW s, NEW S, NEW N \in Nat
    PROVE  \E g : Skips(g, s, S, N)
<1> DEFINE T == {n \in Nat : ~\E g : Skips(g, s, S, n)}
<1>1. 0 \notin T
  <2> DEFINE g == [k \in 0..0 |-> <<>>]
  <2>1. Skips(g, s, S, 0)
    BY DEF Skips
  <2> HIDE DEF g
  <2> QED BY <2>1
<1>2. ASSUME T # {} PROVE FALSE
  <2>1. PICK n \in Nat : n \in T /\ \A m \in T : n <= m
    BY <1>2, Smallest
  <2>2. n # 0 /\ n - 1 \in Nat
    BY <1>1, <2>1
  <2>3. n - 1 \notin T
    <3> HIDE DEF T
    <3> QED BY <2>1, <2>2
  <2>4. PICK g : Skips(g, s, S, n - 1)
    BY <2>2, <2>3
  <2> DEFINE h == [k \in 0..n |-> IF k = 0 THEN <<>>
                        ELSE IF s[k] \in S THEN g[k - 1] ELSE Append(g[k - 1], s[k])]
  <2>5. \A k \in 0..(n - 1) : h[k] = g[k]
    <3> DEFINE v(k) == IF k = 0 THEN <<>>
                       ELSE IF s[k] \in S THEN g[k - 1] ELSE Append(g[k - 1], s[k])
    <3>1. g = [k \in 0..(n - 1) |-> v(k)]
      BY <2>4 DEF Skips
    <3>2. h = [k \in 0..n |-> v(k)]
      OBVIOUS
    <3>3. \A k \in 0..(n - 1) : k \in 0..n
      BY <2>2
    <3> HIDE DEF h, v
    <3>4. \A k \in 0..(n - 1) : g[k] = v(k)
      BY <3>1
    <3> QED BY <3>2, <3>3, <3>4
  <2>6. \A k \in 0..n : k # 0 => k - 1 \in 0..(n - 1)
    BY <2>2
  <2>7. Skips(h, s, S, n)
    BY <2>5, <2>6 DEF Skips
  <2> HIDE DEF h
  <2> QED BY <2>1, <2>7
<1> QED BY <1>2

\* What Without leaves: the elements that are not in S, each as often as before.
LEMMA WithoutIs ==
    ASSUME NEW A, NEW s \in Seq(A), NEW S
    PROVE  /\ Without(s, S) \in Seq(A)
           /\ ToSet(Without(s, S)) = ToSet(s) \ S
           /\ IsInjective(s) => IsInjective(Without(s, S))
<1>1. Len(s) \in Nat /\ DOMAIN s = 1..Len(s) /\ \A k \in 1..Len(s) : s[k] \in A
  OBVIOUS
<1>2. Without(s, S) = (CHOOSE g : Skips(g, s, S, Len(s)))[Len(s)]
  BY DEF Without, Skips
<1>3. PICK g : Skips(g, s, S, Len(s)) /\ Without(s, S) = g[Len(s)]
  BY <1>1, <1>2, SkipsExists
<1> DEFINE OK(k) == /\ g[k] \in Seq(A)
                    /\ \A x : (\E j \in DOMAIN g[k] : g[k][j] = x)
                              <=> (x \notin S /\ \E j \in 1..k : s[j] = x)
                    /\ IsInjective(s) => IsInjective(g[k])
           T == {k \in Nat : k <= Len(s) /\ ~OK(k)}
<1>4. g[0] = <<>>
  BY <1>1, <1>3 DEF Skips
<1>5. 0 \notin T
  <2>1. g[0] \in Seq(A) /\ DOMAIN g[0] = {}
    BY <1>4
  <2> QED BY <2>1 DEF IsInjective
<1>6. ASSUME NEW n \in Nat, n # 0, n <= Len(s), OK(n - 1) PROVE OK(n)
  <2>1. n \in 0..Len(s) /\ n \in 1..Len(s) /\ n - 1 \in Nat
    BY <1>1, <1>6
  <2>2. PICK h : h = g[n - 1]
    OBVIOUS
  <2>3. /\ h \in Seq(A)
        /\ \A x : (\E j \in DOMAIN h : h[j] = x) <=> (x \notin S /\ \E j \in 1..(n - 1) : s[j] = x)
        /\ IsInjective(s) => IsInjective(h)
    BY <1>6, <2>2
  <2>4. g[n] = IF s[n] \in S THEN h ELSE Append(h, s[n])
    BY <1>3, <1>6, <2>1, <2>2 DEF Skips
  <2>5. \A x : (\E j \in 1..n : s[j] = x) <=> (x = s[n] \/ \E j \in 1..(n - 1) : s[j] = x)
    BY <2>1
  <2>6. CASE s[n] \in S
    BY <2>3, <2>4, <2>5, <2>6
  <2>7. CASE s[n] \notin S
    <3>1. /\ g[n] \in Seq(A) /\ DOMAIN g[n] = 1..(Len(h) + 1) /\ DOMAIN h = 1..Len(h)
          /\ Len(h) \in Nat /\ g[n][Len(h) + 1] = s[n]
          /\ \A j \in 1..Len(h) : g[n][j] = h[j]
      BY <1>1, <2>1, <2>3, <2>4, <2>7
    <3>2. \A x : (\E j \in DOMAIN g[n] : g[n][j] = x)
                 <=> (x = s[n] \/ \E j \in DOMAIN h : h[j] = x)
      BY <3>1, SMTT(30)
    <3>3. \A x : (\E j \in DOMAIN g[n] : g[n][j] = x) <=> (x \notin S /\ \E j \in 1..n : s[j] = x)
      BY <2>3, <2>5, <2>7, <3>2
    <3>4. ASSUME IsInjective(s) PROVE IsInjective(g[n])
      <4>1. \A j \in 1..(n - 1) : s[j] # s[n]
        BY <1>1, <2>1, <3>4 DEF IsInjective
      <4>2. \A j \in 1..Len(h) : h[j] # s[n]
        BY <2>3, <3>1, <4>1
      <4>3. \A i, j \in 1..Len(h) : h[i] = h[j] => i = j
        BY <2>3, <3>1, <3>4 DEF IsInjective
      <4>4. \A j \in DOMAIN g[n] : j \in 1..Len(h) \/ j = Len(h) + 1
        BY <3>1
      <4> QED BY <3>1, <4>2, <4>3, <4>4 DEF IsInjective
    <3> QED BY <3>1, <3>3, <3>4
  <2> QED BY <2>6, <2>7
<1>7. T = {}
  <2> SUFFICES ASSUME T # {} PROVE FALSE
    OBVIOUS
  <2>1. PICK n \in Nat : n \in T /\ \A m \in T : n <= m
    BY Smallest
  <2>2. n # 0 /\ n - 1 \in Nat /\ n <= Len(s) /\ ~OK(n) /\ n - 1 <= Len(s)
    <3>1. n # 0
      <4> HIDE DEF OK
      <4> QED BY <1>5, <2>1
    <3> HIDE DEF OK
    <3> QED BY <1>1, <2>1, <3>1
  <2>3. n - 1 \notin T
    <3> HIDE DEF T
    <3> QED BY <2>1, <2>2
  <2>4. OK(n - 1)
    <3> HIDE DEF OK
    <3> QED BY <2>2, <2>3
  <2> HIDE DEF OK, T
  <2> QED BY <1>6, <2>2, <2>4
<1>8. OK(Len(s))
  <2> HIDE DEF OK
  <2> QED BY <1>1, <1>7
<1>9. PICK w : w = Without(s, S) /\ w = g[Len(s)]
  BY <1>3
<1>10. /\ w \in Seq(A)
       /\ \A x : (\E j \in DOMAIN w : w[j] = x) <=> (x \notin S /\ \E j \in 1..Len(s) : s[j] = x)
       /\ IsInjective(s) => IsInjective(w)
  BY <1>8, <1>9
<1> HIDE DEF OK, T
<1>11. ToSet(w) = ToSet(s) \ S
  <2>1. DOMAIN s = 1..Len(s)
    BY <1>1
  <2>2. ASSUME NEW x PROVE x \in ToSet(w) <=> x \in ToSet(s) /\ x \notin S
    BY <1>10, <2>1, Zenon DEF ToSet
  <2> QED BY <2>2, Zenon
<1> QED BY <1>9, <1>10, <1>11

-----------------------------------------------------------------------------
(* The budget                                                              *)

\* A bounded set of numbers that is not empty has a greatest element.
LEMMA GreatestIs ==
    ASSUME NEW n \in Nat, NEW S \in SUBSET (0..n), S # {}
    PROVE  Max(S) \in S
<1> DEFINE T == {n - x : x \in S}
<1>1. T \subseteq Nat /\ T # {}
  <2>1. \A x \in S : x \in Nat /\ n - x \in Nat
    OBVIOUS
  <2> QED BY <2>1
<1>2. PICK t \in T : \A m \in T : t <= m
  BY <1>1, Smallest
<1>3. PICK x \in S : t = n - x
  BY <1>2
<1>4. \A y \in S : x >= y
  <2> TAKE y \in S
  <2>1. n - x <= n - y
    BY <1>2, <1>3
  <2> QED BY <2>1
<1> QED BY <1>4 DEF Max

\* The elements of a list are finitely many.
LEMMA ListedFinite ==
    ASSUME NEW A, NEW s \in Seq(A)
    PROVE  IsFiniteSet(ToSet(s)) /\ ToSet(s) \subseteq A
<1>1. s \in Surjection(1..Len(s), ToSet(s))
  BY DEF Surjection, ToSet
<1>2. IsFiniteSet(1..Len(s))
  BY FS_Interval
<1>3. ToSet(s) \subseteq A
  BY DEF ToSet
<1> QED BY <1>1, <1>2, <1>3, FS_Surjection

\* The accounts of the cache, with what they need of the types.
LedgerOK ==
    /\ entries \in [Ids -> Row \cup {None}]
    /\ lru \in Seq(Ids)
    /\ WithinBudget

\* Finitely many entries are cached, each with its size.
LEMMA LedgerFacts ==
    ASSUME LedgerOK
    PROVE  /\ IsFiniteSet(Cached) /\ Cached \subseteq Ids
           /\ Bytes \in [Ids -> Nat]
           /\ \A i \in Ids : Bytes[i] = BytesOf(i)
           /\ \A i \in Ids \ Cached : Bytes[i] = 0
           /\ \A i \in Cached : Bytes[i] = entries[i].size
           /\ used \in Nat
<1> USE CacheAssumption
<1>1. IsFiniteSet(Cached) /\ Cached \subseteq Ids
  BY ListedFinite DEF LedgerOK, WithinBudget
<1>2. \A i \in Ids : BytesOf(i) \in Nat
  BY DEF BytesOf, LedgerOK, Row
<1>3. Bytes \in [Ids -> Nat] /\ \A i \in Ids : Bytes[i] = BytesOf(i)
  BY <1>2 DEF Bytes
<1>4. SumFunctionOnSet(Bytes, Cached) \in Nat
  BY <1>1, <1>3, SumNat
<1> QED BY <1>1, <1>3, <1>4 DEF BytesOf, Cached, LedgerOK, WithinBudget

\* The order of use after a hit or a publication.
LEMMA TouchedIs ==
    ASSUME LedgerOK, NEW id \in Ids
    PROVE  /\ Touched(id) \in Seq(Ids)
           /\ ToSet(Touched(id)) = Cached \cup {id}
           /\ IsInjective(Touched(id))
<1> DEFINE r == Without(lru, {id})
<1>1. lru \in Seq(Ids) /\ IsInjective(lru) /\ ToSet(lru) = Cached
  BY DEF LedgerOK, WithinBudget
<1>2. r \in Seq(Ids) /\ ToSet(r) = Cached \ {id} /\ IsInjective(r)
  BY <1>1, WithoutIs
<1>3. Touched(id) = <<id>> \o r
  BY DEF Touched
<1> HIDE DEF r
<1>4. PICK s : s = Touched(id)
  OBVIOUS
<1>5. /\ s \in Seq(Ids) /\ DOMAIN s = 1..(Len(r) + 1) /\ DOMAIN r = 1..Len(r) /\ Len(r) \in Nat
      /\ s[1] = id /\ \A j \in 1..Len(r) : s[j + 1] = r[j]
  BY <1>2, <1>3, <1>4
<1>6. \A j \in DOMAIN s : j = 1 \/ (j - 1 \in DOMAIN r /\ s[j] = r[j - 1])
  <2> TAKE j \in DOMAIN s
  <2>1. j # 1 => j - 1 \in 1..Len(r) /\ (j - 1) + 1 = j
    BY <1>5
  <2> QED BY <1>5, <2>1
<1>7. \A j \in DOMAIN r : j + 1 \in DOMAIN s /\ s[j + 1] = r[j]
  BY <1>5
<1>8. ToSet(s) = ToSet(r) \cup {id}
  <2>1. 1 \in DOMAIN s
    BY <1>5
  <2>2. \A x \in ToSet(s) : x \in ToSet(r) \cup {id}
    BY <1>5, <1>6 DEF ToSet
  <2>3. \A x \in ToSet(r) : x \in ToSet(s)
    BY <1>7 DEF ToSet
  <2>4. id \in ToSet(s)
    BY <1>5, <2>1 DEF ToSet
  <2> QED BY <2>2, <2>3, <2>4
<1>9. \A j \in DOMAIN r : r[j] # id
  BY <1>2 DEF ToSet
<1>10. IsInjective(s)
  <2> SUFFICES ASSUME NEW a \in DOMAIN s, NEW b \in DOMAIN s, s[a] = s[b] PROVE a = b
    BY DEF IsInjective
  <2>1. a \in Nat /\ b \in Nat
    BY <1>5
  <2>2. CASE a = 1 \/ b = 1
    BY <1>5, <1>6, <1>9, <2>2
  <2>3. CASE a # 1 /\ b # 1
    <3>1. a - 1 = b - 1
      BY <1>2, <1>6, <2>3 DEF IsInjective
    <3> QED BY <2>1, <3>1
  <2> QED BY <2>2, <2>3
<1> QED BY <1>2, <1>4, <1>5, <1>8, <1>10

\* The first n of a list without repetitions, and what is not among them.
LEMMA PrefixIs ==
    ASSUME NEW A, NEW s \in Seq(A), IsInjective(s), NEW n \in 0..Len(s)
    PROVE  /\ SubSeq(s, 1, n) \in Seq(A) /\ Len(SubSeq(s, 1, n)) = n
           /\ IsInjective(SubSeq(s, 1, n))
           /\ ToSet(SubSeq(s, 1, n)) = ToSet(s) \ {s[m] : m \in (n + 1)..Len(s)}
<1>1. PICK r : r = SubSeq(s, 1, n)
  OBVIOUS
<1>2. /\ Len(s) \in Nat /\ DOMAIN s = 1..Len(s) /\ n \in Nat /\ n <= Len(s)
      /\ r \in Seq(A) /\ Len(r) = n /\ DOMAIN r = 1..n
      /\ \A j \in 1..n : r[j] = s[j]
  BY <1>1
<1>3. IsInjective(r)
  BY <1>2 DEF IsInjective
<1>4. \A j \in DOMAIN s : j \in 1..n \/ j \in (n + 1)..Len(s)
  BY <1>2
<1>5. \A j \in 1..n : j \in DOMAIN s /\ \A m \in (n + 1)..Len(s) : m \in DOMAIN s /\ m # j
  BY <1>2
<1>6. ToSet(r) = ToSet(s) \ {s[m] : m \in (n + 1)..Len(s)}
  <2>1. ASSUME NEW x \in ToSet(r) PROVE x \in ToSet(s) \ {s[m] : m \in (n + 1)..Len(s)}
    <3>1. PICK j \in 1..n : x = s[j]
      BY <1>2, <2>1 DEF ToSet
    <3>2. \A m \in (n + 1)..Len(s) : s[m] # s[j]
      BY <1>5, <3>1 DEF IsInjective
    <3> QED BY <1>5, <3>1, <3>2 DEF ToSet
  <2>2. ASSUME NEW x \in ToSet(s) \ {s[m] : m \in (n + 1)..Len(s)} PROVE x \in ToSet(r)
    <3>1. PICK j \in DOMAIN s : x = s[j]
      BY <2>2 DEF ToSet
    <3>2. j \in 1..n
      BY <1>4, <2>2, <3>1
    <3> QED BY <1>2, <3>1, <3>2 DEF ToSet
  <2> QED BY <2>1, <2>2
<1> QED BY <1>1, <1>2, <1>3, <1>6

\* Nothing but the accounts matters for WithinBudget.
LEMMA LedgerSame ==
    ASSUME LedgerOK, UNCHANGED <<entries, lru, used>>
    PROVE  LedgerOK'
<1>1. Bytes' = Bytes
  BY DEF Bytes, BytesOf
<1>2. Cached' = Cached
  BY DEF Cached
<1> QED BY <1>1, <1>2 DEF LedgerOK, WithinBudget

\* A hit reorders the list.
LEMMA LedgerHit ==
    ASSUME LedgerOK, NEW id \in Cached, lru' = Touched(id), UNCHANGED <<entries, used>>
    PROVE  LedgerOK'
<1>1. Bytes' = Bytes
  BY DEF Bytes, BytesOf
<1>2. Cached' = Cached
  BY DEF Cached
<1>3. id \in Ids /\ Cached \cup {id} = Cached
  BY DEF Cached
<1>4. lru' \in Seq(Ids) /\ ToSet(lru)' = Cached /\ IsInjective(lru)'
  BY <1>3, TouchedIs
<1> QED BY <1>1, <1>2, <1>4 DEF LedgerOK, WithinBudget

\* An eviction takes the sizes of what it removes out of the accounts.
LEMMA LedgerEvict ==
    ASSUME LedgerOK, NEW S, EvictIds(S)
    PROVE  LedgerOK'
<1>1. /\ entries' = [i \in Ids |-> IF i \in S THEN None ELSE entries[i]]
      /\ lru' = Without(lru, S)
      /\ used' = used - SumFunctionOnSet(Bytes, S \cap Cached)
  BY DEF EvictIds
<1>2. entries' \in [Ids -> Row \cup {None}]
  BY <1>1 DEF LedgerOK
<1>3. Cached' = Cached \ S
  BY <1>1 DEF Cached, LedgerOK
<1>4. lru' \in Seq(Ids) /\ ToSet(lru)' = Cached \ S /\ IsInjective(lru)'
  BY <1>1, WithoutIs DEF LedgerOK, WithinBudget
<1>5. \A i \in Cached \ S : Bytes[i] = Bytes'[i]
  BY <1>1 DEF Bytes, BytesOf, Cached, LedgerOK
<1>6. IsFiniteSet(Cached) /\ \A i \in Cached : Bytes[i] \in Nat
  BY LedgerFacts
<1>7. IsFiniteSet(Cached \ S)
  BY <1>6, FS_Subset
<1>8. SumFunctionOnSet(Bytes, Cached)
        = SumFunctionOnSet(Bytes, S \cap Cached) + SumFunctionOnSet(Bytes, Cached \ S)
  <2>1. Cached \ (S \cap Cached) = Cached \ S /\ S \cap Cached \in SUBSET Cached
    OBVIOUS
  <2> QED BY <1>6, <2>1, SumSplit
<1>9. SumFunctionOnSet(Bytes, Cached \ S) = SumFunctionOnSet(Bytes', Cached \ S)
  BY <1>5, <1>7, SumSame
<1>10. SumFunctionOnSet(Bytes, S \cap Cached) \in Nat /\ SumFunctionOnSet(Bytes, Cached \ S) \in Nat
  <2>1. IsFiniteSet(S \cap Cached)
    BY <1>6, FS_Subset
  <2> QED BY <1>6, <1>7, <2>1, SumNat
<1>11. used = SumFunctionOnSet(Bytes, Cached) /\ used <= MaxBytes
  BY DEF LedgerOK, WithinBudget
<1>12. used' = SumFunctionOnSet(Bytes', Cached') /\ used' <= MaxBytes
  <2> USE CacheAssumption
  <2>1. used' = SumFunctionOnSet(Bytes, Cached \ S) /\ used' <= MaxBytes
    BY <1>1, <1>8, <1>10, <1>11
  <2> QED BY <1>3, <1>9, <2>1
<1> QED BY <1>2, <1>3, <1>4, <1>12 DEF LedgerOK, WithinBudget

\* The accounts while only the first n of the list stay.
LEMMA LedgerPrefix ==
    ASSUME LedgerOK, NEW id \in Ids, NEW w \in Row, NEW n \in 0..Len(Touched(id))
    PROVE  BytesWith(id, w) - Dropped(Touched(id), id, w, n)
             = SumFunctionOnSet([Bytes EXCEPT ![id] = w.size], ToSet(SubSeq(Touched(id), 1, n)))
<1> DEFINE f == [Bytes EXCEPT ![id] = w.size]
           C == Cached \cup {id}
           R == {Touched(id)[m] : m \in (n + 1)..Len(Touched(id))}
<1> USE CacheAssumption
<1>1. IsFiniteSet(Cached) /\ Cached \subseteq Ids /\ Bytes \in [Ids -> Nat] /\ used \in Nat
      /\ BytesOf(id) = Bytes[id] /\ (id \notin Cached => Bytes[id] = 0)
  BY LedgerFacts
<1>2. w.size \in Nat
  BY DEF Row
<1>3. f \in [Ids -> Nat] /\ f[id] = w.size /\ \A i \in Ids : i # id => f[i] = Bytes[i]
  BY <1>1, <1>2
<1>4. IsFiniteSet(C) /\ IsFiniteSet(C \ {id}) /\ C \ {id} = Cached \ {id}
  BY <1>1, FS_AddElement, FS_Subset
<1> HIDE DEF f
<1>5. SumFunctionOnSet(f, C) = w.size + SumFunctionOnSet(f, Cached \ {id})
  <2>1. \A x \in C : f[x] \in Nat
    BY <1>1, <1>3
  <2> QED BY <1>3, <1>4, <2>1, SumTakeOut
<1>6. SumFunctionOnSet(f, Cached \ {id}) = SumFunctionOnSet(Bytes, Cached \ {id})
  <2>1. IsFiniteSet(Cached \ {id}) /\ \A x \in Cached \ {id} : f[x] = Bytes[x]
    BY <1>1, <1>3, <1>4
  <2> QED BY <2>1, SumSame
<1>7. SumFunctionOnSet(Bytes, Cached \ {id}) \in Nat
  BY <1>1, <1>4, SumNat
<1>8. SumFunctionOnSet(Bytes, Cached) = Bytes[id] + SumFunctionOnSet(Bytes, Cached \ {id})
  <2>1. CASE id \in Cached
    <3>1. \A x \in Cached : Bytes[x] \in Nat
      BY <1>1
    <3> QED BY <1>1, <2>1, <3>1, SumTakeOut
  <2>2. CASE id \notin Cached
    <3>1. Cached \ {id} = Cached /\ Bytes[id] = 0
      BY <1>1, <2>2
    <3>2. SumFunctionOnSet(Bytes, Cached) = SumFunctionOnSet(Bytes, Cached \ {id})
      BY <3>1
    <3> QED BY <1>7, <3>1, <3>2
  <2> QED BY <2>1, <2>2
<1>9. BytesWith(id, w) = SumFunctionOnSet(f, C)
  <2>1. used = SumFunctionOnSet(Bytes, Cached)
    BY DEF LedgerOK, WithinBudget
  <2> QED BY <1>1, <1>2, <1>5, <1>6, <1>7, <1>8, <2>1 DEF BytesWith
<1>10. Touched(id) \in Seq(Ids) /\ ToSet(Touched(id)) = C /\ IsInjective(Touched(id))
  BY TouchedIs
<1>11. ToSet(SubSeq(Touched(id), 1, n)) = C \ R
  BY <1>10, PrefixIs
<1>12. R \in SUBSET C
  <2>1. \A m \in (n + 1)..Len(Touched(id)) : m \in DOMAIN Touched(id)
    BY <1>10
  <2>2. \A m \in DOMAIN Touched(id) : Touched(id)[m] \in C
    BY <1>10 DEF ToSet
  <2> QED BY <2>1, <2>2
<1>13. Dropped(Touched(id), id, w, n) = SumFunctionOnSet(f, R)
  BY Zenon DEF Dropped, f
<1> HIDE DEF C, R
<1>14. C \subseteq Ids
  BY <1>1 DEF C
<1>15. SumFunctionOnSet(f, C) = SumFunctionOnSet(f, R) + SumFunctionOnSet(f, C \ R)
  BY <1>3, <1>4, <1>12, <1>14, SumSplit
<1>16. SumFunctionOnSet(f, R) \in Nat /\ SumFunctionOnSet(f, C \ R) \in Nat
  <2>1. IsFiniteSet(R) /\ IsFiniteSet(C \ R)
    BY <1>4, <1>12, FS_Subset
  <2> QED BY <1>3, <1>12, <1>14, <2>1, SumNat
<1>17. BytesWith(id, w) - Dropped(Touched(id), id, w, n) = SumFunctionOnSet(f, C \ R)
  BY <1>9, <1>13, <1>15, <1>16
<1> QED BY <1>11, <1>17, Zenon DEF f

\* What a publication keeps is within the budget.
LEMMA KeptFits ==
    ASSUME LedgerOK, NEW id \in Ids, NEW w \in Row
    PROVE  \E n \in 0..Len(Touched(id)) :
              /\ Kept(id, w) = SubSeq(Touched(id), 1, n)
              /\ BytesWith(id, w) - Dropped(Touched(id), id, w, n) <= MaxBytes
<1> USE CacheAssumption
<1> DEFINE s == Touched(id)
           Fits(n) == BytesWith(id, w) - Dropped(s, id, w, n) <= MaxBytes
           fits == {n \in 0..Len(s) : Fits(n)}
<1>1. s \in Seq(Ids) /\ Len(s) \in Nat
  BY TouchedIs
<1>2. Fits(0)
  <2>1. 0 \in 0..Len(s)
    BY <1>1
  <2>2. ToSet(SubSeq(s, 1, 0)) = {}
    BY <1>1 DEF ToSet
  <2>3. BytesWith(id, w) - Dropped(s, id, w, 0) = 0
    <3>1. BytesWith(id, w) - Dropped(s, id, w, 0)
            = SumFunctionOnSet([Bytes EXCEPT ![id] = w.size], ToSet(SubSeq(s, 1, 0)))
      BY <2>1, LedgerPrefix
    <3> QED BY <2>2, <3>1, SumEmpty
  <2> QED BY <2>3
<1>3. Kept(id, w) = SubSeq(s, 1, Max(fits \cup {0}))
  BY DEF Kept
<1> HIDE DEF s, Fits
<1>4. 0 \in fits
  BY <1>1, <1>2
<1>5. fits \cup {0} = fits /\ fits \in SUBSET (0..Len(s)) /\ fits # {}
  BY <1>4
<1> HIDE DEF fits
<1>6. Max(fits) \in fits
  BY <1>1, <1>5, GreatestIs
<1> QED BY <1>3, <1>5, <1>6 DEF fits, Fits, s

\* A publication leaves exact accounts within the budget.
LEMMA LedgerPut ==
    ASSUME LedgerOK, NEW id \in Ids, NEW w \in Row, Put(id, w)
    PROVE  LedgerOK'
<1> USE CacheAssumption
<1> DEFINE s == Touched(id)
           k == Kept(id, w)
           K == ToSet(k)
           f == [Bytes EXCEPT ![id] = w.size]
<1>1. /\ lru' = k
      /\ entries' = [i \in Ids |-> IF i \notin K THEN None
                                   ELSE IF i = id THEN w ELSE entries[i]]
      /\ used' = BytesWith(id, w) - Dropped(s, id, w, Len(k))
  BY DEF Put
<1>2. PICK n \in 0..Len(s) :
        k = SubSeq(s, 1, n) /\ BytesWith(id, w) - Dropped(s, id, w, n) <= MaxBytes
  BY KeptFits
<1>3. s \in Seq(Ids) /\ ToSet(s) = Cached \cup {id} /\ IsInjective(s)
  BY TouchedIs
<1>4. /\ k \in Seq(Ids) /\ Len(k) = n /\ IsInjective(k)
      /\ K \subseteq Cached \cup {id}
  BY <1>2, <1>3, PrefixIs
<1>5. used' = SumFunctionOnSet(f, K) /\ used' <= MaxBytes
  BY <1>1, <1>2, <1>4, LedgerPrefix
<1>6. IsFiniteSet(K) /\ K \subseteq Ids
  BY <1>4, ListedFinite
<1>7. entries \in [Ids -> Row \cup {None}] /\ w # None
  BY DEF LedgerOK, Row
<1> HIDE DEF k, s
<1>8. entries' \in [Ids -> Row \cup {None}]
  BY <1>1, <1>7
<1>9. Cached' = K
  BY <1>1, <1>4, <1>6, <1>7 DEF Cached
<1>10. \A i \in K : f[i] = Bytes'[i]
  <2>1. \A i \in K : entries'[i] = IF i = id THEN w ELSE entries[i]
    BY <1>1, <1>6
  <2>2. \A i \in Ids : Bytes'[i] = IF entries'[i] = None THEN 0 ELSE entries'[i].size
    BY DEF Bytes, BytesOf
  <2>3. \A i \in Ids : f[i] = IF i = id THEN w.size ELSE IF entries[i] = None THEN 0 ELSE entries[i].size
    BY DEF Bytes, BytesOf
  <2> HIDE DEF f, K
  <2>4. \A i \in K : i \in Ids /\ (i # id => entries[i] # None)
    BY <1>4, <1>6 DEF Cached
  <2> QED BY <1>7, <2>1, <2>2, <2>3, <2>4
<1>11. SumFunctionOnSet(f, K) = SumFunctionOnSet(Bytes', K)
  <2> HIDE DEF f, K
  <2> QED BY <1>6, <1>10, SumSame
<1> QED BY <1>1, <1>4, <1>5, <1>8, <1>9, <1>11 DEF LedgerOK, WithinBudget

\* Every step leaves the accounts in order.
LEMMA LedgerNext == CInv /\ LedgerOK /\ [Next]_vars => LedgerOK'
<1> SUFFICES ASSUME CInv, LedgerOK, [Next]_vars PROVE LedgerOK'
  OBVIOUS
<1>1. CASE UNCHANGED vars
  BY <1>1, LedgerSame DEF vars, cache
<1>2. CASE Next
  <2>1. PICK p \in Procs : Begin(p) \/ Continue(p)
    BY <1>2 DEF Next
  <2>2. proc[p].pc \in ReaderPCs => proc[p].id \in Ids
    BY DEF CInv, CallersOK, CallerOK
  <2>3. CASE Hit(p)
    <3>1. proc[p].id \in Cached /\ lru' = Touched(proc[p].id) /\ UNCHANGED <<entries, used>>
      BY <2>2, <2>3 DEF Hit, Cached, ReaderPCs
    <3> QED BY <3>1, LedgerHit
  <2>4. CASE Publish(p)
    <3>1. proc[p].id \in Ids /\ proc[p].row \in Row /\ Put(proc[p].id, proc[p].row)
      BY <2>2, <2>4 DEF Publish, ReaderPCs, CInv, CallersOK, CallerOK
    <3> QED BY <3>1, LedgerPut
  <2>5. CASE Evict(p)
    <3>1. EvictIds(proc[p].scope)
      BY <2>5 DEF Evict
    <3> QED BY <3>1, LedgerEvict
  <2>6. CASE \/ StartRead(p) \/ CurrentRevision(p) \/ Miss(p) \/ Fetch(p) \/ FetchFails(p)
             \/ PublishRefused(p) \/ Return(p)
    <3>1. UNCHANGED cache
      BY <2>6 DEF StartRead, CurrentRevision, Miss, Fetch, FetchFails, PublishRefused, Return
    <3> QED BY <3>1, LedgerSame DEF cache
  <2>7. CASE \/ WriteObject(p) \/ DeleteAllInBucket(p) \/ WriteBucket(p)
             \/ DeleteBucket(p) \/ DeleteWithObjects(p) \/ FailedWrite(p)
    <3>1. UNCHANGED cache
      <4>1. PICK t, C, scope : Commit(p, t, C, scope)
        BY <2>7, WritersEvict
      <4> QED BY <4>1 DEF Commit
    <3> QED BY <3>1, LedgerSame DEF cache
  <2> QED BY <2>1, <2>3, <2>4, <2>5, <2>6, <2>7 DEF Begin, Continue
<1> QED BY <1>1, <1>2

\* Writers stop at the bound.
LEMMA WritesBounded == CInv /\ writes <= MaxWrites /\ [Next]_vars => (writes <= MaxWrites)'
<1> SUFFICES ASSUME CInv, writes <= MaxWrites, [Next]_vars PROVE writes' <= MaxWrites
  OBVIOUS
<1>1. CASE UNCHANGED vars
  BY <1>1 DEF vars, history
<1>2. CASE Next
  <2>1. PICK p \in Procs : Begin(p) \/ Continue(p)
    BY <1>2 DEF Next
  <2>2. CASE StartRead(p) \/ Continue(p)
    BY <2>2 DEF StartRead, Continue, CurrentRevision, Hit, Miss, Fetch, FetchFails,
                Publish, PublishRefused, Return, Evict, history
  <2>3. CASE \/ WriteObject(p) \/ DeleteAllInBucket(p) \/ WriteBucket(p)
             \/ DeleteBucket(p) \/ DeleteWithObjects(p) \/ FailedWrite(p)
    <3>1. writes < MaxWrites /\ writes' = writes + 1
      <4>1. PICK t, C, scope : Commit(p, t, C, scope)
        BY <2>3, WritersEvict
      <4> QED BY <4>1 DEF Commit
    <3>2. writes \in Nat /\ MaxWrites \in Nat
      BY CacheAssumption DEF CInv, Types
    <3> QED BY <3>1, <3>2
  <2> QED BY <2>1, <2>2, <2>3 DEF Begin
<1> QED BY <1>1, <1>2

\* The accounts of the cache are exact and within the budget at all times.
THEOREM LedgerInvariance == Spec => []LedgerOK
<1>1. Init => LedgerOK
  <2> SUFFICES ASSUME Init PROVE LedgerOK
    OBVIOUS
  <2>1. Cached = {}
    BY DEF Init, Cached
  <2>2. ToSet(lru) = {} /\ IsInjective(lru) /\ lru \in Seq(Ids)
    BY DEF Init, ToSet, IsInjective
  <2>3. used = SumFunctionOnSet(Bytes, Cached) /\ used <= MaxBytes
    BY <2>1, SumEmpty, CacheAssumption DEF Init
  <2> QED BY <2>1, <2>2, <2>3 DEF Init, LedgerOK, WithinBudget
<1> QED BY <1>1, LedgerNext, CacheInvariance, PTL DEF Spec

\* Whatever is published, replaced and evicted, used is the size of the
\* entries and never over MaxBytes, and list and map hold the same keys.
THEOREM CacheWithinBudget == Spec => []WithinBudget
<1>1. LedgerOK => WithinBudget
  BY DEF LedgerOK
<1> QED BY <1>1, LedgerInvariance, PTL

\* The cache and its callers keep their types.
THEOREM CacheTypes == Spec => []TypeOK
<1>1. Init => writes <= MaxWrites
  BY CacheAssumption DEF Init
<1>2. CInv /\ LedgerOK /\ writes <= MaxWrites => TypeOK
  <2> SUFFICES ASSUME CInv, LedgerOK, writes <= MaxWrites PROVE TypeOK
    OBVIOUS
  <2>1. used \in Nat
    BY LedgerFacts
  <2>2. writes \in 0..MaxWrites
    BY CacheAssumption DEF CInv, Types
  <2>3. acked \in [Ids -> 0..MaxWrites]
    <3>1. \A i \in Ids : acked[i] \in Nat /\ acked[i] <= writes
      BY DEF CInv, Types, VisibleFresh
    <3>2. \A i \in Ids : acked[i] \in 0..MaxWrites
      BY <2>2, <3>1, CacheAssumption
    <3> QED BY <3>2 DEF CInv, Types
  <2> QED BY <2>1, <2>2, <2>3 DEF TypeOK, CInv, Types, LedgerOK
<1> QED BY <1>1, <1>2, WritesBounded, CacheInvariance, LedgerInvariance, PTL DEF Spec

=============================================================================
