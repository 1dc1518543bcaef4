-------------------------- MODULE UploadLocksProofs --------------------------
(***************************************************************************)
(* Proofs about UploadLocks, for any number of requests, uploads and       *)
(* locks.  The argument: a request keeps its lock in the table by the      *)
(* reference it counts, so the lock that it holds or waits for is always   *)
(* the one that the table names for its upload, and two requests on one    *)
(* upload have the same mutex.                                             *)
(***************************************************************************)
EXTENDS UploadLocks, FiniteSetTheorems, TLAPS

-----------------------------------------------------------------------------
(* References                                                              *)

\* The requests that refer to a lock are finitely many.
LEMMA ReferrersFinite ==
    ASSUME NEW l
    PROVE  IsFiniteSet(Referrers(l))
BY LocksAssumption, FS_Subset DEF Referrers

\* One more reference, and one less.
LEMMA CountUp ==
    ASSUME NEW S, NEW c, IsFiniteSet(S), c \notin S
    PROVE  Cardinality(S \cup {c}) = Cardinality(S) + 1
BY FS_AddElement

LEMMA CountDown ==
    ASSUME NEW S, NEW c, IsFiniteSet(S), c \in S
    PROVE  /\ Cardinality(S) \in Nat
           /\ Cardinality(S) >= 1
           /\ Cardinality(S \ {c}) = Cardinality(S) - 1
           /\ Cardinality(S) = 1 <=> S \ {c} = {}
<1>1. Cardinality(S) \in Nat
  BY FS_CardinalityType
<1>2. IsFiniteSet(S \ {c}) /\ Cardinality(S \ {c}) = Cardinality(S) - 1
  BY FS_RemoveElement
<1>3. Cardinality(S \ {c}) \in Nat
  BY <1>2, FS_CardinalityType
<1>4. Cardinality(S \ {c}) = 0 <=> S \ {c} = {}
  BY <1>2, FS_EmptySet
<1>. QED
  BY <1>1, <1>2, <1>3, <1>4

-----------------------------------------------------------------------------
(* The inductive invariant                                                 *)

LEMMA LockInitInv == LockInit => LockInv
<1>. SUFFICES ASSUME LockInit PROVE LockInv
  OBVIOUS
<1>1. LockTypeOK
  BY DEF LockInit, LockTypeOK, Caller, LockPCs
<1>. QED
  BY <1>1, LocksAssumption DEF LockInit, LockInv, LockIsCurrent, TableInjective, RefsAreExact,
     HolderIsHolding

\* An upload without a lock gets one.
LEMMA AcquireNewInv ==
    ASSUME LockInv, NEW c \in Callers, NEW u \in UploadIDs, NEW l \in Locks,
           Acquire(c, u, l), table[u] = NoLock
    PROVE  LockInv'
<1>. DEFINE new == [pc |-> "waiting", upload |-> u, lock |-> l]
<1>1. /\ Unreferenced(l)
      /\ table' = [table EXCEPT ![u] = l]
      /\ refs' = [refs EXCEPT ![l] = 1]
      /\ holder' = [holder EXCEPT ![l] = Nobody]
      /\ caller' = [caller EXCEPT ![c] = new]
      /\ caller[c].pc = "out"
  BY DEF Acquire
<1>2. new \in Caller
  BY DEF Caller, LockPCs
<1>3. LockTypeOK /\ caller[c].lock = NoLock
  BY <1>1 DEF LockInv, LockIsCurrent
<1>4. LockTypeOK'
  BY <1>1, <1>2, <1>3 DEF LockTypeOK
<1>5. \A d \in Callers : caller'[d] = IF d = c THEN new ELSE caller[d]
  BY <1>1, <1>3 DEF LockTypeOK
<1>6. \A v \in UploadIDs : table'[v] = IF v = u THEN l ELSE table[v]
  BY <1>1, <1>3 DEF LockTypeOK
<1>7. l # NoLock /\ (\A v \in UploadIDs : table[v] # l) /\ (\A d \in Callers : caller[d].lock # l)
  BY <1>1, LocksAssumption DEF Unreferenced
<1>8. LockIsCurrent'
  <2>. SUFFICES ASSUME NEW d \in Callers
               PROVE  IF caller'[d].pc = "out" THEN caller'[d].lock = NoLock
                      ELSE caller'[d].lock \in Locks /\ table'[caller'[d].upload] = caller'[d].lock
    BY DEF LockIsCurrent
  <2>1. CASE d = c
    BY <2>1, <1>5, <1>6
  <2>2. CASE d # c
    <3>1. IF caller[d].pc = "out" THEN caller[d].lock = NoLock
          ELSE caller[d].lock \in Locks /\ table[caller[d].upload] = caller[d].lock
      BY DEF LockInv, LockIsCurrent
    <3>2. caller[d].upload \in UploadIDs
      BY <1>3 DEF LockTypeOK, Caller
    <3>. QED
      BY <2>2, <3>1, <3>2, <1>5, <1>6, LocksAssumption
  <2>. QED
    BY <2>1, <2>2
<1>9. TableInjective'
  BY <1>6, <1>7 DEF LockInv, TableInjective
<1>10. Referrers(l)' = {c}
  BY <1>5, <1>7 DEF Referrers
<1>11. \A m \in Locks : m # l => Referrers(m)' = Referrers(m)
  <2>. SUFFICES ASSUME NEW m \in Locks, m # l PROVE Referrers(m)' = Referrers(m)
    OBVIOUS
  <2>1. \A d \in Callers : caller'[d].lock = m <=> caller[d].lock = m
    BY <1>3, <1>5, LocksAssumption
  <2>. QED
    BY <2>1 DEF Referrers
<1>12. RefsAreExact'
  <2>. SUFFICES ASSUME NEW v \in UploadIDs, table'[v] # NoLock
               PROVE  /\ refs'[table'[v]] = Cardinality(Referrers(table[v])')
                      /\ Referrers(table[v])' # {}
    BY DEF RefsAreExact
  <2>1. CASE v = u
    <3>1. table'[v] = l /\ refs'[l] = 1
      BY <2>1, <1>1, <1>3, <1>6 DEF LockTypeOK
    <3>2. Cardinality({c}) = 1
      BY FS_Singleton
    <3>3. Referrers(table[v])' = {c}
      BY <3>1, <1>10 DEF Referrers
    <3>. QED
      BY <3>1, <3>2, <3>3
  <2>2. CASE v # u
    <3>1. table'[v] = table[v] /\ table[v] \in Locks /\ table[v] # l
      BY <2>2, <1>3, <1>6, <1>7 DEF LockTypeOK
    <3>2. refs'[table[v]] = refs[table[v]]
      BY <3>1, <1>1, <1>3 DEF LockTypeOK
    <3>3. Referrers(table[v])' = Referrers(table[v])
      BY <3>1, <1>11 DEF Referrers
    <3>4. refs[table[v]] = Cardinality(Referrers(table[v])) /\ Referrers(table[v]) # {}
      BY <3>1 DEF LockInv, RefsAreExact
    <3>. QED
      BY <3>1, <3>2, <3>3, <3>4
  <2>. QED
    BY <2>1, <2>2
<1>13. HolderIsHolding'
  BY <1>1, <1>3, <1>5, <1>7 DEF LockInv, HolderIsHolding, LockIsCurrent, LockTypeOK, Caller
<1>. QED
  BY <1>4, <1>8, <1>9, <1>12, <1>13 DEF LockInv

\* An upload that has a lock: one more request counts itself.
LEMMA AcquireSharedInv ==
    ASSUME LockInv, NEW c \in Callers, NEW u \in UploadIDs, NEW l \in Locks,
           Acquire(c, u, l), table[u] # NoLock
    PROVE  LockInv'
<1>. DEFINE new == [pc |-> "waiting", upload |-> u, lock |-> l]
<1>1. /\ l = table[u]
      /\ refs' = [refs EXCEPT ![l] = @ + 1]
      /\ UNCHANGED <<table, holder>>
      /\ caller' = [caller EXCEPT ![c] = new]
      /\ caller[c].pc = "out"
  BY DEF Acquire
<1>2. new \in Caller
  BY DEF Caller, LockPCs
<1>3. LockTypeOK /\ caller[c].lock = NoLock
  BY <1>1 DEF LockInv, LockIsCurrent
<1>4. LockTypeOK'
  BY <1>1, <1>2, <1>3 DEF LockTypeOK
<1>5. \A d \in Callers : caller'[d] = IF d = c THEN new ELSE caller[d]
  BY <1>1, <1>3 DEF LockTypeOK
<1>6. LockIsCurrent' /\ TableInjective' /\ HolderIsHolding'
  BY <1>1, <1>5 DEF LockInv, LockIsCurrent, TableInjective, HolderIsHolding
<1>7. Referrers(l)' = Referrers(l) \cup {c} /\ c \notin Referrers(l)
  BY <1>3, <1>5, LocksAssumption DEF Referrers
<1>8. \A m \in Locks : m # l => Referrers(m)' = Referrers(m)
  <2>. SUFFICES ASSUME NEW m \in Locks, m # l PROVE Referrers(m)' = Referrers(m)
    OBVIOUS
  <2>1. \A d \in Callers : caller'[d].lock = m <=> caller[d].lock = m
    BY <1>3, <1>5, LocksAssumption
  <2>. QED
    BY <2>1 DEF Referrers
<1>9. RefsAreExact'
  <2>. SUFFICES ASSUME NEW v \in UploadIDs, table[v] # NoLock
               PROVE  /\ refs'[table[v]] = Cardinality(Referrers(table[v])')
                      /\ Referrers(table[v])' # {}
    BY <1>1 DEF RefsAreExact
  <2>1. refs[table[v]] = Cardinality(Referrers(table[v])) /\ Referrers(table[v]) # {}
    BY DEF LockInv, RefsAreExact
  <2>2. table[v] \in Locks
    BY <1>3 DEF LockTypeOK
  <2>3. CASE table[v] = l
    <3>1. refs'[l] = refs[l] + 1
      BY <1>1, <1>3 DEF LockTypeOK
    <3>2. Cardinality(Referrers(l) \cup {c}) = Cardinality(Referrers(l)) + 1
      BY <1>7, ReferrersFinite, CountUp
    <3>3. Referrers(table[v])' = Referrers(l) \cup {c}
      BY <2>3, <1>1, <1>7 DEF Referrers
    <3>. QED
      BY <2>1, <2>3, <3>1, <3>2, <3>3
  <2>4. CASE table[v] # l
    <3>1. refs'[table[v]] = refs[table[v]]
      BY <2>2, <2>4, <1>1, <1>3 DEF LockTypeOK
    <3>2. Referrers(table[v])' = Referrers(table[v])
      BY <2>2, <2>4, <1>1, <1>8 DEF Referrers
    <3>. QED
      BY <2>1, <3>1, <3>2
  <2>. QED
    BY <2>3, <2>4
<1>. QED
  BY <1>4, <1>6, <1>9 DEF LockInv

\* A step that only moves c on and changes who holds mutexes.
LEMMA MoveInv ==
    ASSUME LockInv, NEW c \in Callers, NEW pc \in LockPCs \ {"out"}, caller[c].pc # "out",
           caller' = [caller EXCEPT ![c].pc = pc],
           UNCHANGED <<table, refs>>,
           holder' \in [Locks -> Callers \cup {Nobody}],
           HolderIsHolding'
    PROVE  LockInv'
<1>1. LockTypeOK
  BY DEF LockInv
<1>2. \A d \in Callers : /\ caller'[d].lock = caller[d].lock
                         /\ caller'[d].upload = caller[d].upload
                         /\ caller'[d].pc = IF d = c THEN pc ELSE caller[d].pc
                         /\ caller'[d] \in Caller
  BY <1>1 DEF LockTypeOK, Caller
<1>3. LockTypeOK'
  BY <1>1, <1>2 DEF LockTypeOK
<1>4. LockIsCurrent' /\ TableInjective'
  BY <1>2 DEF LockInv, LockIsCurrent, TableInjective
<1>5. \A v \in UploadIDs : Referrers(table[v])' = Referrers(table[v])
  BY <1>2 DEF Referrers
<1>6. RefsAreExact'
  BY <1>5 DEF LockInv, RefsAreExact
<1>. QED
  BY <1>3, <1>4, <1>6 DEF LockInv

LEMMA LockPreserves ==
    ASSUME LockInv, NEW c \in Callers, Lock(c)
    PROVE  LockInv'
<1>. DEFINE l == caller[c].lock
<1>1. /\ caller[c].pc = "waiting"
      /\ holder[l] = Nobody
      /\ holder' = [holder EXCEPT ![l] = c]
      /\ caller' = [caller EXCEPT ![c].pc = "holding"]
      /\ UNCHANGED <<table, refs>>
  BY DEF Lock
<1>2. LockTypeOK /\ l \in Locks
  BY <1>1 DEF LockInv, LockIsCurrent
<1>3. holder' \in [Locks -> Callers \cup {Nobody}]
  BY <1>1, <1>2 DEF LockTypeOK
<1>4. HolderIsHolding'
  <2>. SUFFICES ASSUME NEW d \in Callers, caller'[d].pc = "holding"
               PROVE  holder'[caller'[d].lock] = d
    BY DEF HolderIsHolding
  <2>1. caller'[d].lock = caller[d].lock
    BY <1>1, <1>2 DEF LockTypeOK, Caller
  <2>2. CASE d = c
    BY <2>1, <2>2, <1>1, <1>2 DEF LockTypeOK
  <2>3. CASE d # c
    <3>1. caller[d].pc = "holding"
      BY <2>3, <1>1, <1>2 DEF LockTypeOK
    <3>2. holder[caller[d].lock] = d /\ caller[d].lock \in Locks
      BY <3>1 DEF LockInv, HolderIsHolding, LockIsCurrent
    <3>. QED
      BY <2>1, <3>2, <1>1, <1>2, LocksAssumption DEF LockTypeOK
  <2>. QED
    BY <2>2, <2>3
<1>. QED
  BY <1>1, <1>3, <1>4, MoveInv DEF LockPCs

LEMMA UnlockPreserves ==
    ASSUME LockInv, NEW c \in Callers, Unlock(c)
    PROVE  LockInv'
<1>. DEFINE l == caller[c].lock
<1>1. /\ caller[c].pc = "holding"
      /\ holder' = [holder EXCEPT ![l] = Nobody]
      /\ caller' = [caller EXCEPT ![c].pc = "leaving"]
      /\ UNCHANGED <<table, refs>>
  BY DEF Unlock
<1>2. LockTypeOK /\ l \in Locks /\ holder[l] = c
  BY <1>1 DEF LockInv, LockIsCurrent, HolderIsHolding
<1>3. holder' \in [Locks -> Callers \cup {Nobody}]
  BY <1>1, <1>2 DEF LockTypeOK
<1>4. HolderIsHolding'
  <2>. SUFFICES ASSUME NEW d \in Callers, caller'[d].pc = "holding"
               PROVE  holder'[caller'[d].lock] = d
    BY DEF HolderIsHolding
  <2>1. d # c /\ caller'[d] = caller[d]
    BY <1>1, <1>2 DEF LockTypeOK, Caller
  <2>2. holder[caller[d].lock] = d /\ caller[d].lock \in Locks
    BY <2>1 DEF LockInv, HolderIsHolding, LockIsCurrent
  <2>. QED
    BY <2>1, <2>2, <1>1, <1>2 DEF LockTypeOK
<1>. QED
  BY <1>1, <1>3, <1>4, MoveInv DEF LockPCs

\* The entry goes with the last reference, and not before.
LEMMA ReleasePreserves ==
    ASSUME LockInv, NEW c \in Callers, Release(c)
    PROVE  LockInv'
<1>0. PICK l \in Locks, u \in UploadIDs : l = caller[c].lock /\ u = caller[c].upload
  BY DEF LockInv, LockTypeOK, LockIsCurrent, Caller, Release
<1>1. /\ caller[c].pc = "leaving"
      /\ refs' = [refs EXCEPT ![l] = @ - 1]
      /\ table' = IF refs'[l] = 0 /\ table[u] = l THEN [table EXCEPT ![u] = NoLock] ELSE table
      /\ caller' = [caller EXCEPT ![c].pc = "out", ![c].lock = NoLock]
      /\ UNCHANGED holder
  BY <1>0 DEF Release
<1>2. LockTypeOK /\ table[u] = l
  BY <1>0, <1>1 DEF LockInv, LockIsCurrent, LockTypeOK, Caller
<1>3. c \in Referrers(l) /\ IsFiniteSet(Referrers(l))
  BY <1>0, ReferrersFinite DEF Referrers
<1>4. refs[l] = Cardinality(Referrers(l))
  BY <1>2, LocksAssumption DEF LockInv, RefsAreExact
<1>5. /\ refs[l] \in Nat /\ refs[l] >= 1
      /\ Cardinality(Referrers(l) \ {c}) = refs[l] - 1
      /\ (refs[l] = 1) <=> (Referrers(l) \ {c} = {})
  <2>. DEFINE S == Referrers(l)
  <2>. HIDE DEF S
  <2>1. IsFiniteSet(S) /\ c \in S /\ refs[l] = Cardinality(S)
    BY <1>3, <1>4 DEF S
  <2>2. /\ refs[l] \in Nat /\ refs[l] >= 1
        /\ Cardinality(S \ {c}) = refs[l] - 1
        /\ (refs[l] = 1) <=> (S \ {c} = {})
    BY <2>1, CountDown
  <2>. QED
    BY <2>2 DEF S
<1>6. refs'[l] = refs[l] - 1
  BY <1>1, <1>2 DEF LockTypeOK
<1>7. /\ caller'[c].pc = "out" /\ caller'[c].lock = NoLock /\ caller'[c] \in Caller
      /\ \A d \in Callers : d # c => caller'[d] = caller[d]
      /\ caller' \in [Callers -> Caller]
  BY <1>1, <1>2, ZenonT(60) DEF LockTypeOK, Caller, LockPCs
<1>8. LockTypeOK'
  <2>1. table' \in [UploadIDs -> Locks \cup {NoLock}]
    BY <1>1, <1>2 DEF LockTypeOK
  <2>2. refs' \in [Locks -> Nat]
    BY <1>1, <1>2, <1>5 DEF LockTypeOK
  <2>. QED
    BY <2>1, <2>2, <1>1, <1>2, <1>7 DEF LockTypeOK
<1>9. Referrers(l)' = Referrers(l) \ {c}
  <2>1. \A d \in Callers : caller'[d].lock = l <=> (d # c /\ caller[d].lock = l)
    BY <1>0, <1>2, <1>7, LocksAssumption
  <2>. QED
    BY <2>1 DEF Referrers
<1>10. \A m \in Locks : m # l => Referrers(m)' = Referrers(m)
  <2>. SUFFICES ASSUME NEW m \in Locks, m # l PROVE Referrers(m)' = Referrers(m)
    OBVIOUS
  <2>1. \A d \in Callers : caller'[d].lock = m <=> caller[d].lock = m
    BY <1>0, <1>7, LocksAssumption
  <2>. QED
    BY <2>1 DEF Referrers
<1>11. \A v \in UploadIDs : table'[v] = IF v = u /\ refs[l] = 1 THEN NoLock ELSE table[v]
  BY <1>1, <1>2, <1>5, <1>6 DEF LockTypeOK
<1>12. LockIsCurrent'
  <2>. SUFFICES ASSUME NEW d \in Callers
               PROVE  IF caller'[d].pc = "out" THEN caller'[d].lock = NoLock
                      ELSE caller'[d].lock \in Locks /\ table'[caller'[d].upload] = caller'[d].lock
    BY DEF LockIsCurrent
  <2>1. CASE d = c
    BY <2>1, <1>7
  <2>2. CASE d # c
    <3>1. IF caller[d].pc = "out" THEN caller[d].lock = NoLock
          ELSE caller[d].lock \in Locks /\ table[caller[d].upload] = caller[d].lock
      BY DEF LockInv, LockIsCurrent
    <3>2. caller[d].upload \in UploadIDs
      BY <1>2 DEF LockTypeOK, Caller
    <3>3. caller[d].lock = l => refs[l] # 1
      BY <2>2, <1>5 DEF Referrers
    <3>. QED
      BY <2>2, <3>1, <3>2, <3>3, <1>2, <1>7, <1>11
  <2>. QED
    BY <2>1, <2>2
<1>13. TableInjective'
  BY <1>11 DEF LockInv, TableInjective
<1>14. RefsAreExact'
  <2>. SUFFICES ASSUME NEW v \in UploadIDs, table'[v] # NoLock
               PROVE  /\ refs'[table'[v]] = Cardinality(Referrers(table[v])')
                      /\ Referrers(table[v])' # {}
    BY DEF RefsAreExact
  <2>1. table'[v] = table[v] /\ table[v] \in Locks
    BY <1>2, <1>11 DEF LockTypeOK
  <2>2. refs[table[v]] = Cardinality(Referrers(table[v])) /\ Referrers(table[v]) # {}
    BY <2>1 DEF LockInv, RefsAreExact
  <2>3. CASE v = u
    <3>1. refs[l] # 1
      BY <2>3, <1>11
    <3>2. Referrers(table[v])' = Referrers(l) \ {c}
      BY <2>1, <2>3, <1>2, <1>9 DEF Referrers
    <3>. QED
      BY <2>1, <2>3, <3>1, <3>2, <1>2, <1>5, <1>6
  <2>4. CASE v # u
    <3>1. table[v] # l
      BY <2>1, <2>4, <1>2, LocksAssumption DEF LockInv, TableInjective
    <3>2. refs'[table[v]] = refs[table[v]]
      BY <2>1, <3>1, <1>1, <1>2 DEF LockTypeOK
    <3>3. Referrers(table[v])' = Referrers(table[v])
      BY <2>1, <3>1, <1>10 DEF Referrers
    <3>. QED
      BY <2>1, <2>2, <3>2, <3>3
  <2>. QED
    BY <2>3, <2>4
<1>15. HolderIsHolding'
  BY <1>1, <1>7 DEF LockInv, HolderIsHolding
<1>. QED
  BY <1>8, <1>12, <1>13, <1>14, <1>15 DEF LockInv

\* The parts of LockInv are what the mutual exclusion and the bound on the
\* table rest on.
LEMMA LockInvImplies == LockInv => OneRequestPerUpload /\ TableIsTight
<1>. SUFFICES ASSUME LockInv PROVE OneRequestPerUpload /\ TableIsTight
  OBVIOUS
<1>1. OneRequestPerUpload
  BY DEF LockInv, OneRequestPerUpload, LockIsCurrent, HolderIsHolding
<1>2. TableIsTight
  <2>. SUFFICES ASSUME NEW u \in UploadIDs
               PROVE  table[u] # NoLock <=>
                        \E c \in Callers : caller[c].pc # "out" /\ caller[c].upload = u
    BY DEF TableIsTight
  <2>1. ASSUME NEW c \in Callers, caller[c].pc # "out", caller[c].upload = u
        PROVE  table[u] # NoLock
    BY <2>1, LocksAssumption DEF LockInv, LockIsCurrent
  <2>2. ASSUME table[u] # NoLock
        PROVE  \E c \in Callers : caller[c].pc # "out" /\ caller[c].upload = u
    <3>1. PICK c \in Callers : caller[c].lock = table[u]
      BY <2>2 DEF LockInv, RefsAreExact, Referrers
    <3>2. caller[c].pc # "out" /\ table[caller[c].upload] = table[u] /\ caller[c].upload \in UploadIDs
      BY <3>1, <2>2 DEF LockInv, LockIsCurrent, LockTypeOK, Caller
    <3>. QED
      BY <3>2, <2>2 DEF LockInv, TableInjective
  <2>. QED
    BY <2>1, <2>2
<1>. QED
  BY <1>1, <1>2

-----------------------------------------------------------------------------
(* Theorems                                                                *)

\* Every step of acquireUploadLock and of the function it returns keeps the
\* inductive invariant.
THEOREM LockInvariance == LockSpec => []LockInv
<1>1. ASSUME LockInv, LockNext PROVE LockInv'
  <2>1. PICK c \in Callers : (\E u \in UploadIDs, l \in Locks : Acquire(c, u, l)) \/ LockStep(c)
    BY <1>1 DEF LockNext
  <2>2. CASE \E u \in UploadIDs, l \in Locks : Acquire(c, u, l)
    BY <2>2, <1>1, AcquireNewInv, AcquireSharedInv
  <2>3. CASE LockStep(c)
    BY <2>3, <1>1, LockPreserves, UnlockPreserves, ReleasePreserves DEF LockStep
  <2>. QED
    BY <2>1, <2>2, <2>3
<1>2. ASSUME LockInv, UNCHANGED lockVars PROVE LockInv'
  BY <1>2 DEF LockInv, LockTypeOK, LockIsCurrent, TableInjective, RefsAreExact, HolderIsHolding,
     Referrers, lockVars
<1>. QED
  BY <1>1, <1>2, LockInitInv, PTL DEF LockSpec

\* acquireUploadLock gives the requests on one upload the same mutex, so
\* only one of them is at work at a time.
THEOREM LocksExclude == LockSpec => []OneRequestPerUpload
BY LockInvariance, LockInvImplies, PTL

\* The map of locks has an entry exactly for the uploads in use.
THEOREM LocksAreDropped == LockSpec => []TableIsTight
BY LockInvariance, LockInvImplies, PTL

=============================================================================
