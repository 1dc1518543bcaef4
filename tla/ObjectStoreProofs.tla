-------------------------- MODULE ObjectStoreProofs --------------------------
(***************************************************************************)
(* Proofs about ObjectStore, for every set of buckets, keys, paths, bodies *)
(* and requests.  The argument is one of ownership: a path is pending in   *)
(* the one request that wrote it until its row is committed; from then on  *)
(* it belongs to one location; and a request only removes a path that no   *)
(* location can show any more.                                             *)
(***************************************************************************)
EXTENDS ObjectStore, TLAPS

-----------------------------------------------------------------------------
(* The inductive invariant                                                 *)

\* The request has written a file that no row references yet.
Pending(q) == q.pc \in {"fill", "replace"}

\* Paths that a request has learned from rows and may still act on.
KnownTo(q) ==
    IF q.pc \in {"list", "evict", "sweep"} THEN q.doomed
    ELSE IF q.pc \in {"open", "deleteRow"} THEN {q.row.path} ELSE {}

\* The destination of a write.
HasTarget(q) == q.loc \in Location /\ q.bucket = q.loc[1]

\* What holds of a request at each point of its handler.
Shape(q) ==
    /\ q.pc \in {"create", "fill", "replace"} =>
        /\ q.op \in {"put", "copy"}
        /\ HasTarget(q)
        /\ q.body \in Bodies
        /\ q.etag = q.body
    /\ q.pc \in {"fill", "replace"} => q.path \in Paths /\ q.path \in used
    /\ q.pc = "fill" => files[q.path] = None
    /\ q.pc = "replace" => files[q.path] = [dir |-> q.bucket, body |-> q.body]
    /\ q.pc = "load" =>
        /\ q.src \in Location
        /\ q.op \in {"get", "copy", "delete"}
        /\ q.op = "copy" => HasTarget(q)
        /\ q.op = "delete" => q.loc = q.src
    /\ q.pc = "open" =>
        /\ q.op \in {"get", "copy"}
        /\ q.op = "copy" => HasTarget(q)
        /\ q.row \in Row
        /\ files[q.row.path] # None => files[q.row.path].body = q.row.etag
    /\ q.pc = "next" => q.op = "delete"
    /\ q.pc = "deleteRow" =>
        /\ q.op = "delete"
        /\ q.loc \in Location
        /\ q.row \in Row
        /\ \A l \in Location : \A w \in Visible(l) : w.path = q.row.path => l = q.loc
    /\ q.pc = "list" =>
        /\ q.op = "empty"
        /\ q.bucket \in Buckets
        /\ q.todo \subseteq In(q.bucket)
        /\ \A l \in Location : \A w \in Visible(l) :
            w.path \in q.doomed => l \in In(q.bucket)
    /\ q.pc = "force" => q.op = "force" /\ q.bucket \in Buckets
    /\ q.pc \in {"check", "drop", "insert"} =>
        q.op \in {"drop", "create"} /\ q.bucket \in Buckets
    /\ q.pc = "evict" =>
        \A l \in Location :
            /\ objects[l] # None => objects[l].path \notin q.doomed
            /\ \A w \in stale[l] : w.path \in q.doomed => l \in Evicted(q)
    /\ q.pc = "sweep" =>
        \A l \in Location : \A w \in Visible(l) : w.path \notin q.doomed

RequestsOK == \A r \in Requests : Shape(req[r])

\* A pending path is known to nobody else.
PendingOwned ==
    \A r \in Requests : Pending(req[r]) =>
        /\ \A l \in Location : \A w \in Visible(l) : w.path # req[r].path
        /\ \A s \in Requests : req[r].path \notin KnownTo(req[s])
        /\ \A s \in Requests : Pending(req[s]) /\ req[s].path = req[r].path => s = r

KnownUsed == \A r \in Requests : KnownTo(req[r]) \subseteq used

DiskOK ==
    /\ \A p \in Paths : files[p] # None => p \in used
    /\ \A p \in tmp : p \in used /\ files[p] = None

\* Nothing runs and nothing is cached while the server reconciles.
StartingOK ==
    phase = "starting" =>
        /\ \A r \in Requests : req[r].pc = "idle"
        /\ \A l \in Location : stale[l] = {}

IInv ==
    /\ TypeOK
    /\ RowsHaveFiles
    /\ PathsNotShared
    /\ RowsInBuckets
    /\ RequestsOK
    /\ PendingOwned
    /\ KnownUsed
    /\ DiskOK
    /\ StartingOK

-----------------------------------------------------------------------------
(* Steps that leave the disk alone                                         *)

\* The row that a request is about to commit.
NewRow(q) == [path |-> q.path, etag |-> q.etag]

\* What such a step of request r may do to rows and to the request: rows are
\* removed, superseded or evicted, at most the pending row of r appears, and
\* r learns no path but visible ones and its own.
DbStep(r) ==
    /\ phase = "serving"
    /\ UNCHANGED <<disk, process>>
    /\ buckets' \subseteq Buckets
    /\ objects' \in [Location -> Row \cup {None}]
    /\ stale' \in [Location -> SUBSET Row]
    /\ \E q \in Request : req' = [req EXCEPT ![r] = q]
    /\ \A l \in Location :
        /\ \A w \in Visible(l)' :
            \/ w \in Visible(l)
            \/ req[r].pc = "replace" /\ l = req[r].loc /\ w = NewRow(req[r])
        /\ objects'[l] # None =>
            \/ objects'[l] = objects[l]
            \/ req[r].pc = "replace" /\ l = req[r].loc /\ objects'[l] = NewRow(req[r])
        /\ \A w \in stale'[l] : w \in Visible(l)
    /\ ~Pending(req'[r])
    /\ \A p \in KnownTo(req'[r]) :
        \/ p \in KnownTo(req[r])
        \/ Pending(req[r]) /\ p = req[r].path
        \/ \E l \in Location : \E w \in Visible(l) : w.path = p

\* Visible rows are rows.
LEMMA VisibleRow ==
    ASSUME TypeOK, NEW l \in Location, NEW w \in Visible(l)
    PROVE  w \in Row /\ w.path \in Paths /\ w.etag \in Bodies
BY DEF TypeOK, Visible, Row

\* The paths of committed rows are paths of visible rows.
LEMMA PathsOfVisible ==
    ASSUME TypeOK, NEW S \in SUBSET Location, NEW p \in PathsOf(S)
    PROVE  p \in Paths /\ \E l \in S : \E w \in Visible(l) : w.path = p
<1>1. PICK l \in S : objects[l] # None /\ p = objects[l].path
  BY DEF PathsOf
<1>2. l \in Location /\ objects[l] \in Row /\ objects[l] \in Visible(l)
  BY <1>1 DEF TypeOK, Visible
<1> QED BY <1>1, <1>2 DEF Row

\* A DbStep preserves the invariant, given that its own request is in shape
\* and that rows stay in existing buckets.
LEMMA DbStepPreserves ==
    ASSUME IInv, NEW r \in Requests, DbStep(r), Shape(req[r])', RowsInBuckets'
    PROVE  IInv'
<1> USE ConstantsAssumption
<1>1. PICK q \in Request : req' = [req EXCEPT ![r] = q]
  BY DEF DbStep
<1>2. req'[r] = q /\ \A s \in Requests : s # r => req'[s] = req[s]
  BY <1>1 DEF IInv, TypeOK
<1>3. TypeOK'
  BY <1>1 DEF IInv, TypeOK, DbStep, disk, process
<1>4. req[r].pc = "replace" =>
        /\ HasTarget(req[r])
        /\ req[r].path \in Paths /\ req[r].path \in used
        /\ files[req[r].path] = [dir |-> req[r].loc[1], body |-> req[r].etag]
  BY DEF IInv, RequestsOK, Shape, HasTarget
<1>5. RowsHaveFiles'
  <2> SUFFICES ASSUME NEW l \in Location, NEW w \in Visible(l)'
               PROVE  /\ files[w.path] # None
                      /\ files[w.path].dir = l[1]
                      /\ files[w.path].body = w.etag
    BY DEF RowsHaveFiles, DbStep, disk
  <2>1. CASE w \in Visible(l)
    BY <2>1 DEF IInv, RowsHaveFiles
  <2>2. CASE req[r].pc = "replace" /\ l = req[r].loc /\ w = NewRow(req[r])
    <3>1. [dir |-> req[r].loc[1], body |-> req[r].etag] \in File
      BY <1>4, <2>2 DEF IInv, TypeOK, Location, File, RequestsOK, Shape
    <3> QED BY <1>4, <2>2, <3>1 DEF NewRow
  <2> QED BY <2>1, <2>2 DEF DbStep
<1>6. PathsNotShared'
  <2> SUFFICES ASSUME NEW l \in Location, NEW m \in Location,
                      NEW v \in Visible(l)', NEW w \in Visible(m)',
                      v.path = w.path
               PROVE  l = m
    BY DEF PathsNotShared
  <2>1. CASE v \in Visible(l) /\ w \in Visible(m)
    BY <2>1 DEF IInv, PathsNotShared
  <2>2. ASSUME req[r].pc = "replace", NEW k \in Location, NEW u \in Visible(k)
        PROVE  u.path # req[r].path
    BY <2>2 DEF IInv, PendingOwned, Pending
  <2> QED BY <2>1, <2>2 DEF DbStep, NewRow
<1>7. RequestsOK'
  <2> SUFFICES ASSUME NEW s \in Requests, s # r
               PROVE  Shape(req[s])'
    BY DEF RequestsOK
  <2>1. req'[s] = req[s] /\ Shape(req[s])
    BY <1>2 DEF IInv, RequestsOK
  <2>2. req[r].pc = "replace" => req[r].path \notin KnownTo(req[s])
    BY DEF IInv, PendingOwned, Pending
  <2>3. UNCHANGED <<files, used>>
    BY DEF DbStep, disk
  <2>4. req[s].pc = "deleteRow" =>
          \A l \in Location : \A w \in Visible(l)' :
            w.path = req[s].row.path => l = req[s].loc
    BY <2>1, <2>2 DEF DbStep, NewRow, Shape, KnownTo
  <2>5. req[s].pc = "list" =>
          \A l \in Location : \A w \in Visible(l)' :
            w.path \in req[s].doomed => l \in In(req[s].bucket)
    BY <2>1, <2>2 DEF DbStep, NewRow, Shape, KnownTo
  <2>6. req[s].pc = "evict" =>
          \A l \in Location :
            /\ objects'[l] # None => objects'[l].path \notin req[s].doomed
            /\ \A w \in stale'[l] : w.path \in req[s].doomed => l \in Evicted(req[s])
    BY <2>1, <2>2 DEF DbStep, NewRow, Shape, KnownTo, Visible
  <2>7. req[s].pc = "sweep" =>
          \A l \in Location : \A w \in Visible(l)' : w.path \notin req[s].doomed
    BY <2>1, <2>2 DEF DbStep, NewRow, Shape, KnownTo
  <2> QED BY <2>1, <2>3, <2>4, <2>5, <2>6, <2>7 DEF Shape, HasTarget, Evicted, In
<1>8. PendingOwned'
  <2> SUFFICES ASSUME NEW s \in Requests, Pending(req[s])'
               PROVE  /\ \A l \in Location : \A w \in Visible(l)' : w.path # req'[s].path
                      /\ \A t \in Requests : req'[s].path \notin KnownTo(req'[t])
                      /\ \A t \in Requests :
                          Pending(req'[t]) /\ req'[t].path = req'[s].path => t = s
    BY DEF PendingOwned, Pending, KnownTo
  <2>1. s # r /\ req'[s] = req[s] /\ Pending(req[s])
    BY <1>2 DEF DbStep, Pending
  <2>2. Pending(req[r]) => req[r].path # req[s].path
    BY <2>1 DEF IInv, PendingOwned
  <2>3. \A l \in Location : \A w \in Visible(l)' : w.path # req[s].path
    BY <2>1, <2>2 DEF DbStep, NewRow, IInv, PendingOwned, Pending
  <2>4. \A p \in KnownTo(req'[r]) : p # req[s].path
    BY <2>1, <2>2 DEF DbStep, IInv, PendingOwned
  <2> QED BY <1>2, <2>1, <2>3, <2>4 DEF DbStep, IInv, PendingOwned
<1>9. KnownUsed'
  <2>1. \A l \in Location : \A w \in Visible(l) : w.path \in used
    BY VisibleRow DEF IInv, DiskOK, RowsHaveFiles
  <2>2. Pending(req[r]) => req[r].path \in used
    BY DEF IInv, RequestsOK, Shape, Pending
  <2> QED BY <1>2, <2>1, <2>2 DEF DbStep, disk, IInv, KnownUsed, KnownTo
<1>10. DiskOK' /\ StartingOK'
  BY DEF DbStep, disk, process, IInv, DiskOK, StartingOK
<1> QED BY <1>3, <1>5, <1>6, <1>7, <1>8, <1>9, <1>10 DEF IInv

-----------------------------------------------------------------------------
(* Steps that change only the request                                      *)

\* Requests run only while the server serves.
LEMMA Serving ==
    ASSUME IInv, NEW r \in Requests, req[r].pc # "idle"
    PROVE  phase = "serving"
BY DEF IInv, TypeOK, StartingOK

\* Rows, cache and disk are untouched, and the request's next record q is in
\* shape.
LEMMA LocalStep ==
    ASSUME IInv, NEW r \in Requests, NEW q \in Request,
           phase = "serving",
           req' = [req EXCEPT ![r] = q],
           UNCHANGED <<db, stale, disk, process>>,
           Shape(q), ~Pending(q),
           \A p \in KnownTo(q) :
              \/ p \in KnownTo(req[r])
              \/ Pending(req[r]) /\ p = req[r].path
              \/ \E l \in Location : \E w \in Visible(l) : w.path = p
    PROVE  IInv'
<1>1. req'[r] = q
  BY DEF IInv, TypeOK
<1>2. \A l \in Location : Visible(l)' = Visible(l)
  BY DEF Visible, db
<1>3. Shape(req[r])'
  <2>1. UNCHANGED <<files, used, objects, stale>>
    BY DEF db, disk
  <2> QED BY <1>1, <1>2, <2>1 DEF Shape, HasTarget, Evicted, In
<1>4. RowsInBuckets'
  BY DEF IInv, RowsInBuckets, db
<1>5. DbStep(r)
  BY <1>1, <1>2 DEF DbStep, IInv, TypeOK, db, Visible
<1> QED BY <1>3, <1>4, <1>5, DbStepPreserves

\* The record that Answer leaves.
AnswerRec(q, s) == [Idle EXCEPT !.pc = "respond", !.op = q.op, !.status = s]

\* The record that Finish leaves.
FinishRec(q, s, D) ==
    [Idle EXCEPT !.pc = "evict", !.op = q.op, !.bucket = q.bucket,
                 !.loc = q.loc, !.todo = q.todo, !.doomed = D, !.status = s]

\* AnswerRec is a request that has responded.
LEMMA AnswerType ==
    ASSUME TypeOK, NEW r \in Requests, NEW s \in Statuses
    PROVE  AnswerRec(req[r], s) \in Request /\ AnswerRec(req[r], s).pc = "respond"
BY DEF TypeOK, AnswerRec, Idle, Request, PCs, Statuses

\* FinishRec is a request that is about to evict.
LEMMA FinishType ==
    ASSUME TypeOK, NEW r \in Requests, NEW s \in Statuses, NEW D \in SUBSET Paths
    PROVE  LET f == FinishRec(req[r], s, D) IN
           /\ f \in Request
           /\ f.pc = "evict"
           /\ f.doomed = D
           /\ f.op = req[r].op
           /\ f.loc = req[r].loc
           /\ f.bucket = req[r].bucket
BY DEF TypeOK, FinishRec, Idle, Request, PCs, Statuses

\* Answering changes nothing but the request.
LEMMA AnswerStep ==
    ASSUME IInv, NEW r \in Requests, NEW s \in Statuses, req[r].pc # "idle",
           Answer(r, s), UNCHANGED <<db, stale, disk, process>>
    PROVE  IInv'
<1>1. req' = [req EXCEPT ![r] = AnswerRec(req[r], s)]
  BY DEF Answer, Go, AnswerRec
<1>2. AnswerRec(req[r], s) \in Request /\ AnswerRec(req[r], s).pc = "respond"
  <2>1. TypeOK BY DEF IInv
  <2> QED BY <2>1, AnswerType
<1>3. Shape(AnswerRec(req[r], s)) /\ ~Pending(AnswerRec(req[r], s))
      /\ KnownTo(AnswerRec(req[r], s)) = {}
  BY <1>2 DEF Shape, Pending, KnownTo
<1> QED BY <1>1, <1>2, <1>3, LocalStep, Serving

\* A request that ends without changing a row may name for removal only files
\* no row shows.
LEMMA FinishStep ==
    ASSUME IInv, NEW r \in Requests, NEW s \in Statuses, NEW D \in SUBSET Paths,
           req[r].pc # "idle",
           Finish(r, s, D), UNCHANGED <<db, stale, disk, process>>,
           \A p \in D : Pending(req[r]) /\ p = req[r].path
    PROVE  IInv'
<1> DEFINE f == FinishRec(req[r], s, D)
<1>1. req' = [req EXCEPT ![r] = f]
  BY DEF Finish, Go, FinishRec
<1>2. f \in Request /\ f.pc = "evict" /\ f.doomed = D
  <2>1. TypeOK BY DEF IInv
  <2> QED BY <2>1, FinishType, SMTT(60)
<1> HIDE DEF f
<1>3. ~Pending(f) /\ KnownTo(f) = D
  BY <1>2 DEF Pending, KnownTo
<1>4. \A l \in Location : \A w \in Visible(l) : w.path \notin D
  BY DEF IInv, PendingOwned
<1>5. Shape(f)
  BY <1>2, <1>4 DEF Shape, Visible
<1> QED BY <1>1, <1>2, <1>3, <1>5, LocalStep, Serving

\* A started request holds no path yet.
LEMMA StartStep ==
    ASSUME IInv, NEW r \in Requests, NEW q \in Request, Start(r, q),
           q.pc \in {"create", "load", "next", "list", "force", "check", "insert"},
           Shape(q), q.doomed = {}
    PROVE  IInv'
<1>1. phase = "serving" /\ req' = [req EXCEPT ![r] = q]
      /\ UNCHANGED <<db, stale, disk, process>>
  BY DEF Start, Go
<1>2. ~Pending(q) /\ KnownTo(q) = {}
  BY DEF Pending, KnownTo
<1> QED BY <1>1, <1>2, LocalStep

\* The operations that clients start.
LEMMA StartsPreserve ==
    ASSUME IInv, NEW r \in Requests,
           \/ StartPut(r) \/ StartCopy(r) \/ StartGet(r) \/ StartDelete(r)
           \/ StartEmpty(r) \/ StartForce(r) \/ StartDrop(r) \/ StartCreate(r)
    PROVE  IInv'
<1> USE ConstantsAssumption
<1>0. buckets \subseteq Buckets
  BY DEF IInv, TypeOK
<1>1. CASE StartPut(r)
  <2>1. PICK l \in Location, c \in Bodies, cd \in Conditions :
          Start(r, [Idle EXCEPT !.pc = "create", !.op = "put",
                      !.bucket = l[1], !.loc = l, !.cond = cd,
                      !.body = c, !.etag = c])
    BY <1>1 DEF StartPut
  <2> DEFINE q == [Idle EXCEPT !.pc = "create", !.op = "put",
                      !.bucket = l[1], !.loc = l, !.cond = cd,
                      !.body = c, !.etag = c]
  <2>2. q \in Request /\ q.pc = "create" /\ q.op = "put" /\ q.bucket = l[1]
        /\ q.loc = l /\ q.body = c /\ q.etag = c /\ q.doomed = {}
    BY DEF Idle, Request, PCs, Statuses, AllOperations, Location
  <2> HIDE DEF q
  <2>3. Shape(q)
    BY <2>2 DEF Shape, HasTarget
  <2> QED BY <2>1, <2>2, <2>3, StartStep DEF q
<1>2. CASE StartCopy(r)
  <2>1. PICK m \in Location, l \in Location, cd \in Conditions :
          Start(r, [Idle EXCEPT !.pc = "load", !.op = "copy",
                      !.bucket = l[1], !.loc = l, !.src = m, !.cond = cd])
    BY <1>2 DEF StartCopy
  <2> DEFINE q == [Idle EXCEPT !.pc = "load", !.op = "copy",
                      !.bucket = l[1], !.loc = l, !.src = m, !.cond = cd]
  <2>2. q \in Request /\ q.pc = "load" /\ q.op = "copy" /\ q.bucket = l[1]
        /\ q.loc = l /\ q.src = m /\ q.doomed = {}
    BY DEF Idle, Request, PCs, Statuses, AllOperations, Location
  <2> HIDE DEF q
  <2>3. Shape(q)
    BY <2>2 DEF Shape, HasTarget
  <2> QED BY <2>1, <2>2, <2>3, StartStep DEF q
<1>3. CASE StartGet(r)
  <2>1. PICK l \in Location :
          Start(r, [Idle EXCEPT !.pc = "load", !.op = "get",
                      !.bucket = l[1], !.src = l])
    BY <1>3 DEF StartGet
  <2> DEFINE q == [Idle EXCEPT !.pc = "load", !.op = "get", !.bucket = l[1], !.src = l]
  <2>2. q \in Request /\ q.pc = "load" /\ q.op = "get" /\ q.src = l /\ q.doomed = {}
    BY DEF Idle, Request, PCs, Statuses, AllOperations, Location
  <2> HIDE DEF q
  <2>3. Shape(q)
    BY <2>2 DEF Shape
  <2> QED BY <2>1, <2>2, <2>3, StartStep DEF q
<1>4. CASE StartDelete(r)
  <2>1. PICK b \in buckets : \E S \in SUBSET In(b) :
          Start(r, [Idle EXCEPT !.pc = "next", !.op = "delete",
                      !.bucket = b, !.todo = S])
    BY <1>4 DEF StartDelete
  <2>2. PICK S \in SUBSET In(b) :
          Start(r, [Idle EXCEPT !.pc = "next", !.op = "delete",
                      !.bucket = b, !.todo = S])
    BY <2>1
  <2> DEFINE q == [Idle EXCEPT !.pc = "next", !.op = "delete", !.bucket = b, !.todo = S]
  <2>3. S \subseteq Location /\ b \in Buckets
    BY <1>0 DEF In, Location
  <2>4. q \in Request /\ q.pc = "next" /\ q.op = "delete" /\ q.doomed = {}
    BY <2>3 DEF Idle, Request, PCs, Statuses, AllOperations
  <2> HIDE DEF q
  <2>5. Shape(q)
    BY <2>4 DEF Shape
  <2> QED BY <2>2, <2>4, <2>5, StartStep DEF q
<1>5. CASE StartEmpty(r)
  <2>1. PICK b \in buckets :
          Start(r, [Idle EXCEPT !.pc = "list", !.op = "empty",
                      !.bucket = b, !.todo = In(b)])
    BY <1>5 DEF StartEmpty
  <2> DEFINE q == [Idle EXCEPT !.pc = "list", !.op = "empty", !.bucket = b, !.todo = In(b)]
  <2>2. In(b) \subseteq Location /\ b \in Buckets
    BY <1>0 DEF In, Location
  <2>3. q \in Request /\ q.pc = "list" /\ q.op = "empty" /\ q.bucket = b
        /\ q.todo = In(b) /\ q.doomed = {}
    BY <2>2 DEF Idle, Request, PCs, Statuses, AllOperations
  <2> HIDE DEF q
  <2>4. Shape(q)
    BY <2>2, <2>3 DEF Shape
  <2> QED BY <2>1, <2>3, <2>4, StartStep DEF q
<1>6. ASSUME NEW b \in Buckets,
             NEW p \in {"force", "check", "insert"},
             NEW o \in {"force", "drop", "create"},
             p = "force" <=> o = "force",
             Start(r, [Idle EXCEPT !.pc = p, !.op = o, !.bucket = b])
      PROVE  IInv'
  <2> DEFINE q == [Idle EXCEPT !.pc = p, !.op = o, !.bucket = b]
  <2>1. q \in Request /\ q.pc = p /\ q.op = o /\ q.bucket = b /\ q.doomed = {}
    BY ZenonT(60) DEF Idle, Request, PCs, Statuses, AllOperations
  <2> HIDE DEF q
  <2>2. Shape(q)
    BY <1>6, <2>1 DEF Shape
  <2> QED BY <1>6, <2>1, <2>2, StartStep DEF q
<1>7. CASE StartForce(r)
  BY <1>0, <1>6, <1>7 DEF StartForce
<1>8. CASE StartDrop(r)
  BY <1>0, <1>6, <1>8, ZenonT(60) DEF StartDrop
<1>9. CASE StartCreate(r)
  BY <1>0, <1>6, <1>9 DEF StartCreate
<1> QED BY <1>1, <1>2, <1>3, <1>4, <1>5, <1>7, <1>8, <1>9

\* Reading rows and files, and ending without touching a row.
LEMMA LocalStepsPreserve ==
    ASSUME IInv, NEW r \in Requests,
           \/ BadDigest(r) \/ ReplaceRefused(r) \/ SweepFails(r) \/ Swept(r)
           \/ Respond(r) \/ Load(r) \/ LoadMissing(r) \/ LoadFails(r)
           \/ Open(r) \/ OpenFails(r) \/ NextKey(r) \/ DeleteRowMissing(r)
           \/ ListPage(r) \/ ListFails(r) \/ ForceRefused(r) \/ CheckEmpty(r)
           \/ DropRefused(r) \/ InsertRefused(r)
    PROVE  IInv'
<1> USE ConstantsAssumption
<1> DEFINE q == req[r]
<1>a. q \in Request /\ Shape(q) /\ TypeOK
  BY DEF IInv, TypeOK, RequestsOK
<1>b. q.pc # "idle" => phase = "serving"
  BY Serving
<1>c. /\ "ok" \in Statuses /\ "InternalError" \in Statuses /\ "NoSuchKey" \in Statuses
      /\ "Conflict" \in Statuses /\ q.status \in Statuses
  BY <1>a DEF Statuses, Request
<1>1. CASE BadDigest(r)
  <2> DEFINE D == {q.path}
             f == [q EXCEPT !.pc = "sweep", !.doomed = D, !.status = "BadDigest"]
  <2>1. q.pc = "replace" /\ q.path \in Paths /\ D \in SUBSET Paths
    BY <1>1, <1>a DEF BadDigest, Shape
  <2>2. f \in Request /\ f.pc = "sweep" /\ f.doomed = D
    <3>1. "sweep" \in PCs /\ "BadDigest" \in Statuses
      BY DEF PCs, Statuses
    <3> HIDE DEF D
    <3> QED BY <1>a, <2>1, <3>1, ZenonT(60) DEF Request
  <2>3. req' = [req EXCEPT ![r] = f] /\ UNCHANGED <<db, stale, disk, process>>
    BY <1>1 DEF BadDigest, Go
  <2>4. \A l \in Location : \A w \in Visible(l) : w.path # q.path
    BY <2>1 DEF IInv, PendingOwned, Pending
  <2> HIDE DEF f
  <2>5. Shape(f) /\ ~Pending(f) /\ KnownTo(f) = {q.path}
    BY <2>2, <2>4 DEF Shape, Pending, KnownTo
  <2>6. Pending(q)
    BY <2>1 DEF Pending
  <2> QED BY <1>b, <2>1, <2>2, <2>3, <2>5, <2>6, LocalStep
<1>2. CASE ReplaceRefused(r)
  <2>1. q.pc = "replace" /\ q.path \in Paths
    BY <1>2, <1>a DEF ReplaceRefused, Shape
  <2>2. PICK s \in Statuses : Finish(r, s, {q.path})
    BY <1>2 DEF ReplaceRefused
  <2>3. UNCHANGED <<db, stale, disk, process>> /\ Pending(q)
    BY <1>2, <2>1 DEF ReplaceRefused, Pending
  <2> QED BY <2>1, <2>2, <2>3, FinishStep
<1>3. CASE SweepFails(r)
  <2>1. q.pc = "sweep"
    BY <1>3 DEF SweepFails
  <2>2. PICK p \in q.doomed :
          Go(r, [q EXCEPT
                    !.doomed = IF q.op = "empty" THEN {} ELSE @ \ {p},
                    !.status = IF q.op \in {"delete", "empty", "force"}
                               THEN "InternalError" ELSE @])
    BY <1>3 DEF SweepFails
  <2> DEFINE D == IF q.op = "empty" THEN {} ELSE q.doomed \ {p}
             z == IF q.op \in {"delete", "empty", "force"} THEN "InternalError"
                  ELSE q.status
             f == [q EXCEPT !.doomed = D, !.status = z]
  <2>3. req' = [req EXCEPT ![r] = f] /\ UNCHANGED <<db, stale, disk, process>>
    BY <1>3, <2>2 DEF SweepFails, Go
  <2>4. D \subseteq q.doomed /\ z \in Statuses
    BY <1>c
  <2> HIDE DEF D, z
  <2>5. f \in Request /\ f.pc = "sweep" /\ f.doomed = D
    BY <1>a, <2>1, <2>4, ZenonT(60) DEF Request
  <2> HIDE DEF f
  <2>6. Shape(f) /\ ~Pending(f) /\ KnownTo(f) = D /\ KnownTo(q) = q.doomed
    BY <1>a, <2>1, <2>4, <2>5 DEF Shape, Pending, KnownTo
  <2> QED BY <1>b, <2>1, <2>3, <2>4, <2>5, <2>6, LocalStep
<1>4. CASE Swept(r)
  <2>1. q.pc = "sweep" /\ UNCHANGED <<db, stale, disk, process>>
    BY <1>4 DEF Swept
  <2>2. CASE q.op = "delete" /\ q.status = "ok"
    <3> DEFINE f == [q EXCEPT !.pc = "next"]
    <3>1. req' = [req EXCEPT ![r] = f]
      BY <1>4, <2>2 DEF Swept, Go
    <3>2. f \in Request /\ f.pc = "next" /\ f.op = "delete"
      BY <1>a, <2>2 DEF Request, PCs
    <3> HIDE DEF f
    <3>3. Shape(f) /\ ~Pending(f) /\ KnownTo(f) = {}
      BY <3>2 DEF Shape, Pending, KnownTo
    <3> QED BY <1>b, <2>1, <3>1, <3>2, <3>3, LocalStep
  <2>3. CASE ~(q.op = "delete" /\ q.status = "ok")
    BY <1>4, <1>c, <2>1, <2>3, AnswerStep DEF Swept
  <2> QED BY <2>2, <2>3
<1>5. CASE Respond(r)
  <2>1. Idle \in Request /\ Idle.pc = "idle"
    BY DEF Idle, Request, PCs, Statuses
  <2>2. Shape(Idle) /\ ~Pending(Idle) /\ KnownTo(Idle) = {}
    BY <2>1 DEF Shape, Pending, KnownTo
  <2>3. q.pc = "respond" /\ req' = [req EXCEPT ![r] = Idle]
        /\ UNCHANGED <<db, stale, disk, process>>
    BY <1>5 DEF Respond, Go
  <2> QED BY <1>b, <2>1, <2>2, <2>3, LocalStep
<1>6. CASE Load(r)
  <2>1. q.pc = "load" /\ q.src \in Location /\ q.op \in {"get", "copy", "delete"}
    BY <1>6, <1>a DEF Load, Shape
  <2> DEFINE next == IF q.op = "delete" THEN "deleteRow" ELSE "open"
  <2>2. PICK w \in Visible(q.src) : Go(r, [q EXCEPT !.row = w, !.pc = next])
    BY <1>6 DEF Load
  <2> DEFINE f == [q EXCEPT !.row = w, !.pc = next]
  <2>3. w \in Row /\ w.path \in Paths
    BY <1>a, <2>1, VisibleRow
  <2>4. f \in Request /\ f.row = w /\ f.pc = next /\ f.op = q.op /\ f.loc = q.loc
        /\ f.bucket = q.bucket
    <3>1. next \in PCs
      BY DEF PCs
    <3> HIDE DEF next
    <3> QED BY <1>a, <2>3, <3>1, ZenonT(60) DEF Request
  <2>5. req' = [req EXCEPT ![r] = f] /\ UNCHANGED <<db, stale, disk, process>>
    BY <1>6, <2>2 DEF Load, Go
  <2>6. files[w.path].body = w.etag
    BY <2>1 DEF IInv, RowsHaveFiles
  <2>7. \A l \in Location : \A v \in Visible(l) : v.path = w.path => l = q.src
    BY <2>1 DEF IInv, PathsNotShared
  <2> HIDE DEF f
  <2>8. Shape(f)
    BY <1>a, <2>1, <2>3, <2>4, <2>6, <2>7 DEF Shape, HasTarget
  <2>9. ~Pending(f) /\ KnownTo(f) = {w.path}
    BY <2>4 DEF Pending, KnownTo
  <2> QED BY <1>b, <2>1, <2>4, <2>5, <2>8, <2>9, LocalStep
<1>7. CASE LoadMissing(r)
  <2>1. q.pc = "load" /\ UNCHANGED <<db, stale, disk, process>>
    BY <1>7 DEF LoadMissing
  <2>2. CASE q.op = "delete"
    <3> DEFINE f == [q EXCEPT !.pc = "next"]
    <3>1. req' = [req EXCEPT ![r] = f]
      BY <1>7, <2>2 DEF LoadMissing, Go
    <3>2. f \in Request /\ f.pc = "next" /\ f.op = "delete"
      BY <1>a, <2>2 DEF Request, PCs
    <3> HIDE DEF f
    <3>3. Shape(f) /\ ~Pending(f) /\ KnownTo(f) = {}
      BY <3>2 DEF Shape, Pending, KnownTo
    <3> QED BY <1>b, <2>1, <3>1, <3>2, <3>3, LocalStep
  <2>3. CASE q.op # "delete"
    BY <1>7, <1>c, <2>1, <2>3, AnswerStep DEF LoadMissing
  <2> QED BY <2>2, <2>3
<1>8. CASE LoadFails(r)
  BY <1>8, <1>c, AnswerStep DEF LoadFails
<1>9. CASE Open(r)
  <2>1. q.pc = "open" /\ UNCHANGED <<db, stale, disk, process>>
        /\ files[q.row.path] # None /\ q.row \in Row
    BY <1>9, <1>a DEF Open, Shape
  <2>2. CASE q.op = "get"
    BY <1>9, <1>c, <2>1, <2>2, AnswerStep DEF Open
  <2>3. CASE q.op # "get"
    <3> DEFINE f == [q EXCEPT !.pc = "create", !.etag = q.row.etag,
                              !.body = files[q.row.path].body]
    <3>1. req' = [req EXCEPT ![r] = f]
      BY <1>9, <2>3 DEF Open, Go
    <3>2. q.op = "copy" /\ HasTarget(q) /\ files[q.row.path].body = q.row.etag
          /\ q.row.etag \in Bodies
      BY <1>a, <2>1, <2>3 DEF Shape, Row
    <3>3. f \in Request /\ f.pc = "create" /\ f.op = "copy" /\ f.etag = q.row.etag
          /\ f.body = q.row.etag /\ f.loc = q.loc /\ f.bucket = q.bucket
      BY <1>a, <3>2, ZenonT(60) DEF Request, PCs
    <3> HIDE DEF f
    <3>4. Shape(f) /\ ~Pending(f) /\ KnownTo(f) = {}
      BY <3>2, <3>3 DEF Shape, HasTarget, Pending, KnownTo
    <3> QED BY <1>b, <2>1, <3>1, <3>3, <3>4, LocalStep
  <2> QED BY <2>2, <2>3
<1>10. CASE OpenFails(r)
  BY <1>10, <1>c, AnswerStep DEF OpenFails
<1>11. CASE NextKey(r)
  <2>1. q.pc = "next" /\ q.op = "delete" /\ UNCHANGED <<db, stale, disk, process>>
    BY <1>11, <1>a DEF NextKey, Shape
  <2>2. CASE q.todo = {} /\ Answer(r, "ok")
    BY <1>c, <2>1, <2>2, AnswerStep
  <2>3. ASSUME NEW l \in q.todo,
               Go(r, [q EXCEPT !.pc = "load", !.loc = l, !.src = l, !.todo = @ \ {l}])
        PROVE  IInv'
    <3> DEFINE f == [q EXCEPT !.pc = "load", !.loc = l, !.src = l, !.todo = @ \ {l}]
    <3>1. req' = [req EXCEPT ![r] = f]
      BY <2>3 DEF Go
    <3>2. l \in Location
      BY <1>a DEF Request
    <3>3. f \in Request /\ f.pc = "load" /\ f.op = "delete" /\ f.src = l /\ f.loc = l
      BY <1>a, <2>1, <3>2, ZenonT(60) DEF Request, PCs
    <3> HIDE DEF f
    <3>4. Shape(f) /\ ~Pending(f) /\ KnownTo(f) = {}
      BY <3>2, <3>3 DEF Shape, Pending, KnownTo
    <3> QED BY <1>b, <2>1, <3>1, <3>3, <3>4, LocalStep
  <2> QED BY <1>11, <2>2, <2>3 DEF NextKey
<1>12. CASE DeleteRowMissing(r)
  BY <1>12, <1>c, FinishStep DEF DeleteRowMissing
<1>13. CASE ListPage(r)
  <2>1. q.pc = "list" /\ UNCHANGED <<db, stale, disk, process>>
    BY <1>13 DEF ListPage
  <2>2. PICK page \in SUBSET q.todo :
          Go(r, [q EXCEPT !.todo = @ \ page, !.doomed = @ \cup PathsOf(page)])
    BY <1>13 DEF ListPage
  <2> DEFINE f == [q EXCEPT !.todo = @ \ page, !.doomed = @ \cup PathsOf(page)]
  <2>3. req' = [req EXCEPT ![r] = f]
    BY <2>2 DEF Go
  <2>4. page \subseteq Location /\ page \subseteq In(q.bucket) /\ q.op = "empty"
        /\ q.bucket \in Buckets
    BY <1>a, <2>1 DEF Request, Shape
  <2>5. \A p \in PathsOf(page) :
          p \in Paths /\ \E l \in page : \E w \in Visible(l) : w.path = p
    BY <1>a, <2>4, PathsOfVisible
  <2>6. f \in Request /\ f.pc = "list" /\ f.op = "empty" /\ f.bucket = q.bucket
        /\ f.todo = q.todo \ page /\ f.doomed = q.doomed \cup PathsOf(page)
    BY <1>a, <2>1, <2>4, <2>5 DEF Request
  <2> HIDE DEF f
  <2>7. \A l \in Location : \A w \in Visible(l) : w.path \in f.doomed => l \in In(q.bucket)
    BY <1>a, <2>1, <2>4, <2>5, <2>6 DEF Shape, IInv, PathsNotShared
  <2>8. Shape(f)
    BY <1>a, <2>1, <2>4, <2>6, <2>7 DEF Shape
  <2>9. ~Pending(f) /\ KnownTo(f) = f.doomed /\ KnownTo(q) = q.doomed
    BY <2>1, <2>6 DEF Pending, KnownTo
  <2>10. \A p \in KnownTo(f) :
           p \in KnownTo(q) \/ \E l \in Location : \E w \in Visible(l) : w.path = p
    BY <2>4, <2>5, <2>6, <2>9
  <2> QED BY <1>b, <2>1, <2>3, <2>6, <2>8, <2>9, <2>10, LocalStep
<1>14. CASE ListFails(r)
  BY <1>14, <1>c, AnswerStep DEF ListFails
<1>15. CASE ForceRefused(r)
  <2>1. PICK s \in Statuses : Finish(r, s, {})
    BY <1>15 DEF ForceRefused
  <2> QED BY <1>15, <2>1, FinishStep DEF ForceRefused
<1>16. CASE CheckEmpty(r)
  <2>1. q.pc = "check" /\ UNCHANGED <<db, stale, disk, process>>
        /\ q.op \in {"drop", "create"} /\ q.bucket \in Buckets
    BY <1>16, <1>a DEF CheckEmpty, Shape
  <2>2. CASE Answer(r, "Conflict") \/ Answer(r, "InternalError")
    BY <1>c, <2>1, <2>2, AnswerStep
  <2>3. CASE Go(r, [q EXCEPT !.pc = "drop"])
    <3> DEFINE f == [q EXCEPT !.pc = "drop"]
    <3>1. req' = [req EXCEPT ![r] = f]
      BY <2>3 DEF Go
    <3>2. f \in Request /\ f.pc = "drop" /\ f.op = q.op /\ f.bucket = q.bucket
      BY <1>a DEF Request, PCs
    <3> HIDE DEF f
    <3>3. Shape(f) /\ ~Pending(f) /\ KnownTo(f) = {}
      BY <2>1, <3>2 DEF Shape, Pending, KnownTo
    <3> QED BY <1>b, <2>1, <3>1, <3>2, <3>3, LocalStep
  <2> QED BY <1>16, <2>2, <2>3 DEF CheckEmpty
<1>17. CASE DropRefused(r)
  <2>1. PICK s \in Statuses : Finish(r, s, {})
    BY <1>17 DEF DropRefused
  <2> QED BY <1>17, <2>1, FinishStep DEF DropRefused
<1>18. CASE InsertRefused(r)
  <2>1. PICK s \in Statuses : Finish(r, s, {})
    BY <1>18 DEF InsertRefused, InsertErrors, Statuses
  <2> QED BY <1>18, <2>1, FinishStep DEF InsertRefused
<1> QED BY <1>1, <1>2, <1>3, <1>4, <1>5, <1>6, <1>7, <1>8, <1>9, <1>10, <1>11,
           <1>12, <1>13, <1>14, <1>15, <1>16, <1>17, <1>18

-----------------------------------------------------------------------------
(* Steps that change rows or the cache                                     *)

\* Removing the rows of S leaves every row visible until the eviction; the
\* request may name for removal only paths that S alone shows.
LEMMA RemoveStep ==
    ASSUME IInv, NEW r \in Requests, NEW S \in SUBSET Location,
           NEW s \in Statuses, NEW D \in SUBSET Paths,
           req[r].pc # "idle",
           objects' = [l \in Location |-> IF l \in S THEN None ELSE objects[l]],
           stale' = Supersede(S),
           Finish(r, s, D),
           UNCHANGED <<disk, process>>,
           buckets' \subseteq Buckets,
           RowsInBuckets',
           \A l \in Location : \A w \in Visible(l) :
              w.path \in D => l \in S /\ l \in Evicted(req[r]),
           \A p \in D : \/ p \in KnownTo(req[r])
                        \/ \E l \in Location : \E w \in Visible(l) : w.path = p
    PROVE  IInv'
<1> DEFINE f == FinishRec(req[r], s, D)
<1>1. req' = [req EXCEPT ![r] = f]
  BY DEF Finish, Go, FinishRec
<1>2. f \in Request /\ f.pc = "evict" /\ f.doomed = D /\ f.op = req[r].op
      /\ f.loc = req[r].loc /\ f.bucket = req[r].bucket
  <2>1. TypeOK BY DEF IInv
  <2>2. FinishRec(req[r], s, D) \in Request
    BY <2>1, FinishType
  <2>3. /\ FinishRec(req[r], s, D).pc = "evict" /\ FinishRec(req[r], s, D).doomed = D
        /\ FinishRec(req[r], s, D).op = req[r].op
        /\ FinishRec(req[r], s, D).loc = req[r].loc
        /\ FinishRec(req[r], s, D).bucket = req[r].bucket
    BY <2>1, FinishType
  <2> QED BY <2>2, <2>3
<1> USE ConstantsAssumption
<1> HIDE DEF f
<1>3. req'[r] = f
  BY <1>1 DEF IInv, TypeOK
<1>4. \A l \in Location : stale'[l] \subseteq Visible(l)
  BY DEF Supersede, Visible
<1>5. \A l \in Location : objects'[l] # None => objects'[l] = objects[l] /\ l \notin S
  OBVIOUS
<1>6. \A l \in Location : Visible(l)' = stale'[l] \cup ({objects'[l]} \ {None})
  BY DEF Visible
<1>7. \A l \in Location : \A w \in Visible(l)' : w \in Visible(l)
  BY <1>4, <1>5, <1>6 DEF Visible
<1>8. stale' \in [Location -> SUBSET Row]
  BY DEF Supersede, IInv, TypeOK
<1>9. objects' \in [Location -> Row \cup {None}]
  BY DEF IInv, TypeOK
<1>10. ~Pending(req'[r]) /\ KnownTo(req'[r]) = D
  BY <1>2, <1>3 DEF Pending, KnownTo
<1>11. DbStep(r)
  BY <1>1, <1>2, <1>4, <1>5, <1>7, <1>8, <1>9, <1>10, Serving DEF DbStep
<1>12. \A l \in Location :
         /\ objects'[l] # None => objects'[l].path \notin D
         /\ \A w \in stale'[l] : w.path \in D => l \in Evicted(f)
  BY <1>2, <1>4, <1>5 DEF Visible, Evicted
<1>13. Shape(req[r])'
  BY <1>2, <1>3, <1>12 DEF Shape
<1> QED BY <1>11, <1>13, DbStepPreserves

\* The statements that delete rows.
LEMMA RemovalsPreserve ==
    ASSUME IInv, NEW r \in Requests,
           \/ DeleteRow(r) \/ DeleteRowFails(r) \/ DeleteAll(r)
           \/ DeleteAllFails(r) \/ ForceDelete(r)
    PROVE  IInv'
<1> USE ConstantsAssumption
<1> DEFINE q == req[r]
<1>a. q \in Request /\ Shape(q) /\ TypeOK
  BY DEF IInv, TypeOK, RequestsOK
<1>b. "ok" \in Statuses /\ "InternalError" \in Statuses
  BY DEF Statuses
<1>c. \A b \in Buckets : In(b) \in SUBSET Location
  BY DEF In, Location
<1>1. ASSUME q.pc = "deleteRow",
             objects' = [objects EXCEPT ![q.loc] = None],
             buckets' = buckets
      PROVE  /\ q.loc \in Location
             /\ objects' = [l \in Location |-> IF l \in {q.loc} THEN None ELSE objects[l]]
             /\ buckets' \subseteq Buckets
             /\ RowsInBuckets'
  BY <1>1, <1>a DEF Shape, TypeOK, IInv, RowsInBuckets
<1>2. CASE DeleteRow(r)
  <2>1. q.pc = "deleteRow" /\ q.op = "delete" /\ q.row \in Row /\ q.row.path \in Paths
    BY <1>2, <1>a DEF DeleteRow, Shape, Row
  <2>2. stale' = Supersede({q.loc}) /\ Finish(r, "ok", {q.row.path})
        /\ UNCHANGED <<disk, process>> /\ objects' = [objects EXCEPT ![q.loc] = None]
        /\ buckets' = buckets
    BY <1>2 DEF DeleteRow
  <2>3. \A l \in Location : \A w \in Visible(l) :
          w.path \in {q.row.path} => l \in {q.loc} /\ l \in Evicted(q)
    BY <1>a, <2>1 DEF Shape, Evicted
  <2>4. \A p \in {q.row.path} : p \in KnownTo(q)
    BY <2>1 DEF KnownTo
  <2> DEFINE S == {q.loc}
             D == {q.row.path}
  <2>5. S \in SUBSET Location /\ D \in SUBSET Paths /\ q.pc # "idle"
    BY <1>1, <2>1, <2>2
  <2>6. objects' = [l \in Location |-> IF l \in S THEN None ELSE objects[l]]
        /\ buckets' \subseteq Buckets /\ RowsInBuckets'
    BY <1>1, <2>1, <2>2
  <2>7. stale' = Supersede(S) /\ Finish(r, "ok", D) /\ UNCHANGED <<disk, process>>
    BY <2>2
  <2>8. /\ \A l \in Location : \A w \in Visible(l) :
            w.path \in D => l \in S /\ l \in Evicted(q)
        /\ \A p \in D : p \in KnownTo(q)
    BY <2>3, <2>4
  <2> HIDE DEF S, D
  <2> QED BY <1>b, <2>5, <2>6, <2>7, <2>8, RemoveStep
<1>3. CASE DeleteRowFails(r)
  <2>1. q.pc = "deleteRow" /\ Finish(r, "InternalError", {})
        /\ UNCHANGED <<buckets, disk, process>>
    BY <1>3 DEF DeleteRowFails
  <2>2. CASE UNCHANGED <<objects, stale>>
    BY <1>b, <2>1, <2>2, FinishStep DEF db
  <2>3. CASE objects' = [objects EXCEPT ![q.loc] = None] /\ stale' = Supersede({q.loc})
    <3> DEFINE S == {q.loc}
               D == {}
    <3>1. S \in SUBSET Location /\ D \in SUBSET Paths /\ q.pc # "idle"
      BY <1>1, <2>1, <2>3
    <3>2. objects' = [l \in Location |-> IF l \in S THEN None ELSE objects[l]]
          /\ buckets' \subseteq Buckets /\ RowsInBuckets'
      BY <1>1, <2>1, <2>3
    <3>3. stale' = Supersede(S) /\ Finish(r, "InternalError", D)
          /\ UNCHANGED <<disk, process>> /\ \A p : p \notin D
      BY <2>1, <2>3
    <3> HIDE DEF S, D
    <3> QED BY <1>b, <3>1, <3>2, <3>3, RemoveStep
  <2> QED BY <1>3, <2>2, <2>3 DEF DeleteRowFails
<1>4. CASE DeleteAll(r)
  <2>1. q.pc = "list" /\ q.op = "empty" /\ q.bucket \in Buckets /\ q.doomed \in SUBSET Paths
    BY <1>4, <1>a DEF DeleteAll, Shape, Request
  <2>2. objects' = [l \in Location |-> IF l \in In(q.bucket) THEN None ELSE objects[l]]
        /\ stale' = Supersede(In(q.bucket)) /\ Finish(r, "ok", q.doomed)
        /\ UNCHANGED <<buckets, disk, process>>
    BY <1>4 DEF DeleteAll
  <2>3. \A l \in Location : \A w \in Visible(l) :
          w.path \in q.doomed => l \in In(q.bucket) /\ l \in Evicted(q)
    BY <1>a, <2>1 DEF Shape, Evicted
  <2>4. \A p \in q.doomed : p \in KnownTo(q)
    BY <2>1 DEF KnownTo
  <2>5. buckets' \subseteq Buckets /\ RowsInBuckets'
    BY <2>2 DEF IInv, TypeOK, RowsInBuckets
  <2> QED BY <1>b, <1>c, <2>1, <2>2, <2>3, <2>4, <2>5, RemoveStep
<1>5. CASE DeleteAllFails(r)
  <2>1. q.pc = "list" /\ q.op = "empty" /\ q.bucket \in Buckets
        /\ Finish(r, "InternalError", {}) /\ UNCHANGED <<buckets, disk, process>>
    BY <1>5, <1>a DEF DeleteAllFails, Shape
  <2>2. CASE UNCHANGED <<objects, stale>>
    BY <1>b, <2>1, <2>2, FinishStep DEF db
  <2>3. CASE /\ objects' = [l \in Location |-> IF l \in In(q.bucket) THEN None
                                                                   ELSE objects[l]]
             /\ stale' = Supersede(In(q.bucket))
    <3>1. buckets' \subseteq Buckets /\ RowsInBuckets'
      BY <2>1, <2>3 DEF IInv, TypeOK, RowsInBuckets
    <3>2. In(q.bucket) \in SUBSET Location /\ {} \in SUBSET Paths /\ q.pc # "idle"
      BY <1>c, <2>1
    <3> HIDE DEF q
    <3>3. UNCHANGED <<disk, process>>
      BY <2>1
    <3> QED BY <1>b, <2>1, <2>3, <3>1, <3>2, <3>3, RemoveStep DEF q
  <2> QED BY <1>5, <2>2, <2>3 DEF DeleteAllFails
<1>6. CASE ForceDelete(r)
  <2>1. q.pc = "force" /\ q.op = "force" /\ q.bucket \in Buckets
    BY <1>6, <1>a DEF ForceDelete, Shape
  <2>2. objects' = [l \in Location |-> IF l \in In(q.bucket) THEN None ELSE objects[l]]
        /\ stale' = Supersede(In(q.bucket)) /\ Finish(r, "ok", PathsOf(In(q.bucket)))
        /\ UNCHANGED <<disk, process>> /\ buckets' = buckets \ {q.bucket}
    BY <1>6 DEF ForceDelete
  <2>3. \A p \in PathsOf(In(q.bucket)) :
          p \in Paths /\ \E l \in In(q.bucket) : l \in Location /\ \E w \in Visible(l) : w.path = p
    BY <1>a, <1>c, <2>1, PathsOfVisible
  <2>4. \A l \in Location : \A w \in Visible(l) :
          w.path \in PathsOf(In(q.bucket)) => l \in In(q.bucket) /\ l \in Evicted(q)
    BY <2>1, <2>3 DEF IInv, PathsNotShared, Evicted
  <2>5. buckets' \subseteq Buckets
    BY <2>2 DEF IInv, TypeOK
  <2>6. RowsInBuckets'
    <3> SUFFICES ASSUME NEW l \in Location, objects'[l] # None
                 PROVE  l[1] \in buckets'
      BY DEF RowsInBuckets
    <3>1. l \notin In(q.bucket) /\ objects[l] # None
      BY <2>2
    <3>2. l[1] \in buckets /\ l[1] # q.bucket
      BY <3>1 DEF IInv, RowsInBuckets, In, Location
    <3> QED BY <2>2, <3>2
  <2> QED BY <1>b, <1>c, <2>1, <2>2, <2>3, <2>4, <2>5, <2>6, RemoveStep
<1> QED BY <1>2, <1>3, <1>4, <1>5, <1>6

\* The commit of a write: the pending file becomes visible, and the file of
\* the replaced row is no longer referenced.
LEMMA ReplacePreserves ==
    ASSUME IInv, NEW r \in Requests, Replace(r)
    PROVE  IInv'
<1> USE ConstantsAssumption
<1> DEFINE q == req[r]
           D == PathsOf({q.loc})
           f == FinishRec(q, "ok", D)
<1>1. q \in Request /\ Shape(q) /\ TypeOK /\ q.pc = "replace" /\ q.bucket \in buckets
  BY DEF IInv, TypeOK, RequestsOK, Replace
<1>2. q.loc \in Location /\ q.bucket = q.loc[1] /\ q.op \in {"put", "copy"}
      /\ q.path \in Paths /\ q.etag \in Bodies
  BY <1>1 DEF Shape, HasTarget
<1>3. NewRow(q) \in Row /\ NewRow(q).path = q.path
  BY <1>2 DEF NewRow, Row
<1>4. objects' = [objects EXCEPT ![q.loc] = NewRow(q)] /\ stale' = Supersede({q.loc})
      /\ req' = [req EXCEPT ![r] = f] /\ UNCHANGED <<buckets, disk, process>>
  BY DEF Replace, NewRow, Finish, Go, FinishRec
<1>5. \A p \in D : p \in Paths /\ \E w \in Visible(q.loc) : w.path = p
  BY <1>1, <1>2, PathsOfVisible
<1>6. f \in Request /\ f.pc = "evict" /\ f.doomed = D /\ f.op = q.op /\ f.loc = q.loc
  <2>1. "ok" \in Statuses /\ D \in SUBSET Paths
    BY <1>5 DEF Statuses
  <2> HIDE DEF D
  <2> QED BY <1>1, <2>1, FinishType
<1> HIDE DEF f, D
<1>7. req'[r] = f
  BY <1>1, <1>4 DEF TypeOK
<1>8. \A l \in Location : stale'[l] \subseteq Visible(l)
  BY <1>4 DEF Supersede, Visible
<1>9. /\ objects'[q.loc] = NewRow(q)
      /\ \A l \in Location : l # q.loc => objects'[l] = objects[l]
  BY <1>1, <1>2, <1>4 DEF TypeOK
<1>10. \A l \in Location : Visible(l)' = stale'[l] \cup ({objects'[l]} \ {None})
  BY DEF Visible
<1>11. \A l \in Location : \A w \in Visible(l)' :
         w \in Visible(l) \/ (l = q.loc /\ w = NewRow(q))
  BY <1>8, <1>9, <1>10 DEF Visible
<1>12. stale' \in [Location -> SUBSET Row] /\ objects' \in [Location -> Row \cup {None}]
  <2> HIDE DEF q
  <2>1. \A l \in Location : objects[l] # None => objects[l] \in Row
    BY <1>1 DEF TypeOK
  <2>2. stale' \in [Location -> SUBSET Row]
    BY <1>1, <1>4, <2>1 DEF Supersede, TypeOK
  <2>3. objects' \in [Location -> Row \cup {None}]
    BY <1>1, <1>3, <1>4 DEF TypeOK
  <2> QED BY <2>2, <2>3
<1>13. ~Pending(req'[r]) /\ KnownTo(req'[r]) = D
  BY <1>6, <1>7 DEF Pending, KnownTo
<1>14. DbStep(r)
  <2>1. phase = "serving"
    BY <1>1, Serving
  <2>2. \A p \in KnownTo(req'[r]) : \E l \in Location : \E w \in Visible(l) : w.path = p
    BY <1>2, <1>5, <1>13
  <2>3. \A l \in Location : objects'[l] # None =>
          objects'[l] = objects[l] \/ (l = q.loc /\ objects'[l] = NewRow(q))
    BY <1>9
  <2>4. \E g \in Request : req' = [req EXCEPT ![r] = g]
    BY <1>4, <1>6
  <2>5. buckets' \subseteq Buckets
    BY <1>1, <1>4 DEF TypeOK
  <2> QED BY <1>1, <1>4, <1>8, <1>11, <1>12, <1>13, <2>1, <2>2, <2>3, <2>4, <2>5 DEF DbStep
<1>15. RowsInBuckets'
  BY <1>1, <1>2, <1>4, <1>9 DEF IInv, RowsInBuckets
<1>16. \A l \in Location : \A w \in Visible(l) : w.path \in D => l = q.loc
  BY <1>2, <1>5 DEF IInv, PathsNotShared
<1>17. q.path \notin D
  BY <1>1, <1>2, <1>5 DEF IInv, PendingOwned, Pending
<1>18. \A l \in Location :
         /\ objects'[l] # None => objects'[l].path \notin D
         /\ \A w \in stale'[l] : w.path \in D => l \in Evicted(f)
  <2>1. \A l \in Location : l # q.loc /\ objects[l] # None => objects[l].path \notin D
    BY <1>16 DEF Visible
  <2>2. Evicted(f) = {q.loc}
    BY <1>2, <1>6 DEF Evicted
  <2> QED BY <1>3, <1>8, <1>9, <1>16, <1>17, <2>1, <2>2
<1>19. Shape(req[r])'
  BY <1>6, <1>7, <1>18 DEF Shape
<1> QED BY <1>14, <1>15, <1>19, DbStepPreserves

\* After the eviction nothing that a reader can be given names a doomed file.
LEMMA EvictPreserves ==
    ASSUME IInv, NEW r \in Requests, Evict(r)
    PROVE  IInv'
<1> USE ConstantsAssumption
<1> DEFINE q == req[r]
           f == [q EXCEPT !.pc = "sweep"]
<1>1. q \in Request /\ Shape(q) /\ TypeOK /\ q.pc = "evict"
  BY DEF IInv, TypeOK, RequestsOK, Evict
<1>2. f \in Request /\ f.pc = "sweep" /\ f.doomed = q.doomed
  BY <1>1 DEF Request, PCs
<1>3. req' = [req EXCEPT ![r] = f] /\ UNCHANGED <<db, disk, process>>
      /\ stale' = [l \in Location |-> IF l \in Evicted(q) THEN {} ELSE stale[l]]
  BY DEF Evict, Go
<1> HIDE DEF f
<1>4. req'[r] = f /\ objects' = objects /\ buckets' = buckets
  BY <1>1, <1>3 DEF TypeOK, db
<1>5. \A l \in Location : stale'[l] \subseteq stale[l] /\ (l \in Evicted(q) => stale'[l] = {})
  BY <1>3
<1>6. \A l \in Location : Visible(l)' = stale'[l] \cup ({objects[l]} \ {None})
  BY <1>4 DEF Visible
<1>7. \A l \in Location : \A w \in Visible(l)' : w \in Visible(l)
  BY <1>5, <1>6 DEF Visible
<1>8. ~Pending(f) /\ KnownTo(f) = q.doomed /\ KnownTo(q) = q.doomed
  BY <1>1, <1>2 DEF Pending, KnownTo
<1>9. stale' \in [Location -> SUBSET Row]
  BY <1>1, <1>3 DEF TypeOK
<1>10. DbStep(r)
  <2>1. phase = "serving"
    BY <1>1, Serving
  <2>2. \A l \in Location : \A w \in stale'[l] : w \in Visible(l)
    BY <1>5 DEF Visible
  <2>3. buckets' \subseteq Buckets /\ objects' \in [Location -> Row \cup {None}]
    BY <1>1, <1>4 DEF TypeOK
  <2> QED BY <1>2, <1>3, <1>4, <1>7, <1>8, <1>9, <2>1, <2>2, <2>3 DEF DbStep
<1>11. RowsInBuckets'
  BY <1>4 DEF IInv, RowsInBuckets
<1>12. \A l \in Location : \A w \in Visible(l)' : w.path \notin q.doomed
  BY <1>1, <1>5, <1>6 DEF Shape
<1>13. Shape(req[r])'
  BY <1>2, <1>4, <1>12 DEF Shape
<1> QED BY <1>10, <1>11, <1>13, DbStepPreserves

\* Creating a bucket, and deleting one that has no rows.
LEMMA BucketsPreserve ==
    ASSUME IInv, NEW r \in Requests, DropBucket(r) \/ InsertBucket(r)
    PROVE  IInv'
<1> USE ConstantsAssumption
<1> DEFINE q == req[r]
           S == {}
           D == {}
<1>1. Shape(q) /\ TypeOK /\ q.pc \in {"drop", "insert"} /\ q.bucket \in Buckets
  BY DEF IInv, TypeOK, RequestsOK, DropBucket, InsertBucket, Shape
<1>2. UNCHANGED <<objects, stale, disk, process>>
  BY DEF DropBucket, InsertBucket
<1>3. PICK s \in Statuses : Finish(r, s, D)
  BY DEF DropBucket, InsertBucket, InsertErrors, Statuses
<1>4. buckets' \subseteq Buckets
  BY <1>1 DEF TypeOK, DropBucket, InsertBucket
<1>5. RowsInBuckets'
  <2>1. CASE InsertBucket(r)
    BY <1>2, <2>1 DEF InsertBucket, IInv, RowsInBuckets
  <2>2. CASE DropBucket(r)
    <3> SUFFICES ASSUME NEW l \in Location, objects[l] # None
                 PROVE  l[1] \in buckets'
      BY <1>2 DEF RowsInBuckets
    <3>1. l \notin In(q.bucket)
      BY <2>2 DEF DropBucket, PathsOf
    <3>2. l[1] # q.bucket
      BY <3>1 DEF In, Location
    <3> QED BY <2>2, <3>2 DEF DropBucket, IInv, RowsInBuckets
  <2> QED BY <2>1, <2>2
<1>6. objects' = [l \in Location |-> IF l \in S THEN None ELSE objects[l]]
      /\ stale' = Supersede(S)
  BY <1>1, <1>2 DEF TypeOK, Supersede
<1>7. S \in SUBSET Location /\ D \in SUBSET Paths /\ (\A p : p \notin D) /\ q.pc # "idle"
  BY <1>1
<1> HIDE DEF S, D
<1> QED BY <1>2, <1>3, <1>4, <1>5, <1>6, <1>7, RemoveStep

-----------------------------------------------------------------------------
(* Steps on the disk                                                       *)

\* A step that leaves rows and cache alone and that changes, of the disk, the
\* file of one path p.  Request r goes on with the record q.
FileStep(r, p, q) ==
    /\ phase = "serving"
    /\ UNCHANGED <<db, stale, process>>
    /\ req' = [req EXCEPT ![r] = q]
    /\ files' \in [Paths -> File \cup {None}]
    /\ \A o \in Paths : o # p => files'[o] = files[o]
    /\ tmp' \subseteq Paths
    /\ used' \subseteq Paths
    /\ used \subseteq used'
    /\ KnownTo(q) \subseteq KnownTo(req[r])

\* Such a step preserves the invariant when p is no row's file and no other
\* request's pending file, when its outcome is none or the content that p had
\* already for everyone else, and when the path that q holds is r's own.
LEMMA FileStepPreserves ==
    ASSUME IInv, NEW r \in Requests, NEW p, NEW q \in Request,
           FileStep(r, p, q), Shape(req[r])', DiskOK',
           \A l \in Location : \A w \in Visible(l) : w.path # p,
           \A s \in Requests : s # r /\ Pending(req[s]) => req[s].path # p,
           files'[p] = None \/ \A s \in Requests : p \notin KnownTo(req[s]),
           Pending(q) => /\ \/ q.path \notin used
                            \/ Pending(req[r]) /\ q.path = req[r].path
                         /\ q.path \in Paths
    PROVE  IInv'
<1> USE ConstantsAssumption
<1>1. req'[r] = q /\ \A s \in Requests : s # r => req'[s] = req[s]
  BY DEF IInv, TypeOK, FileStep
<1>2. TypeOK'
  BY DEF IInv, TypeOK, FileStep, db, process
<1>3. UNCHANGED <<objects, buckets, stale, phase, crashes>>
  BY DEF FileStep, db, process
<1>4. \A l \in Location : Visible(l)' = Visible(l)
  BY <1>3 DEF Visible
<1>5. \A l \in Location : \A w \in Visible(l) : files'[w.path] = files[w.path]
  BY VisibleRow DEF FileStep, IInv
<1>6. RowsHaveFiles' /\ PathsNotShared' /\ RowsInBuckets'
  BY <1>3, <1>4, <1>5 DEF IInv, RowsHaveFiles, PathsNotShared, RowsInBuckets
<1>7. RequestsOK'
  <2> SUFFICES ASSUME NEW s \in Requests, s # r
               PROVE  Shape(req[s])'
    BY DEF RequestsOK
  <2>1. req'[s] = req[s] /\ Shape(req[s])
    BY <1>1 DEF IInv, RequestsOK
  <2>2. Pending(req[s]) => /\ files'[req[s].path] = files[req[s].path]
                           /\ req[s].path \in used'
    BY <2>1 DEF FileStep, Shape, Pending
  <2>3. req[s].pc = "open" /\ files'[req[s].row.path] # None
          => files'[req[s].row.path].body = req[s].row.etag
    <3>1. req[s].pc = "open" => req[s].row.path \in KnownTo(req[s])
                                /\ req[s].row.path \in Paths
      BY <2>1 DEF KnownTo, Shape, Row
    <3> QED BY <2>1, <3>1 DEF FileStep, Shape
  <2> QED BY <1>3, <1>4, <2>1, <2>2, <2>3 DEF Shape, HasTarget, Evicted, In, Pending
<1>8. PendingOwned'
  <2> SUFFICES ASSUME NEW s \in Requests, Pending(req'[s])
               PROVE  /\ \A l \in Location : \A w \in Visible(l) : w.path # req'[s].path
                      /\ \A t \in Requests : req'[s].path \notin KnownTo(req'[t])
                      /\ \A t \in Requests :
                          Pending(req'[t]) /\ req'[t].path = req'[s].path => t = s
    BY <1>4 DEF PendingOwned, Pending, KnownTo
  <2>1. \A t \in Requests : KnownTo(req'[t]) \subseteq KnownTo(req[t])
    BY <1>1 DEF FileStep
  <2>2. \A l \in Location : \A w \in Visible(l) : w.path \in used
    BY VisibleRow DEF IInv, DiskOK, RowsHaveFiles
  <2>3. \A t \in Requests : KnownTo(req[t]) \subseteq used
    BY DEF IInv, KnownUsed
  <2>4. \A t \in Requests : Pending(req[t]) => req[t].path \in used
    BY DEF IInv, RequestsOK, Shape, Pending
  <2>5. CASE s # r /\ Pending(req[s])
    BY <1>1, <2>1, <2>4, <2>5 DEF IInv, PendingOwned
  <2>6. CASE s = r /\ q.path \notin used
    BY <1>1, <2>1, <2>2, <2>3, <2>4, <2>6
  <2>7. CASE s = r /\ Pending(req[r]) /\ q.path = req[r].path
    BY <1>1, <2>1, <2>7 DEF IInv, PendingOwned
  <2> QED BY <1>1, <2>5, <2>6, <2>7
<1>9. KnownUsed'
  BY <1>1 DEF FileStep, IInv, KnownUsed, KnownTo
<1>10. StartingOK'
  BY <1>3 DEF FileStep, StartingOK
<1> QED BY <1>2, <1>6, <1>7, <1>8, <1>9, <1>10 DEF IInv

\* Storage.Write: the temporary file is created, published, or given up.
LEMMA WritesPreserve ==
    ASSUME IInv, NEW r \in Requests, CreateTemp(r) \/ PublishFile(r) \/ WriteFails(r)
    PROVE  IInv'
<1> USE ConstantsAssumption
<1> DEFINE q == req[r]
<1>1. q \in Request /\ Shape(q) /\ TypeOK /\ q.pc \in {"create", "fill"} /\ phase = "serving"
  <2>1. q.pc \in {"create", "fill"}
    BY DEF CreateTemp, PublishFile, WriteFails
  <2> QED BY <2>1, Serving DEF IInv, TypeOK, RequestsOK
<1>2. CASE CreateTemp(r)
  <2>1. PICK p \in Paths \ used :
          /\ used' = used \cup {p}
          /\ tmp' = tmp \cup {p}
          /\ Go(r, [q EXCEPT !.pc = "fill", !.path = p])
    BY <1>2 DEF CreateTemp
  <2> DEFINE f == [q EXCEPT !.pc = "fill", !.path = p]
  <2>2. UNCHANGED <<db, stale, files, process>> /\ q.pc = "create"
    BY <1>2 DEF CreateTemp
  <2>3. f \in Request /\ f.pc = "fill" /\ f.path = p /\ f.op = q.op /\ f.loc = q.loc
        /\ f.bucket = q.bucket /\ f.body = q.body /\ f.etag = q.etag
    <3>1. q \in Request /\ p \in Paths \cup {None} /\ "fill" \in PCs
      BY <1>1 DEF PCs
    <3> HIDE DEF q
    <3> QED BY <3>1, ZenonT(60) DEF Request
  <2>4. req' = [req EXCEPT ![r] = f]
    BY <2>1 DEF Go
  <2> HIDE DEF f
  <2>5. req'[r] = f
    BY <1>1, <2>4 DEF TypeOK
  <2>6. files[p] = None
    BY <2>1 DEF IInv, DiskOK
  <2>7. Shape(req[r])'
    BY <1>1, <2>1, <2>2, <2>3, <2>5, <2>6 DEF Shape, HasTarget
  <2>8. DiskOK'
    BY <2>1, <2>2, <2>6 DEF IInv, DiskOK
  <2>9. KnownTo(f) = {}
    BY <2>3 DEF KnownTo
  <2>10. FileStep(r, p, f)
    BY <1>1, <2>1, <2>2, <2>4, <2>9 DEF FileStep, TypeOK
  <2>11. \A l \in Location : \A w \in Visible(l) : w.path # p
    BY <2>6 DEF IInv, RowsHaveFiles
  <2>12. \A s \in Requests : Pending(req[s]) => req[s].path # p
    BY <2>1 DEF IInv, RequestsOK, Shape, Pending
  <2> QED BY <2>1, <2>2, <2>3, <2>6, <2>7, <2>8, <2>10, <2>11, <2>12, FileStepPreserves
<1>3. CASE PublishFile(r)
  <2> DEFINE p == q.path
             c == [dir |-> q.bucket, body |-> q.body]
             f == [q EXCEPT !.pc = "replace"]
  <2>1. q.pc = "fill" /\ tmp' = tmp \ {p} /\ files' = [files EXCEPT ![p] = c]
        /\ req' = [req EXCEPT ![r] = f] /\ UNCHANGED <<db, stale, used, process>>
    BY <1>3 DEF PublishFile, Go
  <2>2. p \in Paths /\ p \in used /\ c \in File /\ q.loc \in Location
        /\ q.bucket = q.loc[1] /\ q.bucket \in Buckets
    BY <1>1, <2>1 DEF Shape, HasTarget, Location, File
  <2>3. f \in Request /\ f.pc = "replace" /\ f.path = p /\ f.op = q.op /\ f.loc = q.loc
        /\ f.bucket = q.bucket /\ f.body = q.body /\ f.etag = q.etag
    BY <1>1 DEF Request, PCs
  <2> HIDE DEF f
  <2>4. req'[r] = f /\ files'[p] = c
    BY <1>1, <2>1, <2>2 DEF TypeOK
  <2>5. Shape(req[r])'
    BY <1>1, <2>1, <2>2, <2>3, <2>4 DEF Shape, HasTarget
  <2> HIDE DEF p, c
  <2>6. DiskOK'
    BY <1>1, <2>1, <2>2 DEF IInv, DiskOK, TypeOK
  <2>7. KnownTo(f) = {} /\ Pending(q)
    BY <2>1, <2>3 DEF KnownTo, Pending
  <2>8. FileStep(r, p, f)
    BY <1>1, <2>1, <2>2, <2>7 DEF FileStep, TypeOK
  <2>9. /\ \A l \in Location : \A w \in Visible(l) : w.path # p
        /\ \A s \in Requests : s # r /\ Pending(req[s]) => req[s].path # p
        /\ \A s \in Requests : p \notin KnownTo(req[s])
    BY <2>7 DEF p, IInv, PendingOwned
  <2>10. f.path = q.path
    BY <2>3 DEF p
  <2> QED BY <2>2, <2>3, <2>5, <2>6, <2>7, <2>8, <2>9, <2>10, FileStepPreserves
<1> HIDE DEF q
<1>4. CASE WriteFails(r)
  <2> DEFINE f == AnswerRec(q, "InternalError")
             p == q.path
             c == [dir |-> q.bucket, body |-> q.body]
  <2>1. /\ req' = [req EXCEPT ![r] = f] /\ UNCHANGED <<db, stale, used, process>>
        /\ tmp' \in {tmp, tmp \ {p}}
        /\ \/ UNCHANGED files
           \/ q.pc = "fill" /\ tmp' = tmp \ {p} /\ files' = [files EXCEPT ![p] = c]
    BY <1>4 DEF WriteFails, Answer, Go, AnswerRec, q
  <2>2. f \in Request /\ f.pc = "respond"
    BY <1>1, AnswerType DEF q, Statuses
  <2> HIDE DEF f
  <2>3. req'[r] = f /\ Shape(f) /\ ~Pending(f) /\ KnownTo(f) = {}
    BY <1>1, <2>1, <2>2 DEF TypeOK, Shape, Pending, KnownTo
  <2>4. Shape(req[r])'
    BY <2>2, <2>3 DEF Shape
  <2>5. CASE UNCHANGED files
    <3>1. DiskOK'
      BY <2>1, <2>5 DEF IInv, DiskOK
    <3>2. FileStep(r, None, f)
      BY <1>1, <2>1, <2>3, <2>5 DEF FileStep, TypeOK
    <3>3. \A l \in Location : \A w \in Visible(l) : w.path # None
      BY <1>1, VisibleRow
    <3>4. \A s \in Requests : Pending(req[s]) => req[s].path # None
      BY DEF IInv, RequestsOK, Shape, Pending
    <3>5. \A s \in Requests : None \notin KnownTo(req[s])
      BY <1>1 DEF IInv, KnownUsed, TypeOK
    <3> QED BY <2>2, <2>3, <2>4, <3>1, <3>2, <3>3, <3>4, <3>5, FileStepPreserves
  <2>6. CASE q.pc = "fill" /\ tmp' = tmp \ {p} /\ files' = [files EXCEPT ![p] = c]
    <3>1. p \in Paths /\ p \in used /\ c \in File
      BY <1>1, <2>6 DEF Shape, HasTarget, Location, File
    <3>2. Pending(q)
      BY <2>6 DEF Pending
    <3>3. /\ \A l \in Location : \A w \in Visible(l) : w.path # p
          /\ \A s \in Requests : s # r /\ Pending(req[s]) => req[s].path # p
          /\ \A s \in Requests : p \notin KnownTo(req[s])
      BY <3>2 DEF q, IInv, PendingOwned
    <3> HIDE DEF p, c
    <3>4. DiskOK'
      BY <1>1, <2>1, <2>6, <3>1 DEF IInv, DiskOK, TypeOK
    <3>5. FileStep(r, p, f)
      BY <1>1, <2>1, <2>3, <2>6, <3>1 DEF FileStep, TypeOK
    <3> QED BY <2>2, <2>3, <2>4, <3>1, <3>3, <3>4, <3>5, FileStepPreserves
  <2> QED BY <2>1, <2>5, <2>6
<1> QED BY <1>2, <1>3, <1>4

\* Removing a doomed file takes nothing from any row or pending write.
LEMMA SweepPreserves ==
    ASSUME IInv, NEW r \in Requests, SweepFile(r)
    PROVE  IInv'
<1> USE ConstantsAssumption
<1> DEFINE q == req[r]
<1>1. q \in Request /\ Shape(q) /\ TypeOK /\ q.pc = "sweep" /\ phase = "serving"
  <2>1. q.pc = "sweep"
    BY DEF SweepFile
  <2> QED BY <2>1, Serving DEF IInv, TypeOK, RequestsOK
<1>2. PICK p \in q.doomed :
        /\ files' = [files EXCEPT ![p] = None]
        /\ Go(r, [q EXCEPT !.doomed = @ \ {p}])
  BY DEF SweepFile
<1> DEFINE f == [q EXCEPT !.doomed = @ \ {p}]
<1>3. UNCHANGED <<db, stale, tmp, used, process>>
  BY DEF SweepFile
<1>4. req' = [req EXCEPT ![r] = f]
  BY <1>2 DEF Go
<1>5. p \in Paths
  BY <1>1 DEF Request
<1>6. f \in Request /\ f.pc = "sweep" /\ f.doomed = q.doomed \ {p}
  <2> HIDE DEF q
  <2> QED BY <1>1 DEF Request
<1> HIDE DEF f
<1>7. req'[r] = f /\ files'[p] = None
  BY <1>1, <1>2, <1>4, <1>5 DEF TypeOK
<1>8. \A l \in Location : Visible(l)' = Visible(l)
  BY <1>3 DEF Visible, db
<1>9. Shape(req[r])'
  BY <1>1, <1>6, <1>7, <1>8 DEF Shape
<1>10. DiskOK'
  BY <1>1, <1>2, <1>3 DEF IInv, DiskOK, TypeOK
<1>11. p \in KnownTo(q) /\ KnownTo(f) \subseteq KnownTo(q) /\ ~Pending(f)
  BY <1>1, <1>6 DEF KnownTo, Pending
<1>12. FileStep(r, p, f)
  BY <1>1, <1>2, <1>3, <1>4, <1>5, <1>11 DEF FileStep, TypeOK
<1>13. \A l \in Location : \A w \in Visible(l) : w.path # p
  BY <1>1 DEF Shape
<1>14. \A s \in Requests : Pending(req[s]) => req[s].path # p
  BY <1>11 DEF IInv, PendingOwned
<1> QED BY <1>6, <1>7, <1>9, <1>10, <1>11, <1>12, <1>13, <1>14, FileStepPreserves

\* While nothing runs, an orphan is nobody's file.
LEMMA ReconcilePreserves ==
    ASSUME IInv, NEW p \in Paths, ReconcileFile(p)
    PROVE  IInv'
<1> USE ConstantsAssumption
<1>1. TypeOK /\ phase = "starting"
  BY DEF IInv, ReconcileFile
<1>2. /\ UNCHANGED <<buckets, objects, stale, used, req, phase, crashes>>
      /\ files' = [files EXCEPT ![p] = None]
      /\ tmp' = tmp \ {p}
  BY DEF ReconcileFile, db, process
<1>3. \A l \in Location : stale[l] = {} /\ Visible(l) = {objects[l]} \ {None}
  BY <1>1 DEF IInv, StartingOK, Visible
<1>4. \A r \in Requests : req[r].pc = "idle"
  BY <1>1 DEF IInv, StartingOK
<1>5. \A l \in Location : objects[l] # None => objects[l].path # p
  <2> SUFFICES ASSUME NEW l \in Location, objects[l] # None, objects[l].path = p
               PROVE  FALSE
    OBVIOUS
  <2>1. files[p] # None /\ files[p].dir = l[1]
    BY <1>3 DEF IInv, RowsHaveFiles
  <2>2. Orphan(p)
    BY <2>1 DEF ReconcileFile, IInv, DiskOK
  <2>3. l \in In(l[1])
    BY DEF In, Location
  <2> QED BY <2>1, <2>2, <2>3 DEF Orphan, PathsOf
<1>6. \A l \in Location : Visible(l)' = Visible(l)
  BY <1>2 DEF Visible
<1>7. TypeOK'
  BY <1>1, <1>2 DEF TypeOK
<1>8. RowsHaveFiles'
  <2> SUFFICES ASSUME NEW l \in Location, NEW w \in Visible(l)
               PROVE  files'[w.path] = files[w.path]
    BY <1>6 DEF IInv, RowsHaveFiles
  <2>1. w.path \in Paths /\ w.path # p
    BY <1>1, <1>3, <1>5, VisibleRow
  <2> QED BY <1>1, <1>2, <2>1 DEF TypeOK
<1>9. PathsNotShared' /\ RowsInBuckets'
  BY <1>2, <1>6 DEF IInv, PathsNotShared, RowsInBuckets
<1>10. RequestsOK' /\ PendingOwned' /\ KnownUsed' /\ StartingOK'
  <2>1. \A r \in Requests : Shape(req[r])' /\ ~Pending(req'[r]) /\ KnownTo(req'[r]) = {}
    BY <1>2, <1>4 DEF Shape, Pending, KnownTo
  <2> QED BY <1>2, <2>1 DEF RequestsOK, PendingOwned, KnownUsed, StartingOK, IInv
<1>11. DiskOK'
  BY <1>1, <1>2 DEF IInv, DiskOK, TypeOK
<1> QED BY <1>7, <1>8, <1>9, <1>10, <1>11 DEF IInv

\* A crash leaves rows and disk, and nothing else, as they are.
LEMMA CrashPreserves ==
    ASSUME IInv, Crash
    PROVE  IInv'
<1> USE ConstantsAssumption
<1>1. TypeOK
  BY DEF IInv
<1>2. /\ UNCHANGED <<buckets, objects, files, tmp, used>>
      /\ crashes < MaxCrashes /\ crashes' = crashes + 1
      /\ req' = [r \in Requests |-> Idle]
      /\ stale' = [l \in Location |-> {}]
      /\ phase' = "starting"
  BY DEF Crash, db, disk
<1>3. Idle \in Request /\ Idle.pc = "idle"
  BY DEF Idle, Request, PCs, Statuses
<1>4. \A r \in Requests : req'[r] = Idle
  BY <1>2
<1>5. \A l \in Location : Visible(l)' \subseteq Visible(l)
  BY <1>2 DEF Visible
<1>6. TypeOK'
  <2>1. crashes' \in 0..MaxCrashes
    BY <1>1, <1>2 DEF TypeOK
  <2>2. req' \in [Requests -> Request]
    BY <1>2, <1>3
  <2>3. stale' \in [Location -> SUBSET Row]
    BY <1>2
  <2> QED BY <1>1, <1>2, <2>1, <2>2, <2>3 DEF TypeOK
<1>7. RowsHaveFiles' /\ PathsNotShared' /\ RowsInBuckets'
  BY <1>2, <1>5 DEF IInv, RowsHaveFiles, PathsNotShared, RowsInBuckets
<1>8. \A r \in Requests : Shape(req[r])' /\ ~Pending(req'[r]) /\ KnownTo(req'[r]) = {}
  BY <1>3, <1>4 DEF Shape, Pending, KnownTo
<1>9. RequestsOK' /\ PendingOwned' /\ KnownUsed'
  BY <1>8 DEF RequestsOK, PendingOwned, KnownUsed
<1>10. DiskOK' /\ StartingOK'
  BY <1>2, <1>3, <1>4 DEF IInv, DiskOK, StartingOK
<1> QED BY <1>6, <1>7, <1>9, <1>10 DEF IInv

\* Going from reconciling to serving, and stuttering.
LEMMA ServePreserves ==
    ASSUME IInv, Serve \/ UNCHANGED vars
    PROVE  IInv'
<1>1. /\ UNCHANGED <<buckets, objects, stale, files, tmp, used, req, crashes>>
      /\ phase' = phase \/ phase' = "serving"
  BY DEF Serve, vars, db, disk, process
<1>2. \A l \in Location : Visible(l)' = Visible(l)
  BY <1>1 DEF Visible
<1>3. TypeOK'
  BY <1>1 DEF IInv, TypeOK
<1>4. RowsHaveFiles' /\ PathsNotShared' /\ RowsInBuckets'
  BY <1>1, <1>2 DEF IInv, RowsHaveFiles, PathsNotShared, RowsInBuckets
<1>5. ASSUME NEW r \in Requests
      PROVE  Shape(req[r])' /\ Pending(req[r])' = Pending(req[r])
             /\ KnownTo(req[r])' = KnownTo(req[r])
  <2>1. Shape(req[r])
    BY DEF IInv, RequestsOK
  <2> QED BY <1>1, <1>2, <2>1 DEF Shape, HasTarget, In, Evicted, Pending, KnownTo
<1>6. RequestsOK' /\ KnownUsed'
  BY <1>1, <1>5 DEF RequestsOK, KnownUsed, IInv
<1>7. PendingOwned'
  BY <1>1, <1>2 DEF PendingOwned, IInv, Pending, KnownTo
<1>8. DiskOK' /\ StartingOK'
  BY <1>1 DEF IInv, DiskOK, StartingOK
<1> QED BY <1>3, <1>4, <1>6, <1>7, <1>8 DEF IInv

-----------------------------------------------------------------------------
(* The theorems                                                            *)

\* An empty server satisfies the invariant.
LEMMA InitEstablishes == Init => IInv
<1> USE ConstantsAssumption
<1> SUFFICES ASSUME Init PROVE IInv
  OBVIOUS
<1>1. Idle \in Request /\ Idle.pc = "idle"
  BY DEF Idle, Request, PCs, Statuses
<1>2. TypeOK
  BY <1>1 DEF Init, TypeOK
<1>3. \A l \in Location : Visible(l) = {}
  BY DEF Init, Visible
<1>4. \A r \in Requests : req[r].pc = "idle"
  BY <1>1 DEF Init
<1>5. RowsHaveFiles /\ PathsNotShared /\ RowsInBuckets
  BY <1>3 DEF Init, RowsHaveFiles, PathsNotShared, RowsInBuckets
<1>6. \A r \in Requests : Shape(req[r]) /\ ~Pending(req[r]) /\ KnownTo(req[r]) = {}
  BY <1>4 DEF Shape, Pending, KnownTo
<1>7. RequestsOK /\ PendingOwned /\ KnownUsed /\ DiskOK /\ StartingOK
  BY <1>4, <1>6 DEF Init, RequestsOK, PendingOwned, KnownUsed, DiskOK, StartingOK
<1> QED BY <1>2, <1>5, <1>7 DEF IInv

\* Every step of a request preserves the invariant.
LEMMA StepPreserves ==
    ASSUME IInv, NEW r \in Requests, Step(r)
    PROVE  IInv'
BY StartsPreserve, LocalStepsPreserve, RemovalsPreserve, ReplacePreserves,
   EvictPreserves, BucketsPreserve, WritesPreserve, SweepPreserves DEF Step

\* The ownership invariant holds in every reachable state of the server.
THEOREM Invariance == Spec => []IInv
<1>1. Init => IInv
  BY InitEstablishes
<1>2. IInv /\ [Next]_vars => IInv'
  BY StepPreserves, ReconcilePreserves, CrashPreserves, ServePreserves DEF Next
<1> QED BY <1>1, <1>2, PTL DEF Spec

\* Every variable and request keeps the type the handlers give it.
THEOREM TypeCorrect == Spec => []TypeOK
<1>1. IInv => TypeOK
  BY DEF IInv
<1> QED BY <1>1, Invariance, PTL

\* No row that GetByKey can answer with, committed or cached, ever points at a
\* missing, misplaced or foreign file, whatever writes, deletions, failures
\* and crashes interleave.
THEOREM RowsAlwaysHaveFiles == Spec => []RowsHaveFiles
<1>1. IInv => RowsHaveFiles
  BY DEF IInv
<1> QED BY <1>1, Invariance, PTL

\* Two keys never share a backing file.
THEOREM PathsNeverShared == Spec => []PathsNotShared
<1>1. IInv => PathsNotShared
  BY DEF IInv
<1> QED BY <1>1, Invariance, PTL

\* No object outlives its bucket.
THEOREM RowsStayInBuckets == Spec => []RowsInBuckets
<1>1. IInv => RowsInBuckets
  BY DEF IInv
<1> QED BY <1>1, Invariance, PTL

\* Handlers remove only files that no reader can be sent to any more.
THEOREM SweepsAreSafe == Spec => []SweepsOnlyDeadFiles
<1>1. IInv => SweepsOnlyDeadFiles
  BY DEF IInv, RequestsOK, Shape, SweepsOnlyDeadFiles
<1> QED BY <1>1, Invariance, PTL

\* A step of request r changes no other request.
LEMMA OwnRequestOnly ==
    ASSUME NEW r \in Requests, Step(r)
    PROVE  \E q : req' = [req EXCEPT ![r] = q]
<1>1. CASE \/ StartPut(r) \/ StartCopy(r) \/ StartGet(r) \/ StartDelete(r)
           \/ StartEmpty(r) \/ StartForce(r) \/ StartDrop(r) \/ StartCreate(r)
           \/ Respond(r)
  BY <1>1, ZenonT(60) DEF StartPut, StartCopy, StartGet, StartDelete, StartEmpty, StartForce,
              StartDrop, StartCreate, Respond, Start, Go
<1>2. CASE \/ CreateTemp(r) \/ PublishFile(r) \/ WriteFails(r) \/ BadDigest(r)
           \/ Replace(r) \/ ReplaceRefused(r) \/ Evict(r) \/ SweepFile(r)
           \/ SweepFails(r) \/ Swept(r)
  BY <1>2 DEF CreateTemp, PublishFile, WriteFails, BadDigest, Replace, ReplaceRefused,
              Evict, SweepFile, SweepFails, Swept, Finish, Answer, Go
<1>3. CASE \/ Load(r) \/ LoadMissing(r) \/ LoadFails(r) \/ Open(r) \/ OpenFails(r)
           \/ NextKey(r) \/ DeleteRow(r) \/ DeleteRowMissing(r) \/ DeleteRowFails(r)
  BY <1>3, ZenonT(60) DEF Load, LoadMissing, LoadFails, Open, OpenFails, NextKey, DeleteRow,
              DeleteRowMissing, DeleteRowFails, Finish, Answer, Go
<1>4. CASE \/ ListPage(r) \/ ListFails(r) \/ DeleteAll(r) \/ DeleteAllFails(r)
           \/ ForceDelete(r) \/ ForceRefused(r) \/ CheckEmpty(r) \/ DropBucket(r)
           \/ DropRefused(r) \/ InsertBucket(r) \/ InsertRefused(r)
  BY <1>4 DEF ListPage, ListFails, DeleteAll, DeleteAllFails, ForceDelete, ForceRefused,
              CheckEmpty, DropBucket, DropRefused, InsertBucket, InsertRefused,
              Finish, Answer, Go
<1> QED BY <1>1, <1>2, <1>3, <1>4 DEF Step

\* If-None-Match: * is checked in the transaction that writes the row.
THEOREM CreatesAreExclusive == Spec => CreateNeverOverwrites
<1>1. ASSUME TypeOK, Next, NEW r \in Requests, NEW l \in Location,
             req[r].pc = "replace", req'[r].pc = "evict", req[r].loc = l,
             req[r].cond[2] = AnyTag, objects[l] # None
      PROVE  objects'[l] = objects[l]
  <2>1. CASE UNCHANGED objects
    BY <2>1
  <2>2. ASSUME NEW s \in Requests, Step(s) PROVE UNCHANGED objects
    <3>1. s = r
      BY <1>1, <2>2, OwnRequestOnly, SMTT(30) DEF TypeOK
    <3>2. BadDigest(r) \/ Replace(r) \/ ReplaceRefused(r)
      BY <1>1, <2>2, <3>1
         DEF Step, StartPut, StartCopy, StartGet, StartDelete, StartEmpty, StartForce,
             StartDrop, StartCreate, Start, Respond, CreateTemp, PublishFile, WriteFails,
             Evict, SweepFile, SweepFails, Swept, Load, LoadMissing, LoadFails, Open,
             OpenFails, NextKey, DeleteRow, DeleteRowMissing, DeleteRowFails, ListPage,
             ListFails, DeleteAll, DeleteAllFails, ForceDelete, ForceRefused, CheckEmpty,
             DropBucket, DropRefused, InsertBucket, InsertRefused
    <3>3. ~Replace(r)
      BY <1>1 DEF Replace, CheckWritePreconditions
    <3> QED BY <3>2, <3>3 DEF BadDigest, ReplaceRefused, db
  <2>3. CASE (\E p \in Paths : ReconcileFile(p)) \/ Serve \/ Crash
    BY <2>3 DEF ReconcileFile, Serve, Crash, db
  <2> QED BY <1>1, <2>1, <2>2, <2>3 DEF Next
<1>2. TypeOK /\ [Next]_vars =>
        [\A r \in Requests, l \in Location :
            /\ req[r].pc = "replace"
            /\ req'[r].pc = "evict"
            /\ req[r].loc = l
            /\ req[r].cond[2] = AnyTag
            /\ objects[l] # None
            => objects'[l] = objects[l]]_vars
  BY <1>1
<1> QED BY <1>2, TypeCorrect, PTL DEF Spec, CreateNeverOverwrites

-----------------------------------------------------------------------------
(* No file is left over                                                    *)

\* Requests are of the operations that clients issue.
OpsIssued == \A r \in Requests : req[r].op \in Operations \cup {"none"}

TmpHeld == \A p \in tmp : \E r \in Requests : req[r].pc = "fill" /\ req[r].path = p

FilesHeld ==
    \A p \in Paths : files[p] # None =>
        p \in Referenced \/ \E r \in Requests : p \in Held(req[r])

Accounted == phase = "serving" => TmpHeld /\ FilesHeld

\* A step of request r keeps account of every file if it creates only files it
\* then holds, and lets a path go only to a row or with its file.
LEMMA StepAccounts ==
    ASSUME TypeOK, TmpHeld, FilesHeld, NEW r \in Requests, NEW f, req' = [req EXCEPT ![r] = f],
           \A p \in tmp' :
                \/ f.pc = "fill" /\ f.path = p
                \/ p \in tmp /\ ~(req[r].pc = "fill" /\ req[r].path = p),
           \A p \in Paths : files'[p] # None =>
                \/ p \in Held(f) \/ p \in Referenced'
                \/ files[p] # None /\ p \notin Referenced /\ p \notin Held(req[r])
    PROVE  TmpHeld' /\ FilesHeld'
<1>1. req'[r] = f /\ \A s \in Requests : s # r => req'[s] = req[s]
  BY DEF TypeOK
<1>2. TmpHeld'
  <2> SUFFICES ASSUME NEW p \in tmp' PROVE \E s \in Requests : req'[s].pc = "fill" /\ req'[s].path = p
    BY DEF TmpHeld
  <2>1. CASE f.pc = "fill" /\ f.path = p
    BY <1>1, <2>1
  <2>2. CASE p \in tmp /\ ~(req[r].pc = "fill" /\ req[r].path = p)
    <3>1. PICK s \in Requests : req[s].pc = "fill" /\ req[s].path = p
      BY <2>2 DEF TmpHeld
    <3> QED BY <1>1, <2>2, <3>1
  <2> QED BY <2>1, <2>2
<1>3. FilesHeld'
  <2> SUFFICES ASSUME NEW p \in Paths, files'[p] # None, p \notin Referenced'
               PROVE  \E s \in Requests : p \in Held(req'[s])
    BY DEF FilesHeld, Held
  <2>1. CASE p \in Held(f)
    BY <1>1, <2>1
  <2>2. CASE files[p] # None /\ p \notin Referenced /\ p \notin Held(req[r])
    <3>1. PICK s \in Requests : p \in Held(req[s])
      BY <2>2 DEF FilesHeld
    <3>2. req'[s] = req[s]
      BY <1>1, <2>2, <3>1
    <3> QED BY <3>1, <3>2
  <2> QED BY <2>1, <2>2
<1> QED BY <1>2, <1>3

\* What a request that holds no file does with its own record does not matter.
HoldPCs == {"fill", "replace", "evict", "sweep"}

LEMMA QuietAccounts ==
    ASSUME TypeOK, TmpHeld, FilesHeld, NEW r \in Requests, NEW f, req' = [req EXCEPT ![r] = f],
           req[r].pc \notin HoldPCs, UNCHANGED <<objects, files>>, tmp' \subseteq tmp
    PROVE  TmpHeld' /\ FilesHeld'
<1>1. Held(req[r]) = {} /\ req[r].pc # "fill" /\ Referenced' = Referenced
  BY DEF Held, HoldPCs, Referenced
<1> QED BY <1>1, StepAccounts

\* A request that goes on holding what it held, and changes no row.
LEMMA KeepsAccounts ==
    ASSUME TypeOK, TmpHeld, FilesHeld, NEW r \in Requests, NEW f, req' = [req EXCEPT ![r] = f],
           req[r].pc # "fill", Held(req[r]) \subseteq Held(f), UNCHANGED <<objects, files, tmp>>
    PROVE  TmpHeld' /\ FilesHeld'
<1>1. Referenced' = Referenced
  BY DEF Referenced
<1> QED BY <1>1, StepAccounts

\* What an update leaves of a request's record.
LEMMA RequestUpdate ==
    ASSUME NEW q \in Request
    PROVE  /\ \A pc \in PCs, p \in Paths : LET f == [q EXCEPT !.pc = pc, !.path = p] IN
                f.pc = pc /\ f.path = p /\ f.op = q.op
           /\ \A pc \in PCs : LET f == [q EXCEPT !.pc = pc] IN
                f.pc = pc /\ f.path = q.path /\ f.op = q.op /\ f.doomed = q.doomed
           /\ \A D \in SUBSET Paths : LET f == [q EXCEPT !.doomed = D] IN
                f.pc = q.pc /\ f.op = q.op /\ f.doomed = D
  BY DEF Request

\* Without faults, DELETE and EmptyBucket.
Quiet == Faults = FALSE /\ Operations \cap {"delete", "empty"} = {}

LEMMA NoDeletes ==
    ASSUME IInv, OpsIssued, Quiet, NEW r \in Requests
    PROVE  req[r].pc \notin {"next", "deleteRow", "list"}
<1>1. Shape(req[r]) /\ req[r].op \notin {"delete", "empty"}
  BY DEF IInv, RequestsOK, OpsIssued, Quiet
<1> QED BY <1>1 DEF Shape

LEMMA QuietSteps ==
    ASSUME IInv, OpsIssued, Quiet, TmpHeld, FilesHeld, NEW r \in Requests,
           \/ StartPut(r) \/ StartCopy(r) \/ StartGet(r) \/ StartDelete(r)
           \/ StartEmpty(r) \/ StartForce(r) \/ StartDrop(r) \/ StartCreate(r)
           \/ Respond(r) \/ WriteFails(r)
           \/ Load(r) \/ LoadMissing(r) \/ LoadFails(r) \/ Open(r) \/ OpenFails(r)
           \/ ForceRefused(r) \/ CheckEmpty(r) \/ DropBucket(r)
           \/ DropRefused(r) \/ InsertBucket(r) \/ InsertRefused(r)
    PROVE  TmpHeld' /\ FilesHeld'
<1>1. TypeOK /\ \E f : req' = [req EXCEPT ![r] = f]
  BY OwnRequestOnly DEF IInv, Step
<1>2. req[r].pc \notin HoldPCs /\ UNCHANGED <<objects, files>> /\ tmp' \subseteq tmp
  <2>1. CASE \/ StartPut(r) \/ StartCopy(r) \/ StartGet(r) \/ StartDelete(r)
             \/ StartEmpty(r) \/ StartForce(r) \/ StartDrop(r) \/ StartCreate(r)
             \/ Respond(r)
    BY <2>1 DEF StartPut, StartCopy, StartGet, StartDelete, StartEmpty, StartForce,
              StartDrop, StartCreate, Respond, Start, HoldPCs, db, disk
  <2>2. CASE WriteFails(r)
    BY <2>2 DEF WriteFails, Quiet, HoldPCs, db
  <2>3. CASE Load(r) \/ LoadMissing(r) \/ LoadFails(r) \/ Open(r) \/ OpenFails(r)
    BY <2>3 DEF Load, LoadMissing, LoadFails, Open, OpenFails, HoldPCs, db, disk
  <2>4. CASE \/ ForceRefused(r) \/ CheckEmpty(r) \/ DropBucket(r)
             \/ DropRefused(r) \/ InsertBucket(r) \/ InsertRefused(r)
    BY <2>4 DEF ForceRefused, CheckEmpty, DropBucket, DropRefused, InsertBucket, InsertRefused,
              HoldPCs, db, disk
  <2> QED BY <2>1, <2>2, <2>3, <2>4
<1> QED BY <1>1, <1>2, QuietAccounts

\* The temporary file is the request's, and so is the file it becomes.
LEMMA WritesAccount ==
    ASSUME IInv, TmpHeld, FilesHeld, NEW r \in Requests, CreateTemp(r) \/ PublishFile(r)
    PROVE  TmpHeld' /\ FilesHeld'
<1> DEFINE q == req[r]
<1>1. TypeOK /\ q \in Request /\ Shape(q)
  BY DEF IInv, TypeOK, RequestsOK
<1>2. Referenced' = Referenced
  BY DEF CreateTemp, PublishFile, Referenced, db
<1>3. CASE CreateTemp(r)
  <2>1. PICK p \in Paths : /\ tmp' = tmp \cup {p}
                           /\ req' = [req EXCEPT ![r] = [q EXCEPT !.pc = "fill", !.path = p]]
    BY <1>3 DEF CreateTemp, Go
  <2> DEFINE f == [q EXCEPT !.pc = "fill", !.path = p]
  <2>2. q.pc = "create" /\ files' = files
    BY <1>3 DEF CreateTemp
  <2>3. f.pc = "fill" /\ f.path = p
    BY <1>1, RequestUpdate DEF PCs
  <2> HIDE DEF f
  <2>4. Held(q) = {}
    BY <2>2 DEF Held
  <2> QED BY <1>1, <1>2, <2>1, <2>2, <2>3, <2>4, StepAccounts DEF f
<1>4. CASE PublishFile(r)
  <2> DEFINE f == [q EXCEPT !.pc = "replace"]
  <2>1. /\ q.pc = "fill" /\ tmp' = tmp \ {q.path} /\ req' = [req EXCEPT ![r] = f]
        /\ \A p \in Paths : p # q.path => files'[p] = files[p]
    BY <1>1, <1>4 DEF PublishFile, Go, TypeOK
  <2>2. f.pc = "replace" /\ f.path = q.path
    BY <1>1, RequestUpdate DEF PCs
  <2> HIDE DEF f
  <2>3. Held(q) = {q.path} /\ Held(f) = {q.path}
    BY <2>1, <2>2 DEF Held
  <2> QED BY <1>1, <1>2, <2>1, <2>2, <2>3, StepAccounts
<1> QED BY <1>3, <1>4

\* A refused write hands its file to the sweep.
LEMMA RefusalsAccount ==
    ASSUME IInv, TmpHeld, FilesHeld, NEW r \in Requests, BadDigest(r) \/ ReplaceRefused(r)
    PROVE  TmpHeld' /\ FilesHeld'
<1> DEFINE q == req[r]
<1>1. TypeOK /\ q \in Request /\ Shape(q)
  BY DEF IInv, TypeOK, RequestsOK
<1>2. q.pc = "replace" /\ UNCHANGED <<objects, files, tmp>>
  BY DEF BadDigest, ReplaceRefused, db, disk
<1>3. Held(q) = {q.path} /\ {q.path} \in SUBSET Paths
  BY <1>1, <1>2 DEF Held, Shape
<1>4. CASE BadDigest(r)
  <2> DEFINE f == [q EXCEPT !.pc = "sweep", !.doomed = {q.path}, !.status = "BadDigest"]
  <2>1. req' = [req EXCEPT ![r] = f]
    BY <1>4 DEF BadDigest, Go
  <2>2. f.pc = "sweep" /\ f.doomed = {q.path}
    BY <1>1 DEF Request
  <2> HIDE DEF f
  <2>3. Held(f) = {q.path}
    BY <2>2 DEF Held
  <2> QED BY <1>1, <1>2, <1>3, <2>1, <2>3, KeepsAccounts
<1>5. CASE ReplaceRefused(r)
  <2>1. PICK s \in Statuses : Finish(r, s, {q.path})
    BY <1>5 DEF ReplaceRefused
  <2> DEFINE f == FinishRec(q, s, {q.path})
  <2>2. req' = [req EXCEPT ![r] = f]
    BY <2>1 DEF Finish, Go, FinishRec
  <2>3. f.pc = "evict" /\ f.doomed = {q.path}
    BY <1>1, <1>3, FinishType
  <2> HIDE DEF f
  <2>4. Held(f) = {q.path}
    BY <2>3 DEF Held
  <2> QED BY <1>1, <1>2, <1>3, <2>2, <2>4, KeepsAccounts DEF f
<1> QED BY <1>4, <1>5

\* The commit gives the file to the row and takes over the one the row had.
LEMMA ReplaceAccounts ==
    ASSUME IInv, TmpHeld, FilesHeld, NEW r \in Requests, Replace(r)
    PROVE  TmpHeld' /\ FilesHeld'
<1> DEFINE q == req[r]
           D == PathsOf({q.loc})
           f == FinishRec(q, "ok", D)
<1>1. TypeOK /\ q \in Request /\ Shape(q)
  BY DEF IInv, TypeOK, RequestsOK
<1>2. /\ q.pc = "replace" /\ req' = [req EXCEPT ![r] = f] /\ UNCHANGED <<files, tmp>>
      /\ objects' = [objects EXCEPT ![q.loc] = NewRow(q)]
  BY DEF Replace, Finish, Go, FinishRec, disk, NewRow
<1>3. q.loc \in Location /\ q.path \in Paths /\ NewRow(q) \in Row /\ NewRow(q).path = q.path
  BY <1>1, <1>2 DEF Shape, HasTarget, NewRow, Row
<1>4. D \in SUBSET Paths /\ "ok" \in Statuses
  BY <1>1, <1>3 DEF PathsOf, TypeOK, Row, Statuses
<1>5. \A l \in Location : objects[l] # None /\ l = q.loc => objects[l].path \in D
  BY DEF PathsOf
<1> HIDE DEF D
<1>6. f.pc = "evict" /\ f.doomed = D
  BY <1>1, <1>4, FinishType
<1> HIDE DEF f
<1>7. Held(f) = D /\ Held(q) = {q.path}
  BY <1>2, <1>6 DEF Held
<1>8. q.path \in Referenced'
  <2>1. objects'[q.loc] = NewRow(q) /\ objects'[q.loc] # None
    BY <1>1, <1>2, <1>3, ConstantsAssumption DEF TypeOK
  <2> QED BY <1>3, <2>1 DEF Referenced
<1>9. \A p \in Referenced : p \in Referenced' \/ p \in Held(f)
  <2> SUFFICES ASSUME NEW p \in Referenced, p \notin Held(f) PROVE p \in Referenced'
    OBVIOUS
  <2>1. PICK l \in Location : objects[l] # None /\ objects[l].path = p
    BY DEF Referenced
  <2>2. l # q.loc
    BY <1>5, <1>7, <2>1
  <2>3. objects'[l] = objects[l]
    BY <1>1, <1>2, <2>2 DEF TypeOK
  <2> QED BY <2>1, <2>3 DEF Referenced
<1>10. \A p \in Paths : files'[p] # None =>
          \/ p \in Held(f) \/ p \in Referenced'
          \/ files[p] # None /\ p \notin Referenced /\ p \notin Held(q)
  BY <1>2, <1>7, <1>8, <1>9
<1> QED BY <1>1, <1>2, <1>10, StepAccounts

\* The forced deletion takes over exactly the files of the rows it deletes.
LEMMA ForceAccounts ==
    ASSUME IInv, TmpHeld, FilesHeld, NEW r \in Requests, ForceDelete(r)
    PROVE  TmpHeld' /\ FilesHeld'
<1> DEFINE q == req[r]
           D == PathsOf(In(q.bucket))
           f == FinishRec(q, "ok", D)
<1>1. TypeOK /\ q \in Request /\ Shape(q)
  BY DEF IInv, TypeOK, RequestsOK
<1>2. /\ q.pc = "force" /\ req' = [req EXCEPT ![r] = f] /\ UNCHANGED <<files, tmp>>
      /\ objects' = [l \in Location |-> IF l \in In(q.bucket) THEN None ELSE objects[l]]
  BY DEF ForceDelete, Finish, Go, FinishRec, disk
<1>3. q.bucket \in Buckets /\ In(q.bucket) \subseteq Location
  BY <1>1, <1>2 DEF Shape, In, Location
<1>4. D \in SUBSET Paths /\ "ok" \in Statuses
  BY <1>1, <1>3 DEF PathsOf, TypeOK, Row, Statuses
<1>5. \A l \in Location : objects[l] # None /\ l \in In(q.bucket) => objects[l].path \in D
  BY DEF PathsOf
<1> HIDE DEF D
<1>6. f.pc = "evict" /\ f.doomed = D
  BY <1>1, <1>4, FinishType
<1> HIDE DEF f
<1>7. Held(f) = D /\ Held(q) = {}
  BY <1>2, <1>6 DEF Held
<1>8. \A p \in Referenced : p \in Referenced' \/ p \in Held(f)
  <2> SUFFICES ASSUME NEW p \in Referenced, p \notin Held(f) PROVE p \in Referenced'
    OBVIOUS
  <2>1. PICK l \in Location : objects[l] # None /\ objects[l].path = p
    BY DEF Referenced
  <2>2. l \notin In(q.bucket)
    BY <1>5, <1>7, <2>1
  <2>3. objects'[l] = objects[l]
    BY <1>2, <2>2
  <2> QED BY <2>1, <2>3 DEF Referenced
<1>9. \A p \in Paths : files'[p] # None =>
          \/ p \in Held(f) \/ p \in Referenced'
          \/ files[p] # None /\ p \notin Referenced /\ p \notin Held(q)
  BY <1>2, <1>7, <1>8
<1> QED BY <1>1, <1>2, <1>9, StepAccounts

LEMMA SweepsAccount ==
    ASSUME IInv, TmpHeld, FilesHeld, NEW r \in Requests, Evict(r) \/ SweepFile(r) \/ Swept(r)
    PROVE  TmpHeld' /\ FilesHeld'
<1> DEFINE q == req[r]
<1>1. TypeOK /\ q \in Request
  BY DEF IInv, TypeOK
<1>2. UNCHANGED <<objects, tmp>> /\ Referenced' = Referenced /\ q.pc \in {"evict", "sweep"}
  BY DEF Evict, SweepFile, Swept, Referenced, db, disk
<1>3. CASE Evict(r)
  <2> DEFINE f == [q EXCEPT !.pc = "sweep"]
  <2>1. q.pc = "evict" /\ req' = [req EXCEPT ![r] = f] /\ files' = files
    BY <1>3 DEF Evict, Go, disk
  <2>2. f.pc = "sweep" /\ f.doomed = q.doomed
    BY <1>1, RequestUpdate DEF PCs
  <2> HIDE DEF f
  <2>3. Held(f) = Held(q)
    BY <2>1, <2>2 DEF Held
  <2> QED BY <1>1, <1>2, <2>1, <2>3, KeepsAccounts
<1>4. CASE SweepFile(r)
  <2>1. PICK p \in q.doomed : /\ files' = [files EXCEPT ![p] = None]
                              /\ req' = [req EXCEPT ![r] = [q EXCEPT !.doomed = @ \ {p}]]
    BY <1>4 DEF SweepFile, Go
  <2> DEFINE D == q.doomed \ {p}
             f == [q EXCEPT !.doomed = D]
  <2>2. q.pc = "sweep" /\ req' = [req EXCEPT ![r] = f]
    BY <1>4, <2>1 DEF SweepFile
  <2>3. D \in SUBSET Paths
    BY <1>1 DEF Request
  <2>4. f.pc = "sweep" /\ f.doomed = D
    <3> HIDE DEF D
    <3> QED BY <1>1, <2>2, <2>3, RequestUpdate
  <2> HIDE DEF f
  <2>5. Held(q) = q.doomed /\ Held(f) = D
    BY <2>2, <2>4 DEF Held
  <2>6. files'[p] = None /\ \A x \in Paths : x # p => files'[x] = files[x]
    BY <1>1, <2>1 DEF TypeOK, Request
  <2>7. \A x \in Paths : files'[x] # None =>
            \/ x \in Held(f) \/ x \in Referenced'
            \/ files[x] # None /\ x \notin Referenced /\ x \notin Held(q)
    BY <1>2, <2>5, <2>6
  <2> QED BY <1>1, <1>2, <2>2, <2>7, StepAccounts
<1>5. CASE Swept(r)
  <2>1. q.pc = "sweep" /\ q.doomed = {} /\ files' = files
    BY <1>5 DEF Swept, disk
  <2>2. Held(q) = {}
    BY <2>1 DEF Held
  <2>3. \E f : req' = [req EXCEPT ![r] = f]
    BY <1>5 DEF Swept, Answer, Go
  <2> QED BY <1>1, <1>2, <2>1, <2>2, <2>3, KeepsAccounts
<1> QED BY <1>3, <1>4, <1>5

\* Only the start of a request sets its operation.
LEMMA OpsKept ==
    ASSUME TypeOK, OpsIssued, NEW r \in Requests, Step(r)
    PROVE  OpsIssued'
<1> DEFINE q == req[r]
<1>1. q \in Request /\ q.op \in Operations \cup {"none"}
  BY DEF TypeOK, OpsIssued
<1>2. ASSUME NEW f, Go(r, f), f.op \in Operations \cup {"none"} PROVE OpsIssued'
  BY <1>2 DEF Go, TypeOK, OpsIssued
<1>3. ASSUME NEW f, Start(r, f) PROVE OpsIssued'
  BY <1>2, <1>3 DEF Start
<1>4. ASSUME NEW s, Answer(r, s) PROVE OpsIssued'
  <2> DEFINE f == [Idle EXCEPT !.pc = "respond", !.op = q.op, !.status = s]
  <2>1. Go(r, f) /\ f.op = q.op
    BY <1>4 DEF Answer, Idle
  <2> HIDE DEF f
  <2> QED BY <1>1, <1>2, <2>1
<1>5. ASSUME NEW s, NEW D, Finish(r, s, D) PROVE OpsIssued'
  <2> DEFINE f == FinishRec(q, s, D)
  <2>1. Go(r, f) /\ f.op = q.op
    BY <1>5 DEF Finish, FinishRec, Idle
  <2> HIDE DEF f
  <2> QED BY <1>1, <1>2, <2>1
<1>6. ASSUME NEW f, Go(r, f), f.op = q.op PROVE OpsIssued'
  BY <1>1, <1>2, <1>6
<1>7. CASE \/ StartPut(r) \/ StartCopy(r) \/ StartGet(r) \/ StartDelete(r)
           \/ StartEmpty(r) \/ StartForce(r) \/ StartDrop(r) \/ StartCreate(r)
  BY <1>3, <1>7 DEF StartPut, StartCopy, StartGet, StartDelete, StartEmpty, StartForce,
        StartDrop, StartCreate
<1>8. CASE Respond(r)
  <2>1. Idle.op = "none"
    BY DEF Idle
  <2> QED BY <1>2, <1>8, <2>1 DEF Respond
<1>9. CASE CreateTemp(r) \/ PublishFile(r) \/ BadDigest(r)
  <2>1. \A p : [q EXCEPT !.pc = "fill", !.path = p].op = q.op
    BY <1>1 DEF Request
  <2>2. [q EXCEPT !.pc = "replace"].op = q.op
    BY <1>1 DEF Request
  <2>3. [q EXCEPT !.pc = "sweep", !.doomed = {q.path}, !.status = "BadDigest"].op = q.op
    BY <1>1 DEF Request
  <2> QED BY <1>6, <1>9, <2>1, <2>2, <2>3 DEF CreateTemp, PublishFile, BadDigest
<1>10. CASE \/ WriteFails(r) \/ LoadFails(r) \/ OpenFails(r) \/ ListFails(r)
  BY <1>4, <1>10 DEF WriteFails, LoadFails, OpenFails, ListFails
<1>11. CASE \/ Replace(r) \/ ReplaceRefused(r) \/ DeleteRow(r) \/ DeleteRowMissing(r)
            \/ DeleteRowFails(r) \/ DeleteAll(r) \/ DeleteAllFails(r)
  BY <1>5, <1>11 DEF Replace, ReplaceRefused, DeleteRow, DeleteRowMissing, DeleteRowFails,
        DeleteAll, DeleteAllFails
<1>12. CASE \/ ForceDelete(r) \/ ForceRefused(r) \/ DropBucket(r) \/ DropRefused(r)
            \/ InsertBucket(r) \/ InsertRefused(r)
  BY <1>5, <1>12 DEF ForceDelete, ForceRefused, DropBucket, DropRefused, InsertBucket,
        InsertRefused
<1>13. CASE Evict(r) \/ SweepFile(r) \/ Swept(r)
  <2>1. /\ [q EXCEPT !.pc = "sweep"].op = q.op
        /\ [q EXCEPT !.pc = "next"].op = q.op
        /\ \A p : [q EXCEPT !.doomed = @ \ {p}].op = q.op
    BY <1>1 DEF Request
  <2> QED BY <1>4, <1>6, <1>13, <2>1 DEF Evict, SweepFile, Swept
<1>14. CASE SweepFails(r)
  <2>1. PICK p \in q.doomed :
            Go(r, [q EXCEPT
                    !.doomed = IF q.op = "empty" THEN {} ELSE @ \ {p},
                    !.status = IF q.op \in {"delete", "empty", "force"}
                               THEN "InternalError" ELSE @])
    BY <1>14 DEF SweepFails
  <2>2. \A D, s : [q EXCEPT !.doomed = D, !.status = s].op = q.op
    BY <1>1 DEF Request
  <2> QED BY <1>6, <2>1, <2>2
<1>15. CASE Load(r) \/ LoadMissing(r) \/ Open(r)
  <2>1. \A w, pc : [q EXCEPT !.row = w, !.pc = pc].op = q.op
    BY <1>1 DEF Request
  <2>2. [q EXCEPT !.pc = "next"].op = q.op
    BY <1>1 DEF Request
  <2>3. \A e, c : [q EXCEPT !.pc = "create", !.etag = e, !.body = c].op = q.op
    BY <1>1 DEF Request
  <2> QED BY <1>4, <1>6, <1>15, <2>1, <2>2, <2>3 DEF Load, LoadMissing, Open
<1>16. CASE NextKey(r) \/ ListPage(r) \/ CheckEmpty(r)
  <2>1. \A l, T : [q EXCEPT !.pc = "load", !.loc = l, !.src = l, !.todo = T].op = q.op
    BY <1>1 DEF Request
  <2>2. \A T, D : [q EXCEPT !.todo = T, !.doomed = D].op = q.op
    BY <1>1 DEF Request
  <2>3. [q EXCEPT !.pc = "drop"].op = q.op
    BY <1>1 DEF Request
  <2>4. CASE NextKey(r)
    BY <1>4, <1>6, <2>1, <2>4 DEF NextKey
  <2>5. CASE ListPage(r)
    BY <1>6, <2>2, <2>5 DEF ListPage
  <2>6. CASE CheckEmpty(r)
    BY <1>4, <1>6, <2>3, <2>6 DEF CheckEmpty
  <2> QED BY <1>16, <2>4, <2>5, <2>6
<1> QED BY <1>7, <1>8, <1>9, <1>10, <1>11, <1>12, <1>13, <1>14, <1>15, <1>16 DEF Step

LEMMA AccountedNext ==
    ASSUME IInv, Quiet, OpsIssued, Accounted, [Next]_vars
    PROVE  OpsIssued' /\ Accounted'
<1>1. TypeOK
  BY DEF IInv
<1>2. ASSUME NEW r \in Requests, Step(r) PROVE OpsIssued' /\ Accounted'
  <2>1. OpsIssued'
    BY <1>1, <1>2, OpsKept
  <2>2. req[r].pc \notin {"next", "deleteRow", "list"}
    BY NoDeletes
  <2>3. ~SweepFails(r)
    BY DEF SweepFails, Quiet
  <2>4. /\ ~NextKey(r) /\ ~DeleteRow(r) /\ ~DeleteRowMissing(r) /\ ~DeleteRowFails(r)
        /\ ~ListPage(r) /\ ~ListFails(r) /\ ~DeleteAll(r) /\ ~DeleteAllFails(r)
    BY <2>2 DEF NextKey, DeleteRow, DeleteRowMissing, DeleteRowFails, ListPage, ListFails,
           DeleteAll, DeleteAllFails
  <2>5. ASSUME TmpHeld, FilesHeld PROVE TmpHeld' /\ FilesHeld'
    BY <1>2, <2>3, <2>4, <2>5, QuietSteps, WritesAccount, RefusalsAccount, ReplaceAccounts,
       ForceAccounts, SweepsAccount DEF Step
  <2>6. phase = "serving"
    <3>1. phase = "starting" => ~Step(r)
      <4> SUFFICES ASSUME phase = "starting", Step(r) PROVE FALSE
        OBVIOUS
      <4>1. req[r].pc = "idle"
        BY DEF IInv, StartingOK
      <4> QED BY <4>1 DEF Step, StartPut, StartCopy, StartGet, StartDelete, StartEmpty, StartForce,
             StartDrop, StartCreate, Start, Respond, CreateTemp, PublishFile, WriteFails, BadDigest,
             Replace, ReplaceRefused, Evict, SweepFile, SweepFails, Swept, Load, LoadMissing,
             LoadFails, Open, OpenFails, NextKey, DeleteRow, DeleteRowMissing, DeleteRowFails,
             ListPage, ListFails, DeleteAll, DeleteAllFails, ForceDelete, ForceRefused, CheckEmpty,
             DropBucket, DropRefused, InsertBucket, InsertRefused
    <3> QED BY <1>1, <1>2, <3>1 DEF TypeOK
  <2> QED BY <2>1, <2>5, <2>6 DEF Accounted
<1>3. ASSUME NEW p \in Paths, ReconcileFile(p) PROVE OpsIssued' /\ Accounted'
  BY <1>3 DEF ReconcileFile, OpsIssued, Accounted, process
<1>4. CASE Crash
  <2>1. Idle.op = "none"
    BY DEF Idle
  <2> QED BY <1>4, <2>1 DEF Crash, OpsIssued, Accounted
<1>5. CASE Serve
  <2>1. UNCHANGED <<req, objects, files, tmp>> /\ tmp = {} /\ \A p \in Paths : ~Orphan(p)
    BY <1>5 DEF Serve, db, disk
  <2>2. ASSUME NEW p \in Paths, files[p] # None PROVE p \in Referenced
    <3>1. p \in PathsOf(In(files[p].dir)) /\ files[p].dir \in Buckets
      BY <1>1, <2>1, <2>2 DEF Orphan, TypeOK, File
    <3> QED BY <3>1 DEF PathsOf, In, Referenced, Location
  <2>3. FilesHeld /\ TmpHeld
    BY <2>1, <2>2 DEF FilesHeld, TmpHeld
  <2> QED BY <2>1, <2>3 DEF OpsIssued, Accounted, FilesHeld, TmpHeld, Referenced, Held
<1>6. CASE UNCHANGED vars
  BY <1>6 DEF vars, db, disk, process, OpsIssued, Accounted, FilesHeld, TmpHeld, Referenced, Held
<1> QED BY <1>2, <1>3, <1>4, <1>5, <1>6 DEF Next

\* Without faults, DELETE and EmptyBucket, no file is ever left over: while the
\* server serves, every temporary file and every backing file belongs to a row
\* or to a running request that will commit or remove it.
THEOREM NothingLeaks ==
    ASSUME Faults = FALSE, Operations \cap {"delete", "empty"} = {}
    PROVE  Spec => []NoLeak
<1>1. Quiet
  BY DEF Quiet
<1>2. Init => OpsIssued /\ Accounted
  BY DEF Init, OpsIssued, Accounted, Idle
<1>3. ASSUME IInv, OpsIssued, Accounted, [Next]_vars PROVE OpsIssued' /\ Accounted'
  BY <1>1, <1>3, AccountedNext
<1>4. IInv /\ Accounted => NoLeak
  <2> SUFFICES ASSUME IInv, Accounted, phase = "serving", NEW p \in Paths,
                      p \in tmp \/ files[p] # None
               PROVE  p \in Referenced \/ \E r \in Requests : p \in Held(req[r])
    BY DEF NoLeak
  <2>1. CASE p \in tmp
    <3>1. PICK r \in Requests : req[r].pc = "fill" /\ req[r].path = p
      BY <2>1 DEF Accounted, TmpHeld
    <3> QED BY <3>1 DEF Held
  <2>2. CASE files[p] # None
    BY <2>2 DEF Accounted, FilesHeld
  <2> QED BY <2>1, <2>2
<1> QED BY <1>2, <1>3, <1>4, Invariance, PTL DEF Spec
==============================================================================
