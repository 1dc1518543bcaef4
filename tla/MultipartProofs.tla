--------------------------- MODULE MultipartProofs ---------------------------
(***************************************************************************)
(* Proofs about MultipartUpload, for any number of uploads, parts, paths,  *)
(* requests, faults and crashes.                                           *)
(*                                                                         *)
(* The argument is one of ownership.  A path is drawn once; it belongs to  *)
(* the request that writes it until a row takes it over, and to the        *)
(* request that replaced the row from then on.  A directory belongs to     *)
(* whoever has deleted the upload's row, and an upload's ID is never drawn *)
(* again.  A row's status belongs to the one claim on it.  The in-process  *)
(* lock is nowhere used: what is proved here holds without it.             *)
(*                                                                         *)
(* The last part reads the same ownership the other way round: whoever     *)
(* lets a path go has handed it to a row or removed its file.              *)
(***************************************************************************)
EXTENDS MultipartUpload, FiniteSetTheorems, WellFoundedInduction, TLAPS

-----------------------------------------------------------------------------
(* The inductive invariant                                                 *)

\* Paths that only request q may remove, fill or hand over to a row.
Owned(q) ==
    (IF q.pc \in {"fill", "store", "commit"} THEN {q.path} ELSE {})
    \cup (IF q.pc \in {"evict", "sweep"} THEN q.doomed ELSE {})

\* The fields a request has filled in.
NoUpload == {"idle", "check", "uploads", "next", "drop"}
ClaimPCs == {"list", "assemble", "commit", "deleteRow", "release"}

ShapeOK(q) ==
    /\ q.pc \notin NoUpload => q.upload \in Uploads
    /\ q.pc = "lock" => /\ q.op \in {"part", "copyPart", "complete", "abort"}
                        /\ q.op \in {"part", "copyPart"} =>
                                q.number \in PartNumbers /\ q.body \in Bodies
    /\ q.pc \in {"write", "fill", "store"} => q.number \in PartNumbers /\ q.body \in Bodies
    /\ q.pc \in {"fill", "store", "commit"} => q.path \in Paths
    /\ q.pc = "claim" => q.op \in {"complete", "abort"}
    /\ q.pc \in ClaimPCs => q.claim
    /\ q.pc = "sweep" /\ q.then = "release" => q.claim
    /\ q.claim => /\ q.pc \in ClaimPCs \cup {"sweep"}
                  /\ q.op \in {"complete", "abort"}
                  /\ q.upload \in Uploads
    /\ q.pc \in {"list", "assemble", "commit"} => q.op = "complete" /\ q.want \in Manifest
    /\ q.pc = "evict" => q.then = "purge"

\* The upload's ID has been drawn; whoever removes its directory has seen its
\* row gone.
UploadOK(q) ==
    /\ q.upload \in Uploads => q.upload \in used
    /\ q.todo \subseteq used
    /\ q.pc = "purge" \/ (q.pc \in {"evict", "sweep"} /\ q.then = "purge") =>
        uploads[q.upload] = None /\ ~q.claim

\* The part file a request writes is there, unless the upload has gone, and no
\* object's file has its path.
WritingOK(q) ==
    /\ q.pc = "fill" => files[q.path] \in {None, [upload |-> q.upload, body |-> None]}
    /\ q.pc = "store" => files[q.path] \in {None, [upload |-> q.upload, body |-> q.body]}
    /\ q.pc \in {"fill", "store"} /\ uploads[q.upload] # None => files[q.path] # None
    /\ q.pc \in {"fill", "store"} => blobs[q.path] = None

\* The rows a completion has copied are those the client named.  They are
\* still there if the upload is, and their files hold what the rows say or are
\* gone.  What has been read is what was named.
CopyOK(q) ==
    q.pc \in {"assemble", "commit"} =>
        /\ q.rows # None /\ q.got # None
        /\ DOMAIN q.rows = DOMAIN q.want
        /\ DOMAIN q.got \subseteq DOMAIN q.want
        /\ \A n \in DOMAIN q.want :
            /\ q.rows[n].etag = q.want[n]
            /\ q.rows[n].path \in used
            /\ files[q.rows[n].path] \in {None, [upload |-> q.upload, body |-> q.want[n]]}
            /\ uploads[q.upload] # None => parts[q.upload][n] = q.rows[n]
        /\ \A n \in DOMAIN q.got : q.got[n] = q.want[n]
        /\ q.pc = "commit" => blobs[q.path] = q.want

\* No row that a reader may be given names a path of a request; a replaced
\* object's path may still be cached until the request has evicted.
OwnedOK(q) ==
    \A p \in Owned(q) :
        /\ p \in used
        /\ \A u \in Uploads, n \in PartNumbers : parts[u][n] # None => parts[u][n].path # p
        /\ object # None => object.path # p
        /\ q.pc # "evict" => \A w \in stale : w.path # p

RequestOK(q) == ShapeOK(q) /\ UploadOK(q) /\ WritingOK(q) /\ CopyOK(q) /\ OwnedOK(q)

RequestsOK == \A r \in Requests : RequestOK(req[r])

OwnersApart ==
    \A r, s \in Requests : r # s => Owned(req[r]) \cap Owned(req[s]) = {}

CleanerOK ==
    /\ cleaner.pc \in {"claim", "delete", "reset", "purge"} => cleaner.upload \in Uploads
    /\ cleaner.upload \in Uploads => cleaner.upload \in used
    /\ \A u \in Uploads : cleaner.snap[u] # None => u \in used
    /\ cleaner.claimed => cleaner.pc \in {"delete", "reset", "purge"}
    /\ cleaner.pc = "reset" => cleaner.claimed
    /\ cleaner.pc = "purge" => uploads[cleaner.upload] = None

\* IDs and paths in use have been drawn, and parts belong to uploads.
DrawnOK ==
    /\ \A u \in Uploads : uploads[u] # None => u \in used
    /\ \A u \in Uploads, n \in PartNumbers : parts[u][n] # None => uploads[u] # None
    /\ \A p \in Paths : files[p] # None \/ blobs[p] # None => p \in used
    /\ \A p \in Paths : files[p] = None \/ blobs[p] = None

RowPathsApart ==
    \A u, v \in Uploads, n, m \in PartNumbers :
        parts[u][n] # None /\ parts[v][m] # None /\ parts[u][n].path = parts[v][m].path
            => u = v /\ n = m

StartingOK ==
    phase = "starting" => /\ \A r \in Requests : req[r] = Idle
                          /\ cleaner = Sleeping
                          /\ stale = {}
                          /\ crashes = 0 => \A p \in Paths : files[p] = None

\* ClaimsExclude, without cardinalities.
ClaimsOK ==
    \A u \in Uploads : uploads[u] # None =>
        /\ \A r \in Claimants(u) : Is(u, ClaimStatus(req[r].op))
        /\ CleanerClaims(u) => Is(u, "aborted") /\ Claimants(u) = {}
        /\ \A r, s \in Claimants(u) : r = s

MInv ==
    /\ TypeOK /\ RequestsOK /\ OwnersApart /\ CleanerOK /\ DrawnOK /\ RowPathsApart
    /\ StartingOK /\ ClaimsOK /\ PartRowsHaveFiles /\ ObjectHasFile

-----------------------------------------------------------------------------
(* What a step leaves alone                                                *)

\* Paths that no row names, so that a step may do with them what it likes.
Free(D) ==
    \A p \in D :
        /\ \A u \in Uploads, n \in PartNumbers : parts[u][n] # None => parts[u][n].path # p
        /\ object # None => object.path # p
        /\ \A w \in stale : w.path # p

\* Apart from the paths in D a step only removes files, and only those of
\* uploads that are gone; rows take over only paths in D; uploads that are
\* gone stay gone, and those that are claimed keep their parts.
Kept(D) ==
    /\ used \subseteq used'
    /\ \A u \in Uploads : u \in used /\ uploads[u] = None => uploads'[u] = None
    /\ \A u \in Uploads : parts'[u] = parts[u] \/ uploads'[u] = None \/ Is(u, "active")
    /\ \A p \in Paths \cap used :
        \/ files'[p] = files[p]
        \/ files'[p] = None /\ (p \in D \/ (files[p] # None /\ uploads'[files[p].upload] = None))
        \/ p \in D /\ files[p] # None /\ files[p].body = None
    /\ \A p \in Paths \cap used : blobs'[p] = blobs[p] \/ p \in D
    /\ \A u \in Uploads, n \in PartNumbers :
        parts'[u][n] # None => parts'[u][n] = parts[u][n] \/ parts'[u][n].path \in D
    /\ object' # None => object' = object \/ object'.path \in D
    /\ stale' \subseteq Visible

\* A request that does not move stays in order.
LEMMA Undisturbed ==
    ASSUME MInv, NEW s \in Requests, req'[s] = req[s], NEW D, Kept(D),
           D \cap Owned(req[s]) = {}
    PROVE  RequestOK(req[s])' /\ Owned(req[s])' = Owned(req[s])
<1> USE NoneAssumption
<1> DEFINE q == req[s]
<1>1. RequestOK(q) /\ q \in Request
  BY DEF MInv, RequestsOK, TypeOK
<1>2. Owned(req[s])' = Owned(q)
  BY DEF Owned
<1>3. ShapeOK(req[s])'
  BY <1>1 DEF RequestOK, ShapeOK
<1>4. UploadOK(req[s])'
  <2>1. /\ q.upload \in Uploads => q.upload \in used'
        /\ q.todo \subseteq used'
    BY <1>1 DEF RequestOK, UploadOK, Kept
  <2>2. ASSUME q.pc = "purge" \/ (q.pc \in {"evict", "sweep"} /\ q.then = "purge")
        PROVE  uploads'[q.upload] = None /\ ~q.claim
    <3>1. q.upload \in Uploads
      BY <1>1, <2>2 DEF RequestOK, ShapeOK, NoUpload
    <3> QED BY <1>1, <2>2, <3>1 DEF RequestOK, UploadOK, Kept
  <2> QED BY <2>1, <2>2 DEF UploadOK
<1>5. q.pc \notin NoUpload =>
        q.upload \in used \cap Uploads /\ (uploads'[q.upload] # None => uploads[q.upload] # None)
  BY <1>1 DEF RequestOK, ShapeOK, UploadOK, Kept
<1>6. WritingOK(req[s])'
  <2> SUFFICES ASSUME q.pc \in {"fill", "store"} PROVE WritingOK(req[s])'
    BY DEF WritingOK
  <2>1. q.path \in Paths \cap used /\ q.path \notin D
    BY <1>1, <1>2 DEF RequestOK, ShapeOK, OwnedOK, Owned
  <2>2. files'[q.path] = files[q.path]
        \/ (files'[q.path] = None /\ files[q.path] # None /\ uploads'[files[q.path].upload] = None)
    BY <2>1 DEF Kept
  <2>3. files[q.path] # None => files[q.path].upload = q.upload
    BY <1>1 DEF RequestOK, WritingOK
  <2>4. blobs'[q.path] = blobs[q.path]
    BY <2>1 DEF Kept
  <2> QED BY <1>1, <1>5, <2>2, <2>3, <2>4 DEF RequestOK, WritingOK, NoUpload
<1>7. CopyOK(req[s])'
  <2> SUFFICES ASSUME q.pc \in {"assemble", "commit"} PROVE CopyOK(req[s])'
    BY DEF CopyOK
  <2>1. /\ q.rows # None /\ q.got # None
        /\ DOMAIN q.rows = DOMAIN q.want /\ DOMAIN q.got \subseteq DOMAIN q.want
        /\ \A n \in DOMAIN q.got : q.got[n] = q.want[n]
        /\ q.claim /\ q.op = "complete" /\ q.want \in Manifest
    BY <1>1 DEF RequestOK, CopyOK, ShapeOK, ClaimPCs
  <2>2. DOMAIN q.want \subseteq PartNumbers /\ \A n \in DOMAIN q.want : q.want[n] \in Bodies
    BY <2>1 DEF Manifest
  <2>3. ASSUME NEW n \in DOMAIN q.want
        PROVE  /\ q.rows[n].etag = q.want[n]
               /\ q.rows[n].path \in used'
               /\ files'[q.rows[n].path] \in {None, [upload |-> q.upload, body |-> q.want[n]]}
               /\ uploads'[q.upload] # None => parts'[q.upload][n] = q.rows[n]
    <3>1. /\ q.rows[n].etag = q.want[n] /\ q.rows[n].path \in used
          /\ files[q.rows[n].path] \in {None, [upload |-> q.upload, body |-> q.want[n]]}
          /\ uploads[q.upload] # None => parts[q.upload][n] = q.rows[n]
      BY <1>1 DEF RequestOK, CopyOK
    <3>2. q.rows[n].path \in Paths
      <4>1. q.rows \in UNION {[S -> Part] : S \in SUBSET PartNumbers}
        BY <1>1, <2>1 DEF Request
      <4>2. PICK S \in SUBSET PartNumbers : q.rows \in [S -> Part]
        BY <4>1
      <4> QED BY <2>1, <4>2 DEF Part
    <3>3. files'[q.rows[n].path] \in {None, [upload |-> q.upload, body |-> q.want[n]]}
      <4>1. files[q.rows[n].path] # None => files[q.rows[n].path].body = q.want[n]
        BY <3>1
      <4>2. q.want[n] # None
        BY <2>2
      <4>3. files'[q.rows[n].path] \in {files[q.rows[n].path], None}
        BY <3>1, <3>2, <4>1, <4>2 DEF Kept
      <4> QED BY <3>1, <4>3
    <3>4. ASSUME uploads'[q.upload] # None PROVE parts'[q.upload][n] = q.rows[n]
      <4>1. q.upload \in Uploads /\ uploads[q.upload] # None
        BY <1>5, <3>4 DEF NoUpload
      <4>2. Is(q.upload, "completing")
        BY <2>1, <4>1 DEF MInv, ClaimsOK, Claimants, ClaimStatus
      <4>3. parts'[q.upload] = parts[q.upload]
        BY <3>4, <4>1, <4>2 DEF Kept, Is
      <4> QED BY <3>1, <4>1, <4>3
    <3> QED BY <3>1, <3>3, <3>4 DEF Kept
  <2>4. q.pc = "commit" => blobs'[q.path] = q.want
    <3> SUFFICES ASSUME q.pc = "commit" PROVE blobs'[q.path] = q.want
      OBVIOUS
    <3>1. q.path \in Paths \cap used /\ q.path \notin D
      BY <1>1, <1>2 DEF RequestOK, ShapeOK, OwnedOK, Owned
    <3> QED BY <1>1, <3>1 DEF Kept, RequestOK, CopyOK
  <2> QED BY <2>1, <2>3, <2>4 DEF CopyOK
<1>8. OwnedOK(req[s])'
  <2> SUFFICES ASSUME NEW p \in Owned(q)
               PROVE  /\ p \in used'
                      /\ \A u \in Uploads, n \in PartNumbers :
                            parts'[u][n] # None => parts'[u][n].path # p
                      /\ object' # None => object'.path # p
                      /\ q.pc # "evict" => \A w \in stale' : w.path # p
    BY <1>2 DEF OwnedOK
  <2>1. p \notin D
    OBVIOUS
  <2>2. /\ p \in used
        /\ \A u \in Uploads, n \in PartNumbers : parts[u][n] # None => parts[u][n].path # p
        /\ object # None => object.path # p
        /\ q.pc # "evict" => \A w \in stale : w.path # p
    BY <1>1 DEF RequestOK, OwnedOK
  <2>3. p \in used' /\ (object' # None => object'.path # p)
    BY <2>1, <2>2 DEF Kept
  <2>4. \A u \in Uploads, n \in PartNumbers : parts'[u][n] # None => parts'[u][n].path # p
    BY <2>1, <2>2 DEF Kept
  <2>5. q.pc # "evict" => \A w \in stale' : w.path # p
    BY <2>2 DEF Kept, Visible
  <2> QED BY <2>3, <2>4, <2>5
<1> QED BY <1>2, <1>3, <1>4, <1>6, <1>7, <1>8 DEF RequestOK

\* A step of request r.
LEMMA RequestStep ==
    ASSUME MInv, NEW r \in Requests, \A s \in Requests : s # r => req'[s] = req[s],
           NEW D, Kept(D), \A s \in Requests : s # r => D \cap Owned(req[s]) = {},
           RequestOK(req[r])',
           \A s \in Requests : s # r => Owned(req[r])' \cap Owned(req[s]) = {}
    PROVE  RequestsOK' /\ OwnersApart'
<1>1. ASSUME NEW s \in Requests, s # r
      PROVE  RequestOK(req[s])' /\ Owned(req[s])' = Owned(req[s])
  BY <1>1, Undisturbed
<1>2. RequestsOK'
  BY <1>1 DEF RequestsOK
<1>3. OwnersApart'
  <2> SUFFICES ASSUME NEW s \in Requests, NEW t \in Requests, s # t
               PROVE  Owned(req[s])' \cap Owned(req[t])' = {}
    BY DEF OwnersApart
  <2>1. CASE s = r
    BY <1>1, <2>1
  <2>2. CASE t = r
    BY <1>1, <2>2
  <2>3. CASE s # r /\ t # r
    BY <1>1, <2>3 DEF MInv, OwnersApart
  <2> QED BY <2>1, <2>2, <2>3
<1> QED BY <1>2, <1>3

\* A step of something else.
LEMMA OtherStep ==
    ASSUME MInv, req' = req, Kept({})
    PROVE  RequestsOK' /\ OwnersApart'
<1>1. ASSUME NEW s \in Requests
      PROVE  RequestOK(req[s])' /\ Owned(req[s])' = Owned(req[s])
  BY Undisturbed
<1>2. RequestsOK'
  BY <1>1 DEF RequestsOK
<1>3. OwnersApart'
  BY <1>1 DEF MInv, OwnersApart
<1> QED BY <1>2, <1>3

\* Rows that stay keep their files, if the step makes no new ones.
LEMMA RowsKept ==
    ASSUME MInv, NEW D, Free(D), Kept(D), DrawnOK',
           \A u \in Uploads, n \in PartNumbers : parts'[u][n] \in {parts[u][n], None},
           object' = object, stale' \subseteq stale
    PROVE  PartRowsHaveFiles' /\ RowPathsApart' /\ ObjectHasFile'
<1> USE NoneAssumption
<1>1. PartRowsHaveFiles'
  <2> SUFFICES ASSUME NEW u \in Uploads, NEW n \in PartNumbers, parts'[u][n] # None
               PROVE  files'[parts'[u][n].path] = [upload |-> u, body |-> parts'[u][n].etag]
    BY DEF PartRowsHaveFiles
  <2> DEFINE row == parts[u][n]
  <2>1. parts'[u][n] = row /\ row # None
    OBVIOUS
  <2>2. row \in Part
    BY <2>1 DEF MInv, TypeOK
  <2>3. row.path \in Paths /\ row.path \notin D
    BY <2>1, <2>2 DEF Part, Free
  <2>4. files[row.path] = [upload |-> u, body |-> row.etag]
    BY <2>1 DEF MInv, PartRowsHaveFiles
  <2>5. files[row.path] # None /\ files[row.path].upload = u
    <3>1. [upload |-> u, body |-> row.etag] \in PartFile
      BY <2>2 DEF PartFile, Part
    <3> QED BY <2>4, <3>1
  <2>6. row.path \in used
    BY <2>3, <2>5 DEF MInv, DrawnOK
  <2>7. uploads'[u] # None
    BY DEF DrawnOK
  <2>8. files'[row.path] = files[row.path]
    BY <2>3, <2>5, <2>6, <2>7 DEF Kept
  <2> QED BY <2>1, <2>4, <2>8
<1>2. RowPathsApart'
  BY DEF MInv, RowPathsApart
<1>3. ObjectHasFile'
  <2> SUFFICES ASSUME NEW w \in Visible' PROVE blobs'[w.path] = w.etag
    BY DEF ObjectHasFile
  <2>1. w \in Visible /\ w \in Object
    BY DEF Visible, MInv, TypeOK
  <2>2. w.path \in Paths /\ w.path \notin D /\ w.etag \in Manifest
    BY <2>1 DEF Visible, Free, Object
  <2>3. blobs[w.path] = w.etag
    BY <2>1 DEF MInv, ObjectHasFile
  <2>4. w.path \in used
    BY <2>2, <2>3 DEF MInv, DrawnOK
  <2> QED BY <2>2, <2>3, <2>4 DEF Kept
<1> QED BY <1>1, <1>2, <1>3

\* Claims that end, or whose rows go, disturb no other.
LEMMA ClaimsKept ==
    ASSUME ClaimsOK,
           \A u \in Uploads : uploads'[u] # None =>
               /\ uploads[u] # None
               /\ Claimants(u)' \subseteq Claimants(u)
               /\ \A r \in Claimants(u)' : req'[r].op = req[r].op
               /\ CleanerClaims(u)' => CleanerClaims(u)
               /\ \/ uploads'[u].status = uploads[u].status
                  \/ Claimants(u)' = {} /\ ~CleanerClaims(u)'
    PROVE  ClaimsOK'
<1> SUFFICES ASSUME NEW u \in Uploads, uploads'[u] # None
             PROVE  /\ \A r \in Claimants(u)' : Is(u, ClaimStatus(req[r].op))'
                    /\ CleanerClaims(u)' => Is(u, "aborted")' /\ Claimants(u)' = {}
                    /\ \A r, s \in Claimants(u)' : r = s
  BY DEF ClaimsOK
<1>1. CASE uploads'[u].status = uploads[u].status
  <2>1. /\ \A r \in Claimants(u) : Is(u, ClaimStatus(req[r].op))
        /\ CleanerClaims(u) => Is(u, "aborted") /\ Claimants(u) = {}
        /\ \A r, s \in Claimants(u) : r = s
    BY DEF ClaimsOK
  <2>2. \A r \in Claimants(u)' : Is(u, ClaimStatus(req[r].op))'
    BY <1>1, <2>1 DEF Is, ClaimStatus
  <2>3. CleanerClaims(u)' => Is(u, "aborted")' /\ Claimants(u)' = {}
    BY <1>1, <2>1 DEF Is
  <2> QED BY <2>1, <2>2, <2>3
<1>2. CASE Claimants(u)' = {} /\ ~CleanerClaims(u)'
  BY <1>2
<1> QED BY <1>1, <1>2

\* What goes was drawn before.
LEMMA DrawnKept ==
    ASSUME DrawnOK, used \subseteq used',
           \A u \in Uploads : uploads'[u] # None => uploads[u] # None,
           \A u \in Uploads, n \in PartNumbers :
                parts'[u][n] # None => parts[u][n] # None /\ uploads'[u] # None,
           \A p \in Paths : files'[p] # None => files[p] # None,
           \A p \in Paths : blobs'[p] # None => blobs[p] # None
    PROVE  DrawnOK'
  BY DEF DrawnOK

\* The cleanup does not move while uploads that are gone stay gone.
LEMMA CleanerKept ==
    ASSUME CleanerOK, cleaner' = cleaner, used \subseteq used',
           \A u \in Uploads : u \in used /\ uploads[u] = None => uploads'[u] = None
    PROVE  CleanerOK'
  BY DEF CleanerOK

\* Handlers run only while the server serves.
LEMMA Serving ==
    ASSUME MInv, NEW r \in Requests, req[r].pc # "idle"
    PROVE  phase = "serving"
  BY DEF MInv, TypeOK, StartingOK, Idle

-----------------------------------------------------------------------------
(* Requests as records of opaque columns                                   *)

Opt(S) == S \cup {None}
OpName == AllOperations \cup {"none"}
RowSets == {None} \cup UNION {[S -> Part] : S \in SUBSET PartNumbers}
GotSets == {None} \cup UNION {[S -> Bodies \cup {None}] : S \in SUBSET PartNumbers}
ThenPCs == {"idle", "release", "purge"}
UploadSets == SUBSET Uploads
PathSets == SUBSET Paths

LEMMA RequestFields ==
    Request = [pc : PCs, op : OpName, upload : Opt(Uploads), number : Opt(PartNumbers),
               body : Opt(Bodies), want : Opt(Manifest), cond : AllConditions,
               rows : RowSets, got : GotSets, path : Opt(Paths), claim : BOOLEAN,
               todo : UploadSets, doomed : PathSets, then : ThenPCs]
  BY DEF Request, OpName, Opt, RowSets, GotSets, ThenPCs, UploadSets, PathSets

LEMMA IdleOK ==
    /\ Idle \in Request /\ RequestOK(Idle) /\ Owned(Idle) = {} /\ ~Idle.claim
    /\ Idle.pc = "idle" /\ Idle.upload = None
<1>1. /\ "idle" \in PCs /\ "none" \in OpName /\ None \in Opt(Uploads)
      /\ None \in Opt(PartNumbers) /\ None \in Opt(Bodies) /\ None \in Opt(Manifest)
      /\ "none" \in AllConditions /\ None \in RowSets /\ None \in GotSets
      /\ None \in Opt(Paths) /\ {} \in UploadSets /\ {} \in PathSets /\ "idle" \in ThenPCs
  BY DEF PCs, OpName, Opt, AllConditions, RowSets, GotSets, UploadSets, PathSets, ThenPCs
<1>2. Idle \in Request
  BY <1>1, RequestFields DEF Idle
<1>3. /\ Idle.pc = "idle" /\ Idle.claim = FALSE /\ Idle.upload = None /\ Idle.todo = {}
      /\ Idle.doomed = {}
  BY DEF Idle
<1>4. Owned(Idle) = {}
  BY <1>3 DEF Owned
<1>5. RequestOK(Idle)
  BY <1>3, <1>4, NoneAssumption DEF RequestOK, ShapeOK, UploadOK, WritingOK, CopyOK, OwnedOK,
        NoUpload, ClaimPCs
<1> QED BY <1>2, <1>3, <1>4, <1>5

\* The lock's variable is a function into requests, whoever ends.
LEMMA EndTypes ==
    ASSUME TypeOK, NEW r \in Requests, End(r)
    PROVE  lock' \in [Uploads -> Requests \cup {None}] /\ req' = [req EXCEPT ![r] = Idle]
  BY DEF End, TypeOK

-----------------------------------------------------------------------------
(* Steps that write neither rows nor files                                 *)

\* r moves to f, which is in order, owns no new path and claims nothing new.
LEMMA MoveOK ==
    ASSUME MInv, NEW r \in Requests, NEW f \in Request, req' = [req EXCEPT ![r] = f],
           lock' \in [Uploads -> Requests \cup {None}],
           UNCHANGED <<db, stale, disk, used, cleaner, process>>,
           served' \in 0..MaxRequests, faults' \in 0..MaxFaults, phase = "serving",
           RequestOK(f), Owned(f) \subseteq Owned(req[r]),
           f.claim => req[r].claim /\ f.upload = req[r].upload /\ f.op = req[r].op
    PROVE  MInv'
<1>1. UNCHANGED <<bucket, uploads, parts, object, stale, files, blobs, used, cleaner, phase,
                  crashes>>
  BY DEF db, disk, process
<1>2. /\ req' \in [Requests -> Request] /\ req'[r] = f
      /\ \A s \in Requests : s # r => req'[s] = req[s]
  BY DEF MInv, TypeOK
<1>3. TypeOK'
  BY <1>1, <1>2 DEF MInv, TypeOK
<1>4. Kept({})
  BY <1>1 DEF Kept, Visible
<1>5. RequestOK(req[r])' /\ Owned(req[r])' = Owned(f)
  BY <1>1, <1>2 DEF RequestOK, ShapeOK, UploadOK, WritingOK, CopyOK, OwnedOK, Owned
<1>6. RequestsOK' /\ OwnersApart'
  BY <1>2, <1>4, <1>5, RequestStep DEF MInv, OwnersApart
<1>7. DrawnOK'
  BY <1>1 DEF MInv, DrawnOK
<1>8. CleanerOK'
  BY <1>1 DEF MInv, CleanerOK
<1>9. StartingOK'
  BY <1>1 DEF StartingOK
<1>10. ClaimsOK'
  <2>1. \A u \in Uploads : Claimants(u)' \subseteq Claimants(u)
    BY <1>2 DEF Claimants
  <2>2. \A u \in Uploads : \A s \in Claimants(u)' : req'[s].op = req[s].op
    BY <1>2 DEF Claimants
  <2>3. \A u \in Uploads : CleanerClaims(u)' = CleanerClaims(u)
    BY <1>1 DEF CleanerClaims
  <2> QED BY <1>1, <2>1, <2>2, <2>3, ClaimsKept DEF MInv
<1>11. PartRowsHaveFiles' /\ RowPathsApart' /\ ObjectHasFile'
  BY <1>1 DEF MInv, PartRowsHaveFiles, RowPathsApart, ObjectHasFile, Visible
<1> QED BY <1>3, <1>6, <1>7, <1>8, <1>9, <1>10, <1>11 DEF MInv

\* r answers.
LEMMA EndOK ==
    ASSUME MInv, NEW r \in Requests, End(r), req[r].pc # "idle",
           UNCHANGED <<db, stale, disk, used, cleaner, process>>,
           served' \in 0..MaxRequests, faults' \in 0..MaxFaults
    PROVE  MInv'
<1>1. lock' \in [Uploads -> Requests \cup {None}] /\ req' = [req EXCEPT ![r] = Idle]
  BY EndTypes DEF MInv
<1> QED BY <1>1, IdleOK, MoveOK, Serving

\* The counters stay within their bounds.
LEMMA Counters ==
    ASSUME TypeOK
    PROVE  /\ served \in 0..MaxRequests /\ faults \in 0..MaxFaults
           /\ Fault => faults' \in 0..MaxFaults
           /\ NoFault => faults' \in 0..MaxFaults
<1>1. served \in 0..MaxRequests /\ faults \in 0..MaxFaults
  BY DEF TypeOK
<1> QED BY <1>1, ConstantsAssumption DEF Fault, NoFault

LEMMA Current ==
    ASSUME MInv, NEW r \in Requests
    PROVE  req[r] \in Request /\ RequestOK(req[r]) /\ TypeOK
  BY DEF MInv, RequestsOK, TypeOK

\* MoveOK for a request under way that does not answer yet.
LEMMA GoOK ==
    ASSUME MInv, NEW r \in Requests, NEW f \in Request, Go(r, f), req[r].pc # "idle",
           UNCHANGED <<db, stale, disk, used, cleaner, process, served>>,
           Fault \/ faults' = faults,
           RequestOK(f), Owned(f) \subseteq Owned(req[r]),
           f.claim => req[r].claim /\ f.upload = req[r].upload /\ f.op = req[r].op
    PROVE  MInv'
<1>1. lock' \in [Uploads -> Requests \cup {None}] /\ req' = [req EXCEPT ![r] = f]
  BY DEF MInv, TypeOK, Go
<1>2. served' \in 0..MaxRequests /\ faults' \in 0..MaxFaults
  BY Counters DEF MInv
<1> QED BY <1>1, <1>2, MoveOK, Serving

\* EndOK for a request that has written nothing in its last step.
LEMMA StopOK ==
    ASSUME MInv, NEW r \in Requests, End(r), req[r].pc # "idle",
           UNCHANGED <<db, stale, disk, used, cleaner, process, served>>,
           Fault \/ faults' = faults
    PROVE  MInv'
<1>1. served' \in 0..MaxRequests /\ faults' \in 0..MaxFaults
  BY Counters DEF MInv
<1> QED BY <1>1, EndOK

LEMMA StartsOK ==
    ASSUME MInv, NEW r \in Requests, NEW f \in Request, Start(r, f), RequestOK(f),
           Owned(f) = {}, ~f.claim
    PROVE  MInv'
<1>1. lock' \in [Uploads -> Requests \cup {None}] /\ req' = [req EXCEPT ![r] = f]
  BY DEF MInv, TypeOK, Start, Go
<1>2. served' \in 0..MaxRequests /\ faults' \in 0..MaxFaults
  BY Counters, ConstantsAssumption DEF MInv, Start
<1> QED BY <1>1, <1>2, MoveOK DEF Start

LEMMA StartUploadOK ==
    ASSUME MInv, NEW r \in Requests, StartUpload(r)
    PROVE  MInv'
<1>1. PICK u \in Uploads :
        /\ uploads[u] # None
        /\ \/ \E op \in {"part", "copyPart"}, n \in PartNumbers, c \in Bodies :
                Start(r, [Idle EXCEPT !.pc = "lock", !.op = op, !.upload = u,
                                      !.number = n, !.body = c])
           \/ \E op \in {"complete", "abort"} :
                Start(r, [Idle EXCEPT !.pc = "lock", !.op = op, !.upload = u])
  BY DEF StartUpload
<1>2. u \in used /\ u \in Opt(Uploads) /\ "lock" \in PCs
  BY <1>1 DEF MInv, DrawnOK, Opt, PCs
<1>3. ASSUME NEW f \in Request, Start(r, f), f.pc = "lock", f.upload = u,
             f.op \in {"part", "copyPart", "complete", "abort"},
             f.op \in {"part", "copyPart"} => f.number \in PartNumbers /\ f.body \in Bodies,
             f.claim = FALSE, f.todo = {}, f.doomed = {}
      PROVE  MInv'
  <2>1. Owned(f) = {}
    BY <1>3 DEF Owned
  <2>2. RequestOK(f)
    BY <1>2, <1>3, <2>1 DEF RequestOK, ShapeOK, UploadOK, WritingOK, CopyOK, OwnedOK,
          NoUpload, ClaimPCs
  <2> QED BY <1>3, <2>1, <2>2, StartsOK
<1>4. ASSUME NEW op \in {"part", "copyPart"}, NEW n \in PartNumbers, NEW c \in Bodies,
             Start(r, [Idle EXCEPT !.pc = "lock", !.op = op, !.upload = u, !.number = n,
                                   !.body = c])
      PROVE  MInv'
  <2> DEFINE f == [Idle EXCEPT !.pc = "lock", !.op = op, !.upload = u, !.number = n, !.body = c]
  <2>1. n \in Opt(PartNumbers) /\ c \in Opt(Bodies) /\ op \in OpName
    BY DEF Opt, OpName, AllOperations
  <2>2. f \in Request
    BY <1>2, <2>1, IdleOK, RequestFields
  <2>3. /\ f.pc = "lock" /\ f.op = op /\ f.upload = u /\ f.number = n /\ f.body = c
        /\ f.claim = FALSE /\ f.todo = {} /\ f.doomed = {}
    BY IdleOK, RequestFields DEF Idle
  <2> HIDE DEF f
  <2>4. Start(r, f)
    BY <1>4 DEF f
  <2> QED BY <1>3, <2>2, <2>3, <2>4
<1>5. ASSUME NEW op \in {"complete", "abort"},
             Start(r, [Idle EXCEPT !.pc = "lock", !.op = op, !.upload = u])
      PROVE  MInv'
  <2> DEFINE f == [Idle EXCEPT !.pc = "lock", !.op = op, !.upload = u]
  <2>1. op \in OpName
    BY DEF OpName, AllOperations
  <2>2. f \in Request
    BY <1>2, <2>1, IdleOK, RequestFields
  <2>3. /\ f.pc = "lock" /\ f.op = op /\ f.upload = u
        /\ f.claim = FALSE /\ f.todo = {} /\ f.doomed = {}
    BY IdleOK, RequestFields DEF Idle
  <2> HIDE DEF f
  <2>4. Start(r, f)
    BY <1>5 DEF f
  <2> QED BY <1>3, <2>2, <2>3, <2>4
<1> QED BY <1>1, <1>4, <1>5

LEMMA StartDropOK ==
    ASSUME MInv, NEW r \in Requests, StartDrop(r)
    PROVE  MInv'
<1> DEFINE f == [Idle EXCEPT !.pc = "check", !.op = "drop"]
<1>1. Start(r, f)
  BY DEF StartDrop
<1>2. "check" \in PCs /\ "drop" \in OpName
  BY DEF PCs, OpName, AllOperations
<1>3. f \in Request
  BY <1>2, IdleOK, RequestFields
<1>4. /\ f.pc = "check" /\ f.upload = None /\ f.claim = FALSE /\ f.todo = {} /\ f.doomed = {}
  BY DEF Idle
<1> HIDE DEF f
<1>5. Owned(f) = {}
  BY <1>4 DEF Owned
<1>6. RequestOK(f)
  BY <1>4, <1>5, NoneAssumption DEF RequestOK, ShapeOK, UploadOK, WritingOK, CopyOK, OwnedOK,
        NoUpload, ClaimPCs
<1> QED BY <1>1, <1>3, <1>4, <1>5, <1>6, StartsOK

LEMMA LockUploadOK ==
    ASSUME MInv, NEW r \in Requests, LockUpload(r)
    PROVE  MInv'
<1> DEFINE q == req[r]
           pc == IF q.op \in {"part", "copyPart"} THEN "write" ELSE "claim"
           f == [q EXCEPT !.pc = pc]
<1>1. /\ q.pc = "lock"
      /\ UNCHANGED <<db, stale, disk, used, cleaner, process, served, faults>>
  BY DEF LockUpload
<1>2. q \in Request /\ RequestOK(q) /\ TypeOK
  BY Current
<1>3. CASE End(r)
  BY <1>1, <1>3, StopOK
<1>4. CASE lock' = [lock EXCEPT ![q.upload] = r] /\ req' = [req EXCEPT ![r].pc = pc]
  <2>1. lock' \in [Uploads -> Requests \cup {None}] /\ req' = [req EXCEPT ![r] = f]
    BY <1>2, <1>4 DEF TypeOK, RequestOK, ShapeOK, NoUpload
  <2>2. pc \in PCs /\ pc \in {"write", "claim"}
    BY DEF PCs
  <2>3. f \in Request /\ f.pc = pc /\ f.op = q.op /\ f.upload = q.upload /\ f.number = q.number
        /\ f.body = q.body /\ f.claim = q.claim /\ f.todo = q.todo /\ f.then = q.then
    <3> HIDE DEF pc
    <3> QED BY <1>2, <2>2, RequestFields
  <2> HIDE DEF f
  <2>4. /\ q.op \in {"part", "copyPart", "complete", "abort"} /\ q.upload \in Uploads \cap used
        /\ pc = "write" => q.number \in PartNumbers /\ q.body \in Bodies
        /\ pc = "claim" => q.op \in {"complete", "abort"}
        /\ ~q.claim /\ q.todo \subseteq used
    <3>1. q.claim \in BOOLEAN
      BY <1>2, RequestFields
    <3> QED BY <1>1, <1>2, <3>1 DEF RequestOK, ShapeOK, UploadOK, NoUpload, ClaimPCs
  <2> HIDE DEF pc
  <2>5. Owned(f) = {}
    BY <2>2, <2>3 DEF Owned
  <2>6. RequestOK(f)
    BY <2>2, <2>3, <2>4, <2>5 DEF RequestOK, ShapeOK, UploadOK, WritingOK, CopyOK, OwnedOK,
          NoUpload, ClaimPCs
  <2> QED BY <1>1, <2>1, <2>3, <2>4, <2>5, <2>6, MoveOK, Serving, Counters DEF MInv
<1> QED BY <1>3, <1>4 DEF LockUpload

\* The request gives up the file it has just written.
LEMMA GivesUp ==
    ASSUME MInv, NEW r \in Requests, NEW f \in Request, req[r].pc \in {"store", "commit"},
           f.pc = "sweep", f.upload = req[r].upload, f.op = req[r].op, f.todo = req[r].todo,
           f.doomed = {req[r].path}, f.then \in {"idle", "release"},
           f.then = "release" => f.claim, f.claim => req[r].claim
    PROVE  RequestOK(f) /\ Owned(f) \subseteq Owned(req[r])
<1> DEFINE q == req[r]
<1>1. q \in Request /\ RequestOK(q)
  BY Current
<1>2. q.upload \in Uploads \cap used /\ q.todo \subseteq used
  BY <1>1 DEF RequestOK, ShapeOK, UploadOK, NoUpload
<1>3. Owned(f) = {q.path} /\ Owned(q) = {q.path}
  BY DEF Owned
<1>4. f.claim => q.op \in {"complete", "abort"}
  BY <1>1 DEF RequestOK, ShapeOK
<1>5. OwnedOK(f)
  BY <1>1, <1>3 DEF RequestOK, OwnedOK
<1>6. ShapeOK(f) /\ UploadOK(f) /\ WritingOK(f) /\ CopyOK(f)
  BY <1>2, <1>4 DEF ShapeOK, UploadOK, WritingOK, CopyOK, NoUpload, ClaimPCs
<1> QED BY <1>3, <1>5, <1>6 DEF RequestOK

LEMMA SweepingFields ==
    ASSUME NEW q \in Request, NEW D \in SUBSET Paths, NEW t \in ThenPCs
    PROVE  LET f == Sweeping(q, D, t) IN
           /\ f \in Request /\ f.pc = "sweep" /\ f.doomed = D /\ f.then = t
           /\ f.op = q.op /\ f.upload = q.upload /\ f.todo = q.todo /\ f.claim = q.claim
           /\ f.number = q.number /\ f.body = q.body /\ f.path = q.path
<1>1. "sweep" \in PCs /\ D \in PathSets
  BY DEF PCs, PathSets
<1> QED BY <1>1, RequestFields DEF Sweeping

LEMMA BadDigestOK ==
    ASSUME MInv, NEW r \in Requests, BadDigest(r)
    PROVE  MInv'
<1> DEFINE q == req[r]  f == Sweeping(q, {q.path}, "idle")
<1>1. /\ q.pc = "store" /\ Go(r, f)
      /\ UNCHANGED <<db, stale, disk, used, cleaner, process, served, faults>>
  BY DEF BadDigest
<1>2. q \in Request /\ RequestOK(q) /\ q.path \in Paths
  BY <1>1, Current DEF RequestOK, ShapeOK
<1>3. "idle" \in ThenPCs
  BY DEF ThenPCs
<1>4. /\ f \in Request /\ f.pc = "sweep" /\ f.doomed = {q.path} /\ f.then = "idle"
      /\ f.op = q.op /\ f.upload = q.upload /\ f.todo = q.todo /\ f.claim = q.claim
  BY <1>2, <1>3, SweepingFields
<1> HIDE DEF f
<1>5. RequestOK(f) /\ Owned(f) \subseteq Owned(q)
  BY <1>1, <1>4, GivesUp
<1> QED BY <1>1, <1>4, <1>5, GoOK

LEMMA AddPartRefusedOK ==
    ASSUME MInv, NEW r \in Requests, AddPartRefused(r)
    PROVE  MInv'
<1> DEFINE q == req[r]  f == Sweeping(q, {q.path}, "idle")
<1>1. /\ q.pc = "store" /\ Go(r, f) /\ (Fault \/ faults' = faults)
      /\ UNCHANGED <<db, stale, disk, used, cleaner, process, served>>
  BY DEF AddPartRefused, NoFault
<1>2. q \in Request /\ RequestOK(q) /\ q.path \in Paths
  BY <1>1, Current DEF RequestOK, ShapeOK
<1>3. "idle" \in ThenPCs
  BY DEF ThenPCs
<1>4. /\ f \in Request /\ f.pc = "sweep" /\ f.doomed = {q.path} /\ f.then = "idle"
      /\ f.op = q.op /\ f.upload = q.upload /\ f.todo = q.todo /\ f.claim = q.claim
  BY <1>2, <1>3, SweepingFields
<1> HIDE DEF f
<1>5. RequestOK(f) /\ Owned(f) \subseteq Owned(q)
  BY <1>1, <1>4, GivesUp
<1> QED BY <1>1, <1>4, <1>5, GoOK

LEMMA CompleteRefusedOK ==
    ASSUME MInv, NEW r \in Requests, CompleteRefused(r)
    PROVE  MInv'
<1> DEFINE q == req[r]  f == Sweeping(q, {q.path}, "release")
           i == Sweeping(q, {q.path}, "idle")  g == [i EXCEPT !.claim = FALSE]
<1>1. /\ q.pc = "commit" /\ (Fault \/ faults' = faults)
      /\ UNCHANGED <<db, stale, disk, used, cleaner, process, served>>
      /\ Go(r, f) \/ Go(r, g)
  BY DEF CompleteRefused, NoFault
<1>2. q \in Request /\ RequestOK(q) /\ q.path \in Paths
  BY <1>1, Current DEF RequestOK, ShapeOK
<1>3. q.claim
  BY <1>1, <1>2 DEF RequestOK, ShapeOK, ClaimPCs
<1>4. "idle" \in ThenPCs /\ "release" \in ThenPCs /\ FALSE \in BOOLEAN
  BY DEF ThenPCs
<1>5. CASE Go(r, f)
  <2>1. /\ f \in Request /\ f.pc = "sweep" /\ f.doomed = {q.path} /\ f.then = "release"
        /\ f.op = q.op /\ f.upload = q.upload /\ f.todo = q.todo /\ f.claim = q.claim
    BY <1>2, <1>4, SweepingFields
  <2> HIDE DEF f
  <2>2. RequestOK(f) /\ Owned(f) \subseteq Owned(q)
    BY <1>1, <1>3, <2>1, GivesUp
  <2> QED BY <1>1, <1>5, <2>1, <2>2, GoOK
<1>6. CASE Go(r, g)
  <2>1. /\ i \in Request /\ i.pc = "sweep" /\ i.doomed = {q.path} /\ i.then = "idle"
        /\ i.op = q.op /\ i.upload = q.upload /\ i.todo = q.todo
    BY <1>2, <1>4, SweepingFields
  <2> HIDE DEF i
  <2>2. /\ g \in Request /\ g.pc = "sweep" /\ g.doomed = {q.path} /\ g.then = "idle"
        /\ g.op = q.op /\ g.upload = q.upload /\ g.todo = q.todo /\ g.claim = FALSE
    BY <1>4, <2>1, RequestFields
  <2> HIDE DEF g
  <2>3. RequestOK(g) /\ Owned(g) \subseteq Owned(q)
    BY <1>1, <2>2, GivesUp
  <2> QED BY <1>1, <1>6, <2>2, <2>3, GoOK
<1> QED BY <1>1, <1>5, <1>6

LEMMA ClaimRefusedOK ==
    ASSUME MInv, NEW r \in Requests, ClaimRefused(r)
    PROVE  MInv'
  BY StopOK DEF ClaimRefused, NoFault

\* The claim of a request that gives up is to be released.
LEMMA ReleasesOK ==
    ASSUME MInv, NEW r \in Requests, req[r].pc \in {"list", "assemble", "deleteRow"},
           Go(r, [req[r] EXCEPT !.pc = "release"]), Fault \/ faults' = faults,
           UNCHANGED <<db, stale, disk, used, cleaner, process, served>>
    PROVE  MInv'
<1> DEFINE q == req[r]  f == [q EXCEPT !.pc = "release"]
<1>1. q \in Request /\ RequestOK(q) /\ "release" \in PCs
  BY Current DEF PCs
<1>2. /\ f \in Request /\ f.pc = "release" /\ f.op = q.op /\ f.upload = q.upload
      /\ f.todo = q.todo /\ f.claim = q.claim
  BY <1>1, RequestFields
<1> HIDE DEF f
<1>3. q.claim /\ q.op \in {"complete", "abort"} /\ q.upload \in Uploads \cap used
      /\ q.todo \subseteq used
  BY <1>1 DEF RequestOK, ShapeOK, UploadOK, ClaimPCs, NoUpload
<1>4. Owned(f) = {}
  BY <1>2 DEF Owned
<1>5. RequestOK(f)
  BY <1>2, <1>3, <1>4 DEF RequestOK, ShapeOK, UploadOK, WritingOK, CopyOK, OwnedOK, NoUpload,
        ClaimPCs
<1>6. Go(r, f)
  BY DEF f
<1> QED BY <1>2, <1>4, <1>5, <1>6, GoOK

LEMMA ListPartsRefusedOK ==
    ASSUME MInv, NEW r \in Requests, ListPartsRefused(r)
    PROVE  MInv'
  BY ReleasesOK DEF ListPartsRefused, NoFault

LEMMA ListPartsOK ==
    ASSUME MInv, NEW r \in Requests, ListParts(r)
    PROVE  MInv'
<1> USE NoneAssumption
<1> DEFINE q == req[r]
           rows == [n \in DOMAIN q.want |-> parts[q.upload][n]]
           got == [n \in {} |-> None]
           f == [q EXCEPT !.pc = "assemble", !.rows = rows, !.got = got]
<1>1. /\ q.pc = "list" /\ MatchStoredParts(q.upload, q.want) /\ Go(r, f)
      /\ UNCHANGED <<db, stale, disk, used, cleaner, process, served, faults>>
  BY DEF ListParts
<1>2. q \in Request /\ RequestOK(q) /\ TypeOK
  BY Current
<1>3. /\ q.upload \in Uploads \cap used /\ q.todo \subseteq used /\ q.want \in Manifest
      /\ q.claim /\ q.op = "complete"
  BY <1>1, <1>2 DEF RequestOK, ShapeOK, UploadOK, NoUpload, ClaimPCs
<1>4. DOMAIN q.want \subseteq PartNumbers /\ \A n \in DOMAIN q.want : q.want[n] \in Bodies
  BY <1>3 DEF Manifest
<1>5. \A n \in DOMAIN q.want :
        /\ parts[q.upload][n] \in Part /\ parts[q.upload][n] # None
        /\ parts[q.upload][n].etag = q.want[n]
  BY <1>1, <1>2, <1>3, <1>4 DEF MatchStoredParts, TypeOK
<1>6. rows \in RowSets /\ got \in GotSets /\ rows # None /\ got # None
  <2>1. rows \in [DOMAIN q.want -> Part]
    BY <1>5
  <2>2. got \in [{} -> Bodies \cup {None}]
    OBVIOUS
  <2> HIDE DEF rows, got
  <2> QED BY <1>4, <2>1, <2>2 DEF RowSets, GotSets
<1> HIDE DEF rows, got
<1>7. "assemble" \in PCs
  BY DEF PCs
<1>8. /\ f \in Request /\ f.pc = "assemble" /\ f.rows = rows /\ f.got = got /\ f.op = q.op
      /\ f.upload = q.upload /\ f.want = q.want /\ f.todo = q.todo
  BY <1>2, <1>6, <1>7, RequestFields
<1>9. f.claim = q.claim
  BY <1>2, RequestFields
<1> HIDE DEF f
<1>10. Owned(f) = {}
  BY <1>8 DEF Owned
<1>11. ShapeOK(f) /\ UploadOK(f) /\ WritingOK(f) /\ OwnedOK(f)
  BY <1>3, <1>8, <1>9, <1>10 DEF ShapeOK, UploadOK, WritingOK, OwnedOK, NoUpload, ClaimPCs
<1>12. CopyOK(f)
  <2>1. DOMAIN rows = DOMAIN q.want /\ \A n \in DOMAIN q.want : rows[n] = parts[q.upload][n]
    BY DEF rows
  <2>2. DOMAIN got = {}
    BY DEF got
  <2>3. ASSUME NEW n \in DOMAIN q.want
        PROVE  /\ rows[n].etag = q.want[n]
               /\ rows[n].path \in used
               /\ files[rows[n].path] \in {None, [upload |-> q.upload, body |-> q.want[n]]}
               /\ parts[q.upload][n] = rows[n]
    <3>1. files[rows[n].path] = [upload |-> q.upload, body |-> q.want[n]]
      BY <1>3, <1>4, <1>5, <2>1 DEF MInv, PartRowsHaveFiles
    <3>2. [upload |-> q.upload, body |-> q.want[n]] \in PartFile /\ rows[n].path \in Paths
      BY <1>3, <1>4, <1>5, <2>1 DEF PartFile, Part
    <3>3. rows[n].path \in used
      BY <3>1, <3>2 DEF MInv, DrawnOK
    <3> QED BY <1>5, <2>1, <3>1, <3>3
  <2> QED BY <1>6, <1>8, <2>1, <2>2, <2>3 DEF CopyOK
<1>13. RequestOK(f)
  BY <1>11, <1>12 DEF RequestOK
<1> QED BY <1>1, <1>3, <1>8, <1>9, <1>10, <1>13, GoOK

\* copyParts opens a part it has not read.
LEMMA FirstUnreadIn ==
    ASSUME NEW q, Unread(q) \subseteq PartNumbers, Unread(q) # {}
    PROVE  FirstUnread(q) \in Unread(q)
<1>1. Unread(q) \subseteq Nat
  BY ConstantsAssumption
<1>2. PICK n \in Unread(q) : \A m \in Unread(q) : ~ <<m, n>> \in OpToRel(<, Nat)
  <2>1. IsWellFoundedOn(OpToRel(<, Nat), Nat)
    BY NatLessThanWellFounded
  <2> QED BY <1>1, <2>1, WFMin
<1>3. \A m \in Unread(q) : n <= m
  <2> SUFFICES ASSUME NEW m \in Unread(q) PROVE ~(m < n)
    BY <1>1
  <2>1. m \in Nat /\ n \in Nat
    BY <1>1
  <2>2. m < n => <<m, n>> \in OpToRel(<, Nat)
    BY <2>1, Zenon DEF OpToRel
  <2> QED BY <1>2, <2>2
<1> QED BY <1>3 DEF FirstUnread

LEMMA CopyPartOK ==
    ASSUME MInv, NEW r \in Requests, CopyPart(r)
    PROVE  MInv'
<1> USE NoneAssumption
<1> DEFINE q == req[r]
           n == FirstUnread(q)
           b == files[q.rows[n].path].body
           got == [m \in DOMAIN q.got \cup {n} |-> IF m = n THEN b ELSE q.got[m]]
           f == [q EXCEPT !.got = got]
<1>1. /\ q.pc = "assemble" /\ Unread(q) # {} /\ files[q.rows[n].path] # None /\ Go(r, f)
      /\ UNCHANGED <<db, stale, disk, used, cleaner, process, served, faults>>
  BY DEF CopyPart
<1>2. q \in Request /\ RequestOK(q) /\ TypeOK
  BY Current
<1>3. q.want \in Manifest /\ CopyOK(q)
  BY <1>1, <1>2 DEF RequestOK, ShapeOK
<1>4. DOMAIN q.want \subseteq PartNumbers /\ \A m \in DOMAIN q.want : q.want[m] \in Bodies
  BY <1>3, SMTT(30) DEF Manifest
<1>5. n \in DOMAIN q.want
  BY <1>1, <1>3, <1>4, FirstUnreadIn DEF Unread, CopyOK
<1>6. b = q.want[n]
  <2> HIDE DEF n
  <2>1. files[q.rows[n].path] \in {None, [upload |-> q.upload, body |-> q.want[n]]}
    BY <1>1, <1>3, <1>5 DEF CopyOK
  <2>2. files[q.rows[n].path] = [upload |-> q.upload, body |-> q.want[n]]
    BY <1>1, <2>1
  <2> QED BY <2>2, SMTT(30)
<1>7. /\ DOMAIN got \subseteq DOMAIN q.want
      /\ \A m \in DOMAIN got : got[m] = q.want[m]
      /\ got \in GotSets /\ got # None
  <2> HIDE DEF b, n
  <2>1. DOMAIN got = DOMAIN q.got \cup {n}
    OBVIOUS
  <2>2. DOMAIN got \subseteq DOMAIN q.want
    BY <1>1, <1>3, <1>5, <2>1 DEF CopyOK
  <2>3. \A m \in DOMAIN got : got[m] = q.want[m]
    BY <1>1, <1>3, <1>6 DEF CopyOK
  <2>4. got \in [DOMAIN got -> Bodies \cup {None}]
    BY <1>4, <2>2, <2>3
  <2>5. got \in GotSets /\ got # None
    <3>1. DOMAIN got \in SUBSET PartNumbers
      BY <1>4, <2>2
    <3> HIDE DEF got
    <3> QED BY <2>4, <3>1 DEF GotSets
  <2> QED BY <2>2, <2>3, <2>5
<1> HIDE DEF got
<1>8. /\ f \in Request /\ f.pc = "assemble" /\ f.rows = q.rows /\ f.got = got /\ f.op = q.op
      /\ f.upload = q.upload /\ f.want = q.want /\ f.todo = q.todo
  BY <1>1, <1>2, <1>7, RequestFields
<1>9. f.claim = q.claim
  BY <1>2, RequestFields
<1> HIDE DEF f
<1>10. Owned(f) = {}
  BY <1>8 DEF Owned
<1>11. ShapeOK(f) /\ UploadOK(f) /\ WritingOK(f) /\ OwnedOK(f)
  BY <1>1, <1>2, <1>8, <1>9, <1>10 DEF RequestOK, ShapeOK, UploadOK, WritingOK, OwnedOK,
        NoUpload, ClaimPCs
<1>12. CopyOK(f)
  BY <1>1, <1>3, <1>7, <1>8 DEF CopyOK
<1>13. RequestOK(f)
  BY <1>11, <1>12 DEF RequestOK
<1> QED BY <1>1, <1>8, <1>9, <1>10, <1>13, GoOK

LEMMA PurgedOK ==
    ASSUME MInv, NEW r \in Requests, Purged(r)
    PROVE  MInv'
<1> DEFINE q == req[r]  f == [q EXCEPT !.pc = "next", !.upload = None]
<1>1. /\ q.pc = "purge" /\ (Fault \/ faults' = faults) /\ (Go(r, f) \/ End(r))
      /\ UNCHANGED <<db, stale, disk, used, cleaner, process, served>>
  BY DEF Purged, NoFault
<1>2. CASE Go(r, f)
  <2>1. q \in Request /\ RequestOK(q) /\ "next" \in PCs /\ None \in Opt(Uploads)
    BY Current DEF PCs, Opt
  <2>2. f \in Request /\ f.pc = "next" /\ f.upload = None /\ f.todo = q.todo
    BY <2>1, RequestFields
  <2>3. f.claim = q.claim
    BY <2>1, RequestFields
  <2> HIDE DEF f
  <2>4. ~q.claim /\ q.todo \subseteq used
    BY <1>1, <2>1 DEF RequestOK, UploadOK
  <2>5. Owned(f) = {}
    BY <2>2 DEF Owned
  <2>6. RequestOK(f)
    BY <2>2, <2>3, <2>4, <2>5, NoneAssumption DEF RequestOK, ShapeOK, UploadOK, WritingOK,
          CopyOK, OwnedOK, NoUpload, ClaimPCs
  <2> QED BY <1>1, <1>2, <2>2, <2>3, <2>4, <2>5, <2>6, GoOK
<1> QED BY <1>1, <1>2, StopOK

\* DeleteBucket has no upload in hand.
LEMMA BetweenUploads ==
    ASSUME MInv, NEW r \in Requests, req[r].pc \in {"check", "uploads", "next"},
           NEW f \in Request, Go(r, f), f.pc \in {"uploads", "next", "drop"},
           f.upload = req[r].upload, f.claim = req[r].claim, f.todo \subseteq used,
           UNCHANGED <<db, stale, disk, used, cleaner, process, served, faults>>
    PROVE  MInv'
<1> DEFINE q == req[r]
<1>1. RequestOK(q) /\ q.claim \in BOOLEAN
  BY Current, RequestFields
<1>2. ~q.claim /\ (q.upload \in Uploads => q.upload \in used)
  BY <1>1 DEF RequestOK, ShapeOK, UploadOK, ClaimPCs
<1>3. Owned(f) = {}
  BY DEF Owned
<1>4. RequestOK(f)
  BY <1>2, <1>3 DEF RequestOK, ShapeOK, UploadOK, WritingOK, CopyOK, OwnedOK, NoUpload, ClaimPCs
<1> QED BY <1>2, <1>3, <1>4, GoOK

LEMMA CheckEmptyOK ==
    ASSUME MInv, NEW r \in Requests, CheckEmpty(r)
    PROVE  MInv'
<1> DEFINE q == req[r]  f == [q EXCEPT !.pc = "uploads"]
<1>1. /\ q.pc = "check" /\ (Go(r, f) \/ End(r))
      /\ UNCHANGED <<db, stale, disk, used, cleaner, process, served, faults>>
  BY DEF CheckEmpty
<1>2. q \in Request /\ q.todo \subseteq used /\ "uploads" \in PCs
  BY Current DEF RequestOK, UploadOK, PCs
<1>3. f \in Request /\ f.pc = "uploads" /\ f.upload = q.upload /\ f.todo = q.todo
      /\ f.claim = q.claim
  BY <1>2, RequestFields
<1> HIDE DEF f
<1> QED BY <1>1, <1>2, <1>3, BetweenUploads, StopOK

LEMMA ListUploadsOK ==
    ASSUME MInv, NEW r \in Requests, ListUploads(r)
    PROVE  MInv'
<1> DEFINE q == req[r]  pending == {u \in Uploads : Is(u, "active")}
           pc == IF pending = {} THEN "drop" ELSE "next"
           f == [q EXCEPT !.todo = pending, !.pc = pc]
<1>1. /\ q.pc = "uploads" /\ Go(r, f)
      /\ UNCHANGED <<db, stale, disk, used, cleaner, process, served, faults>>
  BY DEF ListUploads
<1>2. q \in Request /\ pending \subseteq used /\ pending \in UploadSets
  BY Current DEF UploadSets, MInv, DrawnOK, Is
<1>3. pc \in PCs /\ pc \in {"next", "drop"}
  BY DEF PCs
<1> HIDE DEF pc, pending
<1>4. f \in Request /\ f.pc = pc /\ f.upload = q.upload /\ f.todo = pending /\ f.claim = q.claim
  BY <1>2, <1>3, RequestFields
<1> HIDE DEF f
<1> QED BY <1>1, <1>2, <1>3, <1>4, BetweenUploads

-----------------------------------------------------------------------------
(* Steps that write files, or remove rows                                  *)

\* A step of r that writes no new row and touches no path of another request.
LEMMA StepOK ==
    ASSUME MInv, NEW r \in Requests, \A s \in Requests : s # r => req'[s] = req[s],
           TypeOK', DrawnOK', ClaimsOK', cleaner' = cleaner, phase = "serving", phase' = phase,
           NEW D, Kept(D), D \subseteq Owned(req[r]), D # {} => req[r].pc # "evict",
           RequestOK(req[r])', Owned(req[r])' \subseteq Owned(req[r]) \cup (used' \ used),
           \A u \in Uploads, n \in PartNumbers : parts'[u][n] \in {parts[u][n], None},
           object' = object, stale' \subseteq stale
    PROVE  MInv'
<1>1. \A s \in Requests : OwnedOK(req[s])
  BY Current DEF RequestOK
<1>2. \A s \in Requests : s # r => Owned(req[s]) \cap Owned(req[r]) = {}
  BY DEF MInv, OwnersApart
<1>3. \A s \in Requests : s # r => D \cap Owned(req[s]) = {}
  BY <1>2
<1>4. \A s \in Requests : s # r => Owned(req[r])' \cap Owned(req[s]) = {}
  BY <1>1, <1>2 DEF OwnedOK
<1>5. RequestsOK' /\ OwnersApart'
  BY <1>3, <1>4, RequestStep
<1>6. CleanerOK'
  BY CleanerKept DEF MInv, Kept
<1>7. Free(D)
  BY <1>1 DEF Free, OwnedOK
<1>8. PartRowsHaveFiles' /\ RowPathsApart' /\ ObjectHasFile'
  BY <1>7, RowsKept
<1>9. StartingOK'
  BY DEF StartingOK
<1> QED BY <1>5, <1>6, <1>8, <1>9 DEF MInv

\* Claims when r keeps its claim or gives it up and no row changes status.
LEMMA ClaimsOfMove ==
    ASSUME MInv, NEW r \in Requests, \A s \in Requests : s # r => req'[s] = req[s],
           req'[r].claim => /\ req[r].claim /\ req'[r].upload = req[r].upload
                            /\ req'[r].op = req[r].op,
           cleaner' = cleaner, \A u \in Uploads : uploads'[u] \in {uploads[u], None}
    PROVE  ClaimsOK'
<1>1. \A u \in Uploads : Claimants(u)' \subseteq Claimants(u)
  BY DEF Claimants
<1>2. \A u \in Uploads : \A s \in Claimants(u)' : req'[s].op = req[s].op
  BY DEF Claimants
<1>3. \A u \in Uploads : CleanerClaims(u)' = CleanerClaims(u)
  BY DEF CleanerClaims
<1>4. \A u \in Uploads : uploads'[u] # None => uploads'[u] = uploads[u]
  OBVIOUS
<1> HIDE DEF Claimants, CleanerClaims
<1> QED BY <1>1, <1>2, <1>3, <1>4, ClaimsKept DEF MInv

\* A step that writes files only.
LEMMA WritesOK ==
    ASSUME MInv, NEW r \in Requests, NEW f \in Request, req' = [req EXCEPT ![r] = f],
           req[r].pc # "idle", lock' \in [Uploads -> Requests \cup {None}],
           UNCHANGED <<db, stale, cleaner, process, served>>, Fault \/ faults' = faults,
           used \subseteq used', used' \subseteq Paths \cup Uploads,
           files' \in [Paths -> PartFile \cup {None}], blobs' \in [Paths -> Manifest \cup {None}],
           DrawnOK', NEW D, Kept(D), D \subseteq Owned(req[r]), D # {} => req[r].pc # "evict",
           RequestOK(req[r])', Owned(f) \subseteq Owned(req[r]) \cup (used' \ used),
           f.claim => req[r].claim /\ f.upload = req[r].upload /\ f.op = req[r].op
    PROVE  MInv'
<1>1. UNCHANGED <<bucket, uploads, parts, object, stale, cleaner, phase, crashes, served>>
  BY DEF db, process
<1>2. /\ req' \in [Requests -> Request] /\ req'[r] = f
      /\ \A s \in Requests : s # r => req'[s] = req[s]
  BY DEF MInv, TypeOK
<1>3. served' \in 0..MaxRequests /\ faults' \in 0..MaxFaults
  BY <1>1, Counters DEF MInv
<1>4. TypeOK'
  BY <1>1, <1>2, <1>3 DEF MInv, TypeOK
<1>5. ClaimsOK'
  BY <1>1, <1>2, ClaimsOfMove
<1>6. Owned(req[r])' = Owned(f)
  BY <1>2 DEF Owned
<1>7. \A u \in Uploads, n \in PartNumbers : parts'[u][n] \in {parts[u][n], None}
  BY <1>1
<1> QED BY <1>1, <1>2, <1>4, <1>5, <1>6, <1>7, Serving, StepOK

\* Rows name paths that have been drawn.
LEMMA RowPathsDrawn ==
    ASSUME MInv
    PROVE  /\ \A u \in Uploads, n \in PartNumbers :
                parts[u][n] # None => parts[u][n].path \in Paths \cap used
           /\ \A w \in Visible : w.path \in Paths \cap used
<1> USE NoneAssumption
<1>1. ASSUME NEW u \in Uploads, NEW n \in PartNumbers, parts[u][n] # None
      PROVE  parts[u][n].path \in Paths \cap used
  <2> DEFINE row == parts[u][n]
  <2>1. row \in Part /\ row.path \in Paths
    BY <1>1 DEF MInv, TypeOK, Part
  <2>2. files[row.path] = [upload |-> u, body |-> row.etag]
    BY <1>1 DEF MInv, PartRowsHaveFiles
  <2>3. [upload |-> u, body |-> row.etag] \in PartFile
    BY <2>1 DEF PartFile, Part
  <2> QED BY <2>1, <2>2, <2>3 DEF MInv, DrawnOK
<1>2. ASSUME NEW w \in Visible
      PROVE  w.path \in Paths \cap used
  <2>1. w \in Object /\ w.path \in Paths /\ w.etag \in Manifest
    BY DEF Visible, MInv, TypeOK, Object
  <2>2. blobs[w.path] = w.etag
    BY DEF MInv, ObjectHasFile
  <2> QED BY <2>1, <2>2 DEF MInv, DrawnOK
<1> QED BY <1>1, <1>2

LEMMA FreshIsFree ==
    ASSUME MInv, NEW p, p \notin used
    PROVE  Free({p})
  BY RowPathsDrawn DEF Free, Visible

LEMMA CreatePartOK ==
    ASSUME MInv, NEW r \in Requests, CreatePart(r)
    PROVE  MInv'
<1> USE NoneAssumption
<1> DEFINE q == req[r]
<1>1. PICK p \in Paths \ used :
        /\ used' = used \cup {p}
        /\ files' = [files EXCEPT ![p] = [upload |-> q.upload, body |-> None]]
        /\ Go(r, [q EXCEPT !.pc = "fill", !.path = p])
  BY DEF CreatePart
<1> DEFINE new == [upload |-> q.upload, body |-> None]
           f == [q EXCEPT !.pc = "fill", !.path = p]
<1>2. /\ q.pc = "write"
      /\ UNCHANGED <<bucket, uploads, parts, object, stale, blobs, cleaner, process, served,
                     faults>>
  BY DEF CreatePart, db
<1>3. q \in Request /\ RequestOK(q) /\ TypeOK
  BY Current
<1>4. /\ q.upload \in Uploads \cap used /\ q.number \in PartNumbers /\ q.body \in Bodies
      /\ q.todo \subseteq used
  BY <1>2, <1>3 DEF RequestOK, ShapeOK, UploadOK, NoUpload
<1>5. "fill" \in PCs /\ p \in Opt(Paths)
  BY DEF PCs, Opt
<1>6. /\ f \in Request /\ f.pc = "fill" /\ f.path = p /\ f.op = q.op /\ f.upload = q.upload
      /\ f.number = q.number /\ f.body = q.body /\ f.todo = q.todo
  BY <1>3, <1>5, RequestFields
<1>7. f.claim = q.claim /\ q.claim \in BOOLEAN
  BY <1>3, RequestFields
<1>8. req' = [req EXCEPT ![r] = f] /\ lock' = lock
  BY <1>1 DEF Go
<1> HIDE DEF f
<1>9. ~q.claim
  BY <1>2, <1>3, <1>7 DEF RequestOK, ShapeOK, ClaimPCs
<1>10. new \in PartFile /\ new # None
  BY <1>4 DEF PartFile
<1>11. /\ files' \in [Paths -> PartFile \cup {None}] /\ files'[p] = new
       /\ \A x \in Paths : x # p => files'[x] = files[x]
  BY <1>1, <1>3, <1>10 DEF TypeOK
<1> HIDE DEF new
<1>12. files[p] = None /\ blobs[p] = None
  BY DEF MInv, DrawnOK
<1>13. DrawnOK'
  <2>1. \A x \in Paths : files'[x] # None \/ blobs'[x] # None => x \in used'
    BY <1>1, <1>2, <1>11 DEF MInv, DrawnOK
  <2>2. \A x \in Paths : files'[x] = None \/ blobs'[x] = None
    BY <1>2, <1>11, <1>12 DEF MInv, DrawnOK
  <2> QED BY <1>1, <1>2, <2>1, <2>2 DEF MInv, DrawnOK
<1>14. Kept({})
  BY <1>1, <1>2, <1>11 DEF Kept, Visible
<1>15. Owned(f) = {p}
  BY <1>6 DEF Owned
<1>16. RequestOK(req[r])'
  <2>1. req'[r] = f
    BY <1>3, <1>8 DEF TypeOK
  <2>2. OwnedOK(req[r])'
    <3>1. Owned(req[r])' = {p}
      BY <2>1, <1>15 DEF Owned
    <3> QED BY <1>1, <1>2, <3>1, FreshIsFree DEF OwnedOK, Free
  <2>3. ShapeOK(req[r])' /\ UploadOK(req[r])' /\ CopyOK(req[r])'
    BY <1>1, <1>4, <1>6, <1>7, <1>9, <2>1 DEF ShapeOK, UploadOK, CopyOK, NoUpload, ClaimPCs
  <2>4. WritingOK(req[r])'
    BY <1>2, <1>6, <1>10, <1>11, <1>12, <2>1 DEF WritingOK, new
  <2> QED BY <2>2, <2>3, <2>4 DEF RequestOK
<1>17. used' \subseteq Paths \cup Uploads /\ used \subseteq used' /\ p \in used' \ used
  BY <1>1, <1>3 DEF TypeOK
<1>18. /\ lock' \in [Uploads -> Requests \cup {None}] /\ blobs' \in [Paths -> Manifest \cup {None}]
       /\ UNCHANGED <<db, stale, cleaner, process, served, faults>>
  BY <1>2, <1>3, <1>8 DEF TypeOK, db
<1>19. Owned(f) \subseteq Owned(q) \cup (used' \ used) /\ ~f.claim
  BY <1>7, <1>9, <1>15, <1>17
<1>20. {} \subseteq Owned(q) /\ ({} # {} => q.pc # "evict")
  OBVIOUS
<1> QED BY <1>2, <1>6, <1>8, <1>11, <1>13, <1>14, <1>16, <1>17, <1>18, <1>19, <1>20, WritesOK

LEMMA FillPartOK ==
    ASSUME MInv, NEW r \in Requests, FillPart(r)
    PROVE  MInv'
<1> USE NoneAssumption
<1> DEFINE q == req[r]  f == [q EXCEPT !.pc = "store"]
           new == [upload |-> q.upload, body |-> q.body]
<1>1. /\ q.pc = "fill" /\ files[q.path] # None /\ Go(r, f)
      /\ files' = [files EXCEPT ![q.path].body = q.body]
      /\ UNCHANGED <<bucket, uploads, parts, object, stale, blobs, used, cleaner, process, served,
                     faults>>
  BY DEF FillPart, db
<1>2. q \in Request /\ RequestOK(q) /\ TypeOK /\ "store" \in PCs
  BY Current DEF PCs
<1>3. /\ q.upload \in Uploads \cap used /\ q.number \in PartNumbers /\ q.body \in Bodies
      /\ q.todo \subseteq used /\ q.path \in Paths
  BY <1>1, <1>2 DEF RequestOK, ShapeOK, UploadOK, NoUpload
<1>4. /\ f \in Request /\ f.pc = "store" /\ f.path = q.path /\ f.op = q.op
      /\ f.upload = q.upload /\ f.number = q.number /\ f.body = q.body /\ f.todo = q.todo
  BY <1>2, RequestFields
<1>5. f.claim = q.claim /\ q.claim \in BOOLEAN
  BY <1>2, RequestFields
<1>6. req' = [req EXCEPT ![r] = f] /\ lock' = lock
  BY <1>1 DEF Go
<1> HIDE DEF f
<1>7. ~q.claim
  BY <1>1, <1>2, <1>5 DEF RequestOK, ShapeOK, ClaimPCs
<1>8. files[q.path] = [upload |-> q.upload, body |-> None]
  BY <1>1, <1>2 DEF RequestOK, WritingOK
<1>9. new \in PartFile /\ new # None
  BY <1>3 DEF PartFile
<1>10. /\ files' \in [Paths -> PartFile \cup {None}] /\ files'[q.path] = new
       /\ \A x \in Paths : x # q.path => files'[x] = files[x]
  <2>1. [files[q.path] EXCEPT !.body = q.body] = new
    BY <1>8
  <2>2. files' = [files EXCEPT ![q.path] = new]
    BY <1>1, <2>1
  <2> HIDE DEF new
  <2> QED BY <1>2, <1>3, <1>9, <2>2 DEF TypeOK
<1>11. files[q.path].body = None
  BY <1>8
<1> HIDE DEF new
<1>12. DrawnOK'
  BY <1>1, <1>10 DEF MInv, DrawnOK
<1>13. Owned(f) = {q.path} /\ Owned(q) = {q.path}
  BY <1>1, <1>4 DEF Owned
<1>14. Kept({q.path})
  BY <1>1, <1>10, <1>11 DEF Kept, Visible
<1>15. RequestOK(req[r])'
  <2>1. req'[r] = f
    BY <1>2, <1>6 DEF TypeOK
  <2>2. OwnedOK(req[r])'
    <3>1. Owned(req[r])' = {q.path}
      BY <2>1, <1>13 DEF Owned
    <3> QED BY <1>1, <1>2, <1>13, <3>1 DEF RequestOK, OwnedOK
  <2>3. ShapeOK(req[r])' /\ UploadOK(req[r])' /\ CopyOK(req[r])'
    BY <1>1, <1>3, <1>4, <1>5, <1>7, <2>1 DEF ShapeOK, UploadOK, CopyOK, NoUpload, ClaimPCs
  <2>4. WritingOK(req[r])'
    <3>1. blobs'[q.path] = None
      BY <1>1, <1>2 DEF RequestOK, WritingOK
    <3> QED BY <1>4, <1>9, <1>10, <2>1, <3>1 DEF WritingOK, new
  <2> QED BY <2>2, <2>3, <2>4 DEF RequestOK
<1> QED BY <1>1, <1>2, <1>4, <1>5, <1>6, <1>7, <1>10, <1>12, <1>13, <1>14, <1>15, WritesOK
        DEF TypeOK, db

\* A request that owns no path and writes nothing stays as it should be while
\* rows stay and paths are drawn.
LEMMA SettlesOK ==
    ASSUME NEW r \in Requests, NEW f, RequestOK(f), Owned(f) = {}, req'[r] = f,
           f.pc \notin {"assemble", "commit", "fill", "store"},
           UNCHANGED <<uploads, parts>>, used \subseteq used'
    PROVE  RequestOK(req[r])'
<1>1. ShapeOK(f) /\ UploadOK(f)
  BY DEF RequestOK
<1>2. ShapeOK(req[r])' /\ UploadOK(req[r])'
  BY <1>1 DEF ShapeOK, UploadOK
<1>3. Owned(req[r])' = {}
  BY DEF Owned
<1>4. WritingOK(req[r])' /\ CopyOK(req[r])' /\ OwnedOK(req[r])'
  BY <1>3 DEF WritingOK, CopyOK, OwnedOK
<1> QED BY <1>2, <1>4 DEF RequestOK

\* All or some of the files at paths in D have been removed.
FilesRemoved(D) ==
    /\ files' \in [Paths -> PartFile \cup {None}] /\ blobs' \in [Paths -> Manifest \cup {None}]
    /\ \A p \in Paths : files'[p] = files[p] \/ (p \in D /\ files'[p] = None)
    /\ \A p \in Paths : blobs'[p] = blobs[p] \/ (p \in D /\ blobs'[p] = None)

\* The request removes files it owns, and answers or goes on.
LEMMA RemovesOK ==
    ASSUME MInv, NEW r \in Requests, NEW f \in Request, req' = [req EXCEPT ![r] = f],
           req[r].pc \notin {"idle", "evict"}, lock' \in [Uploads -> Requests \cup {None}],
           UNCHANGED <<db, stale, used, cleaner, process, served>>, Fault \/ faults' = faults,
           NEW D, D \subseteq Owned(req[r]), FilesRemoved(D),
           RequestOK(f), Owned(f) = {}, f.pc \notin {"assemble", "commit", "fill", "store"},
           f.claim => req[r].claim /\ f.upload = req[r].upload /\ f.op = req[r].op
    PROVE  MInv'
<1>1. UNCHANGED <<bucket, uploads, parts, object, stale, used, cleaner>>
  BY DEF db
<1>2. TypeOK
  BY DEF MInv
<1>3. /\ files' \in [Paths -> PartFile \cup {None}]
      /\ \A p \in Paths : files'[p] = files[p] \/ (p \in D /\ files'[p] = None)
  BY DEF FilesRemoved
<1>4. /\ blobs' \in [Paths -> Manifest \cup {None}]
      /\ \A p \in Paths : blobs'[p] = blobs[p] \/ (p \in D /\ blobs'[p] = None)
  BY DEF FilesRemoved
<1>5. DrawnOK'
  BY <1>1, <1>3, <1>4 DEF MInv, DrawnOK
<1>6. Kept(D)
  BY <1>1, <1>3, <1>4 DEF Kept, Visible
<1>7. req'[r] = f
  BY <1>2 DEF TypeOK
<1>8. Owned(req[r])' = {}
  BY <1>7 DEF Owned
<1>9. RequestOK(req[r])'
  <2>1. ShapeOK(f) /\ UploadOK(f)
    BY DEF RequestOK
  <2>2. ShapeOK(req[r])' /\ UploadOK(req[r])'
    BY <1>1, <1>7, <2>1 DEF ShapeOK, UploadOK
  <2>3. WritingOK(req[r])' /\ CopyOK(req[r])' /\ OwnedOK(req[r])'
    BY <1>7, <1>8 DEF WritingOK, CopyOK, OwnedOK
  <2> QED BY <2>2, <2>3 DEF RequestOK
<1>10. used \subseteq used' /\ used' \subseteq Paths \cup Uploads
       /\ Owned(f) \subseteq Owned(req[r]) \cup (used' \ used)
  BY <1>1, <1>2 DEF TypeOK
<1> QED BY <1>3, <1>4, <1>5, <1>6, <1>9, <1>10, WritesOK

LEMMA WritePartFailsOK ==
    ASSUME MInv, NEW r \in Requests, WritePartFails(r)
    PROVE  MInv'
<1> DEFINE q == req[r]
<1>1. /\ End(r) /\ UNCHANGED <<db, stale, blobs, used, cleaner, process, served>>
      /\ q.pc \in {"write", "fill"} /\ (Fault \/ faults' = faults)
      /\ \/ files' = files
         \/ q.pc = "fill" /\ files' = [files EXCEPT ![q.path] = None]
         \/ /\ q.pc = "fill" /\ files[q.path] # None
            /\ files' = [files EXCEPT ![q.path].body = q.body]
  BY DEF WritePartFails, NoFault
<1>2. CASE files' = files
  BY <1>1, <1>2, StopOK DEF disk
<1>3. CASE q.pc = "fill" /\ files' = [files EXCEPT ![q.path] = None]
  <2> DEFINE D == {q.path}
  <2>1. /\ lock' \in [Uploads -> Requests \cup {None}] /\ req' = [req EXCEPT ![r] = Idle]
        /\ RequestOK(q) /\ TypeOK
    BY <1>1, EndTypes, Current
  <2>2. D \subseteq Owned(q) /\ q.path \in Paths
    BY <1>3, <2>1 DEF Owned, RequestOK, ShapeOK
  <2>3. FilesRemoved(D)
    BY <1>1, <1>3, <2>1, <2>2 DEF FilesRemoved, TypeOK
  <2> HIDE DEF D
  <2>5. Idle \in Request /\ RequestOK(Idle) /\ Owned(Idle) = {} /\ ~Idle.claim
        /\ Idle.pc \notin {"assemble", "commit", "fill", "store"}
    BY IdleOK
  <2> QED BY <1>1, <1>3, <2>1, <2>2, <2>3, <2>5, RemovesOK
<1>4. CASE /\ q.pc = "fill" /\ files[q.path] # None
           /\ files' = [files EXCEPT ![q.path].body = q.body]
  <2> USE NoneAssumption
  <2> DEFINE new == [upload |-> q.upload, body |-> q.body]
  <2>1. /\ lock' \in [Uploads -> Requests \cup {None}] /\ req' = [req EXCEPT ![r] = Idle]
        /\ RequestOK(q) /\ TypeOK
    BY <1>1, EndTypes, Current
  <2>2. q.path \in Paths /\ q.upload \in Uploads /\ q.body \in Bodies
    BY <1>4, <2>1 DEF RequestOK, ShapeOK, UploadOK, NoUpload
  <2>3. files[q.path] = [upload |-> q.upload, body |-> None]
    BY <1>4, <2>1 DEF RequestOK, WritingOK
  <2>4. new \in PartFile /\ new # None
    BY <2>2 DEF PartFile
  <2>5. /\ files' \in [Paths -> PartFile \cup {None}] /\ files'[q.path] = new
        /\ \A x \in Paths : x # q.path => files'[x] = files[x]
    <3>1. [files[q.path] EXCEPT !.body = q.body] = new
      BY <2>3
    <3>2. files' = [files EXCEPT ![q.path] = new]
      BY <1>4, <3>1
    <3> HIDE DEF new
    <3> QED BY <2>1, <2>2, <2>4, <3>2 DEF TypeOK
  <2>6. files[q.path].body = None
    BY <2>3
  <2> HIDE DEF new
  <2>7. DrawnOK'
    BY <1>1, <1>4, <2>5 DEF MInv, DrawnOK, db
  <2>8. Owned(q) = {q.path}
    BY <1>4 DEF Owned
  <2>9. Kept({q.path})
    BY <1>1, <2>5, <2>6 DEF Kept, Visible, db
  <2>10. Idle \in Request /\ RequestOK(Idle) /\ Owned(Idle) = {} /\ ~Idle.claim
         /\ Idle.pc \notin {"assemble", "commit", "fill", "store"}
    BY IdleOK
  <2>11. RequestOK(req[r])'
    BY <1>1, <2>1, <2>10, SettlesOK DEF TypeOK, db
  <2> QED BY <1>1, <1>4, <2>1, <2>5, <2>7, <2>8, <2>9, <2>10, <2>11, WritesOK DEF TypeOK, db
<1> QED BY <1>1, <1>2, <1>3, <1>4

LEMMA SweepOK ==
    ASSUME MInv, NEW r \in Requests, Sweep(r)
    PROVE  MInv'
<1> DEFINE q == req[r]  f == [q EXCEPT !.pc = q.then, !.doomed = {}]
<1>1. /\ q.pc = "sweep" /\ UNCHANGED <<db, stale, used, cleaner, process, served>>
      /\ Fault \/ faults' = faults
      /\ IF q.then = "idle" THEN End(r) ELSE Go(r, f)
      /\ \/ UNCHANGED disk
         \/ /\ files' = [p \in Paths |-> IF p \in q.doomed THEN None ELSE files[p]]
            /\ blobs' = [p \in Paths |-> IF p \in q.doomed THEN None ELSE blobs[p]]
  BY DEF Sweep, NoFault
<1>2. q \in Request /\ RequestOK(q) /\ TypeOK
  BY Current
<1>3. q.doomed \subseteq Owned(q) /\ FilesRemoved(q.doomed)
  <2>1. files \in [Paths -> PartFile \cup {None}] /\ blobs \in [Paths -> Manifest \cup {None}]
    BY <1>2 DEF TypeOK
  <2>2. q.doomed \subseteq Owned(q)
    BY <1>1 DEF Owned
  <2>3. CASE UNCHANGED disk
    BY <2>1, <2>2, <2>3 DEF FilesRemoved, disk
  <2>4. CASE /\ files' = [p \in Paths |-> IF p \in q.doomed THEN None ELSE files[p]]
             /\ blobs' = [p \in Paths |-> IF p \in q.doomed THEN None ELSE blobs[p]]
    BY <2>1, <2>2, <2>4 DEF FilesRemoved
  <2> QED BY <1>1, <2>3, <2>4
<1>4. CASE q.then = "idle"
  <2>1. lock' \in [Uploads -> Requests \cup {None}] /\ req' = [req EXCEPT ![r] = Idle]
    BY <1>1, <1>2, <1>4, EndTypes
  <2>2. Idle \in Request /\ RequestOK(Idle) /\ Owned(Idle) = {} /\ ~Idle.claim
        /\ Idle.pc \notin {"assemble", "commit", "fill", "store"}
    BY IdleOK
  <2> QED BY <1>1, <1>3, <2>1, <2>2, RemovesOK
<1>5. CASE q.then # "idle"
  <2>1. lock' \in [Uploads -> Requests \cup {None}] /\ req' = [req EXCEPT ![r] = f]
    BY <1>1, <1>2, <1>5 DEF Go, TypeOK
  <2>2. q.then \in {"release", "purge"} /\ q.then \in PCs /\ {} \in PathSets
    <3>1. q.then \in ThenPCs
      BY <1>2, RequestFields
    <3> QED BY <1>5, <3>1 DEF ThenPCs, PCs, PathSets
  <2>3. /\ f \in Request /\ f.pc = q.then /\ f.op = q.op /\ f.upload = q.upload
        /\ f.todo = q.todo /\ f.then = q.then
    BY <1>2, <2>2, RequestFields
  <2>4. f.claim = q.claim /\ q.claim \in BOOLEAN
    BY <1>2, RequestFields
  <2> HIDE DEF f
  <2>5. /\ q.upload \in Uploads \cap used /\ q.todo \subseteq used
        /\ q.then = "release" => q.claim
        /\ q.then = "purge" => ~q.claim /\ uploads[q.upload] = None
        /\ q.claim => q.op \in {"complete", "abort"}
    BY <1>1, <1>2 DEF RequestOK, ShapeOK, UploadOK, NoUpload
  <2>6. Owned(f) = {}
    BY <2>2, <2>3 DEF Owned
  <2>7. RequestOK(f)
    BY <2>2, <2>3, <2>4, <2>5, <2>6 DEF RequestOK, ShapeOK, UploadOK, WritingOK, CopyOK,
          OwnedOK, NoUpload, ClaimPCs
  <2>8. f.pc \notin {"assemble", "commit", "fill", "store"}
    BY <2>2, <2>3
  <2> QED BY <1>1, <1>3, <2>1, <2>3, <2>4, <2>6, <2>7, <2>8, RemovesOK
<1> QED BY <1>4, <1>5

\* Removing a file from the directory of an upload that has gone.
LEMMA DirectoryFileGoes ==
    ASSUME MInv, NEW u \in Uploads, uploads[u] = None, NEW p \in FilesOf(u),
           files' = [files EXCEPT ![p] = None],
           UNCHANGED <<bucket, uploads, parts, object, stale, blobs, used>>
    PROVE  Kept({}) /\ DrawnOK' /\ files' \in [Paths -> PartFile \cup {None}]
<1>1. p \in Paths /\ files[p] # None /\ files[p].upload = u
  BY DEF FilesOf
<1>2. /\ files' \in [Paths -> PartFile \cup {None}] /\ files'[p] = None
      /\ \A x \in Paths : x # p => files'[x] = files[x]
  BY <1>1 DEF MInv, TypeOK
<1>3. Kept({})
  BY <1>1, <1>2 DEF Kept, Visible
<1>4. DrawnOK'
  BY <1>2 DEF MInv, DrawnOK
<1> QED BY <1>2, <1>3, <1>4

LEMMA PurgeFileOK ==
    ASSUME MInv, NEW r \in Requests, PurgeFile(r)
    PROVE  MInv'
<1> DEFINE q == req[r]
<1>1. PICK p \in FilesOf(q.upload) : files' = [files EXCEPT ![p] = None]
  BY DEF PurgeFile
<1>2. /\ q.pc = "purge"
      /\ UNCHANGED <<bucket, uploads, parts, object, stale, blobs, used, lock, req, cleaner,
                     process, served, faults>>
  BY DEF PurgeFile, db
<1>3. RequestOK(q) /\ TypeOK
  BY Current
<1>4. q.upload \in Uploads /\ uploads[q.upload] = None
  BY <1>2, <1>3 DEF RequestOK, ShapeOK, UploadOK, NoUpload
<1>5. Kept({}) /\ DrawnOK' /\ files' \in [Paths -> PartFile \cup {None}]
  BY <1>1, <1>2, <1>4, DirectoryFileGoes
<1>6. RequestOK(req[r])' /\ Owned(req[r])' = Owned(q)
  BY <1>2, <1>5, Undisturbed
<1>7. TypeOK'
  BY <1>2, <1>3, <1>5 DEF TypeOK, process
<1>8. ClaimsOK'
  <2>1. \A u \in Uploads : uploads'[u] \in {uploads[u], None}
    BY <1>2
  <2> QED BY <1>2, <2>1, ClaimsOfMove
<1>9. \A u \in Uploads, n \in PartNumbers : parts'[u][n] \in {parts[u][n], None}
  BY <1>2
<1>10. {} \subseteq Owned(q) /\ Owned(req[r])' \subseteq Owned(q) \cup (used' \ used)
       /\ ({} # {} => q.pc # "evict") /\ phase = "serving" /\ phase' = phase
  BY <1>2, <1>6, Serving DEF process
<1> QED BY <1>2, <1>5, <1>6, <1>7, <1>8, <1>9, <1>10, StepOK

\* A completion that has read every part has read what its client named.
LEMMA ReadsWhatWasNamed ==
    ASSUME NEW q \in Request, CopyOK(q), q.pc = "assemble", q.want \in Manifest, Unread(q) = {}
    PROVE  q.got = q.want
<1>1. /\ q.got # None /\ DOMAIN q.got \subseteq DOMAIN q.want /\ DOMAIN q.rows = DOMAIN q.want
      /\ \A n \in DOMAIN q.got : q.got[n] = q.want[n]
  BY DEF CopyOK
<1>2. DOMAIN q.got = DOMAIN q.want
  BY <1>1 DEF Unread
<1>3. q.got \in UNION {[S -> Bodies \cup {None}] : S \in SUBSET PartNumbers}
  BY <1>1 DEF Request
<1>4. PICK S : q.got \in [S -> Bodies \cup {None}]
  BY <1>3
<1>5. PICK T : q.want \in [T -> Bodies]
  BY DEF Manifest
<1> QED BY <1>1, <1>2, <1>4, <1>5

LEMMA AssembledOK ==
    ASSUME MInv, NEW r \in Requests, Assembled(r)
    PROVE  MInv'
<1> USE NoneAssumption
<1> DEFINE q == req[r]
<1>1. PICK p \in Paths \ used :
        /\ used' = used \cup {p}
        /\ blobs' = [blobs EXCEPT ![p] = q.got]
        /\ Go(r, [q EXCEPT !.pc = "commit", !.path = p])
  BY DEF Assembled
<1> DEFINE f == [q EXCEPT !.pc = "commit", !.path = p]
<1>2. /\ q.pc = "assemble" /\ Unread(q) = {}
      /\ UNCHANGED <<bucket, uploads, parts, object, stale, files, cleaner, process, served,
                     faults>>
  BY DEF Assembled, db
<1>3. q \in Request /\ RequestOK(q) /\ TypeOK
  BY Current
<1>4. /\ q.upload \in Uploads \cap used /\ q.todo \subseteq used /\ q.op = "complete"
      /\ q.want \in Manifest /\ q.claim
  BY <1>2, <1>3 DEF RequestOK, ShapeOK, UploadOK, NoUpload, ClaimPCs
<1>5. q.got = q.want
  BY <1>2, <1>3, <1>4, ReadsWhatWasNamed DEF RequestOK
<1>6. "commit" \in PCs /\ p \in Opt(Paths)
  BY DEF PCs, Opt
<1>7. /\ f \in Request /\ f.pc = "commit" /\ f.path = p /\ f.op = q.op /\ f.upload = q.upload
      /\ f.want = q.want /\ f.rows = q.rows /\ f.got = q.got /\ f.todo = q.todo
  BY <1>3, <1>6, RequestFields
<1>8. f.claim = q.claim
  BY <1>3, RequestFields
<1>9. req' = [req EXCEPT ![r] = f] /\ lock' = lock
  BY <1>1 DEF Go
<1> HIDE DEF f
<1>10. /\ blobs' \in [Paths -> Manifest \cup {None}] /\ blobs'[p] = q.want
       /\ \A x \in Paths : x # p => blobs'[x] = blobs[x]
  BY <1>1, <1>3, <1>4, <1>5 DEF TypeOK
<1>11. files[p] = None /\ blobs[p] = None
  BY DEF MInv, DrawnOK
<1>12. DrawnOK'
  <2>1. \A x \in Paths : files'[x] # None \/ blobs'[x] # None => x \in used'
    BY <1>1, <1>2, <1>10 DEF MInv, DrawnOK
  <2>2. \A x \in Paths : files'[x] = None \/ blobs'[x] = None
    BY <1>2, <1>10, <1>11 DEF MInv, DrawnOK
  <2> QED BY <1>1, <1>2, <2>1, <2>2 DEF MInv, DrawnOK
<1>13. Kept({})
  BY <1>1, <1>2, <1>10 DEF Kept, Visible
<1>14. Owned(f) = {p}
  BY <1>7 DEF Owned
<1>15. RequestOK(req[r])'
  <2>1. req'[r] = f
    BY <1>3, <1>9 DEF TypeOK
  <2>2. OwnedOK(req[r])'
    <3>1. Owned(req[r])' = {p}
      BY <2>1, <1>14 DEF Owned
    <3> QED BY <1>1, <1>2, <3>1, FreshIsFree DEF OwnedOK, Free
  <2>3. ShapeOK(req[r])' /\ UploadOK(req[r])' /\ WritingOK(req[r])'
    BY <1>1, <1>4, <1>7, <1>8, <2>1 DEF ShapeOK, UploadOK, WritingOK, NoUpload, ClaimPCs
  <2>4. CopyOK(req[r])'
    <3>1. CopyOK(q)
      BY <1>3 DEF RequestOK
    <3> QED BY <1>1, <1>2, <1>7, <1>10, <2>1, <3>1 DEF CopyOK
  <2> QED BY <2>2, <2>3, <2>4 DEF RequestOK
<1>16. /\ used' \subseteq Paths \cup Uploads /\ used \subseteq used'
       /\ Owned(f) \subseteq Owned(q) \cup (used' \ used)
  BY <1>1, <1>3, <1>14 DEF TypeOK
<1>17. /\ lock' \in [Uploads -> Requests \cup {None}] /\ files' \in [Paths -> PartFile \cup {None}]
       /\ UNCHANGED <<db, stale, cleaner, process, served, faults>>
  BY <1>2, <1>3, <1>9 DEF TypeOK, db
<1>18. {} \subseteq Owned(q) /\ ({} # {} => q.pc # "evict")
  OBVIOUS
<1> QED BY <1>2, <1>4, <1>7, <1>8, <1>9, <1>10, <1>12, <1>13, <1>15, <1>16, <1>17, <1>18, WritesOK

LEMMA AssembleFailsOK ==
    ASSUME MInv, NEW r \in Requests, AssembleFails(r)
    PROVE  MInv'
<1> USE NoneAssumption
<1> DEFINE q == req[r]  f == [q EXCEPT !.pc = "release"]
<1>1. /\ q.pc = "assemble" /\ Go(r, f) /\ (Fault \/ faults' = faults)
      /\ UNCHANGED <<db, stale, files, cleaner, process, served>>
      /\ \/ UNCHANGED <<blobs, used>>
         \/ Unread(q) = {} /\ \E p \in Paths \ used : /\ used' = used \cup {p}
                                                     /\ blobs' = [blobs EXCEPT ![p] = q.got]
  BY DEF AssembleFails, NoFault
<1>2. CASE UNCHANGED <<blobs, used>>
  BY <1>1, <1>2, ReleasesOK DEF disk
<1>3. CASE Unread(q) = {} /\ \E p \in Paths \ used : /\ used' = used \cup {p}
                                                     /\ blobs' = [blobs EXCEPT ![p] = q.got]
  <2>1. PICK p \in Paths \ used : used' = used \cup {p} /\ blobs' = [blobs EXCEPT ![p] = q.got]
    BY <1>3
  <2>2. q \in Request /\ RequestOK(q) /\ TypeOK /\ "release" \in PCs
    BY Current DEF PCs
  <2>3. /\ q.upload \in Uploads \cap used /\ q.todo \subseteq used /\ q.op = "complete"
        /\ q.want \in Manifest /\ q.claim
    BY <1>1, <2>2 DEF RequestOK, ShapeOK, UploadOK, NoUpload, ClaimPCs
  <2>4. q.got = q.want
    BY <1>1, <1>3, <2>2, <2>3, ReadsWhatWasNamed DEF RequestOK
  <2>5. /\ f \in Request /\ f.pc = "release" /\ f.op = q.op /\ f.upload = q.upload
        /\ f.todo = q.todo /\ f.claim = q.claim
    BY <2>2, RequestFields
  <2>6. req' = [req EXCEPT ![r] = f] /\ lock' = lock
    BY <1>1 DEF Go
  <2> HIDE DEF f
  <2>7. /\ blobs' \in [Paths -> Manifest \cup {None}] /\ blobs'[p] = q.want
        /\ \A x \in Paths : x # p => blobs'[x] = blobs[x]
    BY <2>1, <2>2, <2>3, <2>4 DEF TypeOK
  <2>8. UNCHANGED <<bucket, uploads, parts, object, stale, files, cleaner>>
    BY <1>1 DEF db
  <2>9. files[p] = None /\ blobs[p] = None
    BY DEF MInv, DrawnOK
  <2>10. DrawnOK'
    <3>1. \A x \in Paths : files'[x] # None \/ blobs'[x] # None => x \in used'
      BY <2>1, <2>7, <2>8 DEF MInv, DrawnOK
    <3>2. \A x \in Paths : files'[x] = None \/ blobs'[x] = None
      BY <2>7, <2>8, <2>9 DEF MInv, DrawnOK
    <3> QED BY <2>1, <2>8, <3>1, <3>2 DEF MInv, DrawnOK
  <2>11. Kept({})
    BY <2>1, <2>7, <2>8, <2>9 DEF Kept, Visible
  <2>12. Owned(f) = {}
    BY <2>5 DEF Owned
  <2>13. RequestOK(f)
    BY <2>3, <2>5, <2>12 DEF RequestOK, ShapeOK, UploadOK, WritingOK, CopyOK, OwnedOK, NoUpload,
          ClaimPCs
  <2>14. req'[r] = f /\ lock' \in [Uploads -> Requests \cup {None}]
         /\ files' \in [Paths -> PartFile \cup {None}]
    BY <2>2, <2>6, <2>8 DEF TypeOK
  <2>15. used \subseteq used' /\ used' \subseteq Paths \cup Uploads
    BY <2>1, <2>2 DEF TypeOK
  <2>16. RequestOK(req[r])'
    BY <2>5, <2>8, <2>12, <2>13, <2>14, <2>15, SettlesOK
  <2>17. {} \subseteq Owned(q) /\ ({} # {} => q.pc # "evict")
    OBVIOUS
  <2> QED BY <1>1, <2>5, <2>6, <2>7, <2>10, <2>11, <2>12, <2>14, <2>15, <2>16, <2>17, WritesOK
<1> QED BY <1>1, <1>2, <1>3

\* A step of r that removes or changes rows of uploads.
LEMMA RowStep ==
    ASSUME MInv, NEW r \in Requests, NEW f \in Request, req' = [req EXCEPT ![r] = f],
           req[r].pc # "idle", lock' \in [Uploads -> Requests \cup {None}],
           UNCHANGED <<object, disk, used, cleaner, process, served>>, Fault \/ faults' = faults,
           bucket' \in BOOLEAN, stale' \subseteq stale,
           uploads' \in [Uploads -> Upload \cup {None}],
           parts' \in [Uploads -> [PartNumbers -> Part \cup {None}]],
           \A u \in Uploads, n \in PartNumbers : parts'[u][n] \in {parts[u][n], None},
           DrawnOK', ClaimsOK', Kept({}), RequestOK(req[r])', Owned(f) \subseteq Owned(req[r])
    PROVE  MInv'
<1>1. UNCHANGED <<files, blobs, phase, crashes>>
  BY DEF disk, process
<1>2. /\ req' \in [Requests -> Request] /\ req'[r] = f
      /\ \A s \in Requests : s # r => req'[s] = req[s]
  BY DEF MInv, TypeOK
<1>3. served' \in 0..MaxRequests /\ faults' \in 0..MaxFaults
  BY Counters DEF MInv
<1>4. TypeOK'
  BY <1>1, <1>2, <1>3 DEF MInv, TypeOK
<1>5. Owned(req[r])' = Owned(f)
  BY <1>2 DEF Owned
<1>6. /\ {} \subseteq Owned(req[r]) /\ Owned(req[r])' \subseteq Owned(req[r]) \cup (used' \ used)
      /\ {} # {} => req[r].pc # "evict"
      /\ phase = "serving" /\ phase' = phase
  BY <1>1, <1>5, Serving
<1> QED BY <1>2, <1>4, <1>6, StepOK

LEMMA DeleteRows ==
    ASSUME TypeOK, NEW u \in Uploads, DeleteUpload(u)
    PROVE  /\ uploads' \in [Uploads -> Upload \cup {None}]
           /\ parts' \in [Uploads -> [PartNumbers -> Part \cup {None}]]
           /\ uploads'[u] = None
           /\ \A v \in Uploads : v # u => uploads'[v] = uploads[v] /\ parts'[v] = parts[v]
           /\ \A v \in Uploads : uploads'[v] \in {uploads[v], None}
           /\ \A v \in Uploads, n \in PartNumbers : parts'[v][n] \in {parts[v][n], None}
           /\ \A v \in Uploads, n \in PartNumbers : parts'[v][n] # None => v # u
<1>1. /\ uploads' \in [Uploads -> Upload \cup {None}]
      /\ uploads'[u] = None /\ \A v \in Uploads : v # u => uploads'[v] = uploads[v]
  BY DEF DeleteUpload, TypeOK
<1>2. /\ parts' \in [Uploads -> [PartNumbers -> Part \cup {None}]]
      /\ \A v \in Uploads : v # u => parts'[v] = parts[v]
      /\ \A n \in PartNumbers : parts'[u][n] = None
  BY DEF DeleteUpload, TypeOK
<1> QED BY <1>1, <1>2

LEMMA DeleteUploadOK ==
    ASSUME MInv, NEW u \in Uploads, DeleteUpload(u),
           UNCHANGED <<object, stale, disk, used>>
    PROVE  /\ uploads' \in [Uploads -> Upload \cup {None}]
           /\ parts' \in [Uploads -> [PartNumbers -> Part \cup {None}]]
           /\ uploads'[u] = None /\ \A v \in Uploads : uploads'[v] \in {uploads[v], None}
           /\ \A v \in Uploads, n \in PartNumbers : parts'[v][n] \in {parts[v][n], None}
           /\ DrawnOK' /\ Kept({})
<1>1. TypeOK
  BY DEF MInv
<1>2. /\ uploads'[u] = None
      /\ \A v \in Uploads : v # u => uploads'[v] = uploads[v] /\ parts'[v] = parts[v]
      /\ \A v \in Uploads, n \in PartNumbers : parts'[v][n] # None => v # u
  BY <1>1, DeleteRows
<1>3. DrawnOK'
  BY <1>2 DEF MInv, DrawnOK, disk
<1>4. Kept({})
  BY <1>2 DEF Kept, Visible, disk
<1> QED BY <1>1, <1>2, <1>3, <1>4, DeleteRows

\* Nothing of the database changes but, perhaps, the object cache or the bucket.
LEMMA RowsUnchanged ==
    ASSUME MInv, UNCHANGED <<uploads, parts, object, disk, used>>, stale' \subseteq stale
    PROVE  /\ uploads' \in [Uploads -> Upload \cup {None}]
           /\ parts' \in [Uploads -> [PartNumbers -> Part \cup {None}]]
           /\ \A v \in Uploads : uploads'[v] \in {uploads[v], None}
           /\ \A v \in Uploads, n \in PartNumbers : parts'[v][n] \in {parts[v][n], None}
           /\ DrawnOK' /\ Kept({})
<1>1. DrawnOK' /\ Kept({})
  BY DEF MInv, DrawnOK, Kept, Visible, disk
<1> QED BY <1>1 DEF MInv, TypeOK

LEMMA EvictOK ==
    ASSUME MInv, NEW r \in Requests, Evict(r)
    PROVE  MInv'
<1> DEFINE q == req[r]  f == [q EXCEPT !.pc = "sweep"]
<1>1. /\ q.pc = "evict" /\ stale' = {} /\ Go(r, f)
      /\ UNCHANGED <<db, disk, used, cleaner, process, served, faults>>
  BY DEF Evict
<1>2. q \in Request /\ RequestOK(q) /\ TypeOK /\ "sweep" \in PCs
  BY Current DEF PCs
<1>3. /\ f \in Request /\ f.pc = "sweep" /\ f.op = q.op /\ f.upload = q.upload
      /\ f.todo = q.todo /\ f.then = q.then /\ f.doomed = q.doomed
  BY <1>2, RequestFields
<1>4. f.claim = q.claim
  BY <1>2, RequestFields
<1> HIDE DEF f
<1>5. /\ q.upload \in Uploads \cap used /\ q.todo \subseteq used /\ q.then = "purge"
      /\ ~q.claim /\ uploads[q.upload] = None
  BY <1>1, <1>2 DEF RequestOK, ShapeOK, UploadOK, NoUpload
<1>6. req' = [req EXCEPT ![r] = f] /\ lock' = lock /\ req'[r] = f
  BY <1>1, <1>2 DEF Go, TypeOK, f
<1>7. Owned(f) = q.doomed /\ Owned(q) = q.doomed
  BY <1>1, <1>3 DEF Owned
<1>8. UNCHANGED <<bucket, uploads, parts, object, used>>
  BY <1>1 DEF db
<1>9. RequestOK(req[r])'
  <2>1. OwnedOK(req[r])'
    <3>1. Owned(req[r])' = q.doomed
      BY <1>6, <1>7 DEF Owned
    <3> QED BY <1>1, <1>2, <1>7, <1>8, <3>1 DEF RequestOK, OwnedOK
  <2>2. ShapeOK(req[r])' /\ UploadOK(req[r])' /\ WritingOK(req[r])' /\ CopyOK(req[r])'
    BY <1>3, <1>4, <1>5, <1>6, <1>8 DEF ShapeOK, UploadOK, WritingOK, CopyOK, NoUpload, ClaimPCs
  <2> QED BY <2>1, <2>2 DEF RequestOK
<1>10. ClaimsOK'
  <2>1. \A u \in Uploads : uploads'[u] \in {uploads[u], None}
    BY <1>8
  <2>2. req'[r].claim => FALSE
    BY <1>4, <1>5, <1>6
  <2>3. \A s \in Requests : s # r => req'[s] = req[s]
    BY <1>2, <1>6 DEF TypeOK
  <2> QED BY <1>1, <2>1, <2>2, <2>3, ClaimsOfMove
<1>11. lock' \in [Uploads -> Requests \cup {None}] /\ bucket' \in BOOLEAN
  BY <1>2, <1>6, <1>8 DEF TypeOK
<1> QED BY <1>1, <1>3, <1>6, <1>7, <1>8, <1>9, <1>10, <1>11, RowsUnchanged, RowStep

LEMMA IdleNext ==
    ASSUME NEW r \in Requests, req'[r] = Idle
    PROVE  RequestOK(req[r])' /\ ~req'[r].claim
<1>1. /\ req'[r].pc = "idle" /\ req'[r].claim = FALSE /\ req'[r].upload = None
      /\ req'[r].todo = {} /\ req'[r].doomed = {}
  BY DEF Idle
<1>2. Owned(req[r])' = {}
  BY <1>1 DEF Owned
<1> QED BY <1>1, <1>2, NoneAssumption DEF RequestOK, ShapeOK, UploadOK, WritingOK, CopyOK, OwnedOK,
        NoUpload, ClaimPCs

\* r answers, and rows may have gone.
LEMMA EndRowStep ==
    ASSUME MInv, NEW r \in Requests, End(r), req[r].pc # "idle",
           UNCHANGED <<object, stale, disk, used, cleaner, process, served>>,
           Fault \/ faults' = faults, bucket' \in BOOLEAN,
           UNCHANGED <<uploads, parts>> \/ \E u \in Uploads : DeleteUpload(u)
    PROVE  MInv'
<1>1. /\ lock' \in [Uploads -> Requests \cup {None}] /\ req' = [req EXCEPT ![r] = Idle]
      /\ req'[r] = Idle /\ \A s \in Requests : s # r => req'[s] = req[s]
  BY EndTypes DEF MInv, TypeOK
<1>2. /\ uploads' \in [Uploads -> Upload \cup {None}]
      /\ parts' \in [Uploads -> [PartNumbers -> Part \cup {None}]]
      /\ \A v \in Uploads : uploads'[v] \in {uploads[v], None}
      /\ \A v \in Uploads, n \in PartNumbers : parts'[v][n] \in {parts[v][n], None}
      /\ DrawnOK' /\ Kept({})
  BY DeleteUploadOK, RowsUnchanged
<1>3. RequestOK(req[r])' /\ ~req'[r].claim
  BY <1>1, IdleNext
<1>4. ClaimsOK'
  BY <1>1, <1>2, <1>3, ClaimsOfMove
<1>5. Idle \in Request /\ Owned(Idle) \subseteq Owned(req[r]) /\ stale' \subseteq stale
  BY IdleOK
<1> QED BY <1>1, <1>2, <1>3, <1>4, <1>5, RowStep

LEMMA DropFailsOK ==
    ASSUME MInv, NEW r \in Requests, DropFails(r)
    PROVE  MInv'
<1>1. /\ req[r].pc # "idle" /\ End(r) /\ (Fault \/ faults' = faults)
      /\ UNCHANGED <<bucket, object, stale, disk, used, cleaner, process, served>>
  BY DEF DropFails, NoFault
<1>2. UNCHANGED <<uploads, parts>> \/ \E u \in req[r].todo : DeleteUpload(u)
  BY DEF DropFails
<1>3. req[r].todo \subseteq Uploads
  BY Current, RequestFields DEF UploadSets
<1>4. bucket' \in BOOLEAN
  BY <1>1 DEF MInv, TypeOK
<1> QED BY <1>1, <1>2, <1>3, <1>4, EndRowStep

LEMMA DropBucketOK ==
    ASSUME MInv, NEW r \in Requests, DropBucket(r)
    PROVE  MInv'
<1>1. bucket' \in BOOLEAN
  BY DEF DropBucket
<1> QED BY <1>1, EndRowStep DEF DropBucket

\* r has deleted the row of its upload and removes the directory.
LEMMA DeletesRow ==
    ASSUME MInv, NEW r \in Requests, NEW f \in Request, Go(r, f), req[r].pc # "idle",
           f.pc = "purge", f.upload \in Uploads \cap used, f.todo \subseteq used, ~f.claim,
           DeleteUpload(f.upload), faults' = faults,
           UNCHANGED <<bucket, object, stale, disk, used, cleaner, process, served>>
    PROVE  MInv'
<1>1. /\ lock' \in [Uploads -> Requests \cup {None}] /\ req' = [req EXCEPT ![r] = f]
      /\ req'[r] = f /\ \A s \in Requests : s # r => req'[s] = req[s]
      /\ bucket' \in BOOLEAN
  BY DEF Go, MInv, TypeOK
<1>2. /\ uploads' \in [Uploads -> Upload \cup {None}] /\ uploads'[f.upload] = None
      /\ parts' \in [Uploads -> [PartNumbers -> Part \cup {None}]]
      /\ \A v \in Uploads : uploads'[v] \in {uploads[v], None}
      /\ \A v \in Uploads, n \in PartNumbers : parts'[v][n] \in {parts[v][n], None}
      /\ DrawnOK' /\ Kept({})
  BY DeleteUploadOK
<1>3. Owned(f) = {} /\ Owned(req[r])' = {}
  BY <1>1 DEF Owned
<1>4. RequestOK(req[r])'
  BY <1>1, <1>2, <1>3 DEF RequestOK, ShapeOK, UploadOK, WritingOK, CopyOK, OwnedOK, NoUpload,
        ClaimPCs
<1>5. ClaimsOK'
  BY <1>1, <1>2, ClaimsOfMove
<1> QED BY <1>1, <1>2, <1>3, <1>4, <1>5, RowStep

LEMMA DeleteRowOK ==
    ASSUME MInv, NEW r \in Requests, DeleteRow(r)
    PROVE  MInv'
<1> DEFINE q == req[r]  f == [q EXCEPT !.pc = "purge", !.claim = FALSE]
<1>1. /\ q.pc = "deleteRow" /\ DeleteUpload(q.upload) /\ Go(r, f)
      /\ UNCHANGED <<bucket, object, stale, disk, used, cleaner, process, served, faults>>
  BY DEF DeleteRow
<1>2. q \in Request /\ "purge" \in PCs /\ FALSE \in BOOLEAN
  BY Current DEF PCs
<1>3. q.upload \in Uploads \cap used /\ q.todo \subseteq used
  BY <1>1, Current DEF RequestOK, ShapeOK, UploadOK, NoUpload
<1>4. f \in Request /\ f.pc = "purge" /\ f.upload = q.upload /\ f.todo = q.todo
  BY <1>2, RequestFields
<1>5. f.claim = FALSE
  BY <1>2, RequestFields
<1> HIDE DEF f
<1> QED BY <1>1, <1>3, <1>4, <1>5, DeletesRow

LEMMA NextUploadOK ==
    ASSUME MInv, NEW r \in Requests, NextUpload(r)
    PROVE  MInv'
<1> DEFINE q == req[r]
<1>1. /\ q.pc = "next"
      /\ UNCHANGED <<bucket, object, stale, disk, used, cleaner, process, served, faults>>
  BY DEF NextUpload
<1>2. q \in Request /\ RequestOK(q) /\ q.todo \in UploadSets /\ q.claim \in BOOLEAN
  BY Current, RequestFields
<1>3. q.todo \subseteq used /\ q.todo \subseteq Uploads /\ ~q.claim
  BY <1>1, <1>2 DEF RequestOK, ShapeOK, UploadOK, UploadSets, ClaimPCs
<1>4. ASSUME NEW u \in q.todo, DeleteUpload(u),
             Go(r, [q EXCEPT !.todo = @ \ {u}, !.upload = u, !.pc = "purge"])
      PROVE  MInv'
  <2> DEFINE f == [q EXCEPT !.todo = @ \ {u}, !.upload = u, !.pc = "purge"]
  <2>1. q.todo \ {u} \in UploadSets /\ u \in Opt(Uploads) /\ "purge" \in PCs
    BY <1>3 DEF UploadSets, Opt, PCs
  <2>2. f \in Request /\ f.pc = "purge" /\ f.upload = u /\ f.todo = q.todo \ {u}
    BY <1>2, <2>1, RequestFields
  <2>3. f.claim = q.claim
    BY <1>2, RequestFields
  <2>4. Go(r, f)
    BY <1>4
  <2> HIDE DEF f
  <2> QED BY <1>1, <1>3, <1>4, <2>2, <2>3, <2>4, DeletesRow
<1>5. ASSUME NEW pc \in {"uploads", "drop"}, Go(r, [q EXCEPT !.pc = pc]),
             UNCHANGED <<uploads, parts>>
      PROVE  MInv'
  <2> DEFINE f == [q EXCEPT !.pc = pc]
  <2>1. pc \in PCs
    BY DEF PCs
  <2>2. f \in Request /\ f.pc = pc /\ f.upload = q.upload /\ f.todo = q.todo
        /\ f.claim = q.claim
    BY <1>2, <2>1, RequestFields
  <2>3. Go(r, f) /\ UNCHANGED db
    BY <1>1, <1>5 DEF db
  <2> HIDE DEF f
  <2> QED BY <1>1, <1>3, <2>2, <2>3, BetweenUploads
<1> QED BY <1>4, <1>5 DEF NextUpload

LEMMA DeleteRowFailsOK ==
    ASSUME MInv, NEW r \in Requests, DeleteRowFails(r)
    PROVE  MInv'
<1> DEFINE q == req[r]  f == [q EXCEPT !.pc = "release"]
<1>1. /\ q.pc = "deleteRow" /\ Go(r, f) /\ (Fault \/ faults' = faults)
      /\ UNCHANGED <<bucket, object, stale, disk, used, cleaner, process, served>>
      /\ UNCHANGED <<uploads, parts>> \/ DeleteUpload(q.upload)
  BY DEF DeleteRowFails, NoFault
<1>2. q \in Request /\ RequestOK(q) /\ TypeOK /\ "release" \in PCs
  BY Current DEF PCs
<1>3. /\ q.upload \in Uploads \cap used /\ q.todo \subseteq used /\ q.claim
      /\ q.op \in {"complete", "abort"}
  BY <1>1, <1>2 DEF RequestOK, ShapeOK, UploadOK, NoUpload, ClaimPCs
<1>4. /\ f \in Request /\ f.pc = "release" /\ f.op = q.op /\ f.upload = q.upload
      /\ f.todo = q.todo
  BY <1>2, RequestFields
<1>5. f.claim = q.claim
  BY <1>2, RequestFields
<1>6. /\ req' = [req EXCEPT ![r] = f] /\ req'[r] = f /\ \A s \in Requests : s # r => req'[s] = req[s]
      /\ lock' \in [Uploads -> Requests \cup {None}] /\ bucket' \in BOOLEAN
  BY <1>1, <1>2 DEF Go, TypeOK
<1> HIDE DEF f
<1>7. /\ uploads' \in [Uploads -> Upload \cup {None}]
      /\ parts' \in [Uploads -> [PartNumbers -> Part \cup {None}]]
      /\ \A v \in Uploads : uploads'[v] \in {uploads[v], None}
      /\ \A v \in Uploads, n \in PartNumbers : parts'[v][n] \in {parts[v][n], None}
      /\ DrawnOK' /\ Kept({})
  BY <1>1, <1>3, DeleteUploadOK, RowsUnchanged
<1>8. Owned(f) = {} /\ Owned(req[r])' = {}
  BY <1>4, <1>6 DEF Owned
<1>9. RequestOK(req[r])'
  <2>1. ShapeOK(req[r])'
    BY <1>3, <1>4, <1>5, <1>6 DEF ShapeOK, NoUpload, ClaimPCs
  <2>2. UploadOK(req[r])' /\ WritingOK(req[r])' /\ CopyOK(req[r])' /\ OwnedOK(req[r])'
    BY <1>1, <1>3, <1>4, <1>6, <1>8 DEF UploadOK, WritingOK, CopyOK, OwnedOK
  <2> QED BY <2>1, <2>2 DEF RequestOK
<1>10. ClaimsOK'
  BY <1>1, <1>3, <1>4, <1>5, <1>6, <1>7, ClaimsOfMove
<1> QED BY <1>1, <1>4, <1>6, <1>7, <1>8, <1>9, <1>10, RowStep

\* A status is set; gone rows stay gone, and nothing else changes.
LEMMA SetStatusOK ==
    ASSUME MInv, NEW u \in Uploads, NEW s \in UploadStatus, uploads' = SetUploadStatus(u, s),
           UNCHANGED <<parts, object, stale, disk, used>>
    PROVE  /\ uploads' \in [Uploads -> Upload \cup {None}]
           /\ uploads[u] # None => uploads'[u] # None /\ uploads'[u].status = s
           /\ \A v \in Uploads : uploads'[v] # None <=> uploads[v] # None
           /\ \A v \in Uploads : v # u => uploads'[v] = uploads[v]
           /\ \A v \in Uploads, n \in PartNumbers : parts'[v][n] \in {parts[v][n], None}
           /\ parts' \in [Uploads -> [PartNumbers -> Part \cup {None}]]
           /\ DrawnOK' /\ Kept({})
<1> USE NoneAssumption
<1>1. uploads \in [Uploads -> Upload \cup {None}]
  BY DEF MInv, TypeOK
<1>2. /\ uploads' \in [Uploads -> Upload \cup {None}]
      /\ uploads[u] # None => uploads'[u] # None /\ uploads'[u].status = s
      /\ uploads[u] = None => uploads'[u] = None
      /\ \A v \in Uploads : v # u => uploads'[v] = uploads[v]
  <2>1. CASE uploads[u] = None
    BY <1>1, <2>1 DEF SetUploadStatus
  <2>2. CASE uploads[u] # None
    <3> DEFINE w == [uploads[u] EXCEPT !.status = s, !.updated = 0]
    <3>1. uploads[u] \in Upload
      BY <1>1, <2>2
    <3>2. 0 \in Ages
      BY ConstantsAssumption DEF Ages
    <3>3. w \in Upload /\ w.status = s /\ w # None
      BY <3>1, <3>2 DEF Upload
    <3>4. uploads' = [uploads EXCEPT ![u] = w]
      BY <1>1, <2>2 DEF SetUploadStatus
    <3> HIDE DEF w
    <3> QED BY <1>1, <2>2, <3>3, <3>4
  <2> QED BY <2>1, <2>2
<1>3. \A v \in Uploads : uploads'[v] # None <=> uploads[v] # None
  BY <1>2
<1>4. DrawnOK'
  BY <1>3 DEF MInv, DrawnOK, disk
<1>5. Kept({})
  BY <1>3 DEF Kept, Visible, disk
<1> QED BY <1>2, <1>3, <1>4, <1>5 DEF MInv, TypeOK

LEMMA ReleaseOK ==
    ASSUME MInv, NEW r \in Requests, Release(r)
    PROVE  MInv'
<1> DEFINE q == req[r]
<1> PICK u : u = q.upload
  OBVIOUS
<1>1. /\ q.pc = "release" /\ End(r) /\ (Fault \/ faults' = faults)
      /\ UNCHANGED <<bucket, parts, object, stale, disk, used, cleaner, process, served>>
      /\ uploads' = uploads \/ uploads' = SetUploadStatus(u, "active")
  BY DEF Release, NoFault
<1>2. CASE uploads' = uploads
  <2>1. UNCHANGED db
    BY <1>1, <1>2 DEF db
  <2> QED BY <1>1, <2>1, StopOK
<1>3. CASE uploads' = SetUploadStatus(u, "active")
  <2>1. /\ lock' \in [Uploads -> Requests \cup {None}] /\ req' = [req EXCEPT ![r] = Idle]
        /\ req'[r] = Idle /\ (\A s \in Requests : s # r => req'[s] = req[s])
        /\ bucket' \in BOOLEAN
    BY <1>1, EndTypes DEF MInv, TypeOK
  <2>2. u \in Uploads /\ q.claim
    BY <1>1, Current DEF RequestOK, ShapeOK, NoUpload, ClaimPCs
  <2>3. "active" \in UploadStatus
    BY DEF UploadStatus
  <2>4. /\ uploads' \in [Uploads -> Upload \cup {None}]
        /\ \A v \in Uploads : uploads'[v] # None <=> uploads[v] # None
        /\ \A v \in Uploads : v # u => uploads'[v] = uploads[v]
        /\ \A v \in Uploads, n \in PartNumbers : parts'[v][n] \in {parts[v][n], None}
        /\ parts' \in [Uploads -> [PartNumbers -> Part \cup {None}]]
        /\ DrawnOK' /\ Kept({})
    BY <1>1, <1>3, <2>2, <2>3, SetStatusOK
  <2>5. RequestOK(req[r])' /\ ~req'[r].claim
    BY <2>1, IdleNext
  <2>6. ClaimsOK'
    <3>1. \A v \in Uploads : Claimants(v)' \subseteq Claimants(v) \ {r}
      BY <2>1, <2>5 DEF Claimants
    <3>2. \A v \in Uploads : CleanerClaims(v)' = CleanerClaims(v)
      BY <1>1 DEF CleanerClaims
    <3>3. \A v \in Uploads : \A s \in Claimants(v)' : req'[s].op = req[s].op
      BY <2>1, <3>1 DEF Claimants
    <3>4. uploads[u] # None => Claimants(u)' = {} /\ ~CleanerClaims(u)'
      <4>1. r \in Claimants(u)
        BY <2>2 DEF Claimants
      <4> QED BY <2>2, <3>1, <3>2, <4>1 DEF MInv, ClaimsOK
    <3> QED BY <2>4, <3>1, <3>2, <3>3, <3>4, ClaimsKept DEF MInv
  <2>7. Idle \in Request /\ Owned(Idle) \subseteq Owned(q) /\ stale' \subseteq stale
    BY <1>1, IdleOK
  <2> QED BY <1>1, <2>1, <2>4, <2>5, <2>6, <2>7, RowStep
<1> QED BY <1>1, <1>2, <1>3

LEMMA ClaimUploadOK ==
    ASSUME MInv, NEW r \in Requests, ClaimUpload(r)
    PROVE  MInv'
<1> PICK u : u = req[r].upload
  OBVIOUS
<1> DEFINE q == req[r]  s == ClaimStatus(q.op)
           pc == IF q.op = "complete" THEN "list" ELSE "deleteRow"
<1>1. /\ q.pc = "claim" /\ Is(u, "active") /\ uploads' = SetUploadStatus(u, s)
      /\ UNCHANGED <<bucket, parts, object, stale, disk, used, cleaner, process, served, faults>>
  BY DEF ClaimUpload
<1>2. PICK w \in Manifest, cd \in Conditions :
        Go(r, [q EXCEPT !.claim = TRUE, !.pc = pc,
                 !.want = IF q.op = "complete" THEN w ELSE None,
                 !.cond = IF q.op = "complete" THEN cd ELSE "none"])
  BY DEF ClaimUpload
<1> DEFINE want == IF q.op = "complete" THEN w ELSE None
           cond == IF q.op = "complete" THEN cd ELSE "none"
           f == [q EXCEPT !.claim = TRUE, !.pc = pc, !.want = want, !.cond = cond]
<1>3. q \in Request /\ RequestOK(q) /\ TypeOK
  BY Current
<1>4. /\ u \in Uploads \cap used /\ q.todo \subseteq used /\ q.op \in {"complete", "abort"}
  BY <1>1, <1>3 DEF RequestOK, ShapeOK, UploadOK, NoUpload
<1>5. /\ pc \in PCs /\ want \in Opt(Manifest) /\ cond \in AllConditions /\ TRUE \in BOOLEAN
      /\ pc \in {"list", "deleteRow"} /\ (pc = "list" => q.op = "complete" /\ want \in Manifest)
      /\ s \in UploadStatus /\ s # "active"
  BY ConstantsAssumption DEF PCs, Opt, AllConditions, ClaimStatus, UploadStatus
<1>6. Go(r, f)
  BY <1>2
<1> HIDE DEF pc, want, cond
<1>7. /\ f \in Request /\ f.pc = pc /\ f.op = q.op /\ f.upload = u /\ f.want = want
      /\ f.todo = q.todo
  BY <1>3, <1>5, RequestFields
<1>8. f.claim = TRUE
  BY <1>3, RequestFields
<1> HIDE DEF f
<1>9. /\ req' = [req EXCEPT ![r] = f] /\ req'[r] = f /\ \A x \in Requests : x # r => req'[x] = req[x]
      /\ lock' \in [Uploads -> Requests \cup {None}] /\ bucket' \in BOOLEAN
  BY <1>1, <1>3, <1>6 DEF Go, TypeOK
<1>10. /\ uploads' \in [Uploads -> Upload \cup {None}]
       /\ uploads[u] # None => uploads'[u] # None /\ uploads'[u].status = s
       /\ \A v \in Uploads : uploads'[v] # None <=> uploads[v] # None
       /\ \A v \in Uploads : v # u => uploads'[v] = uploads[v]
       /\ \A v \in Uploads, n \in PartNumbers : parts'[v][n] \in {parts[v][n], None}
       /\ parts' \in [Uploads -> [PartNumbers -> Part \cup {None}]]
       /\ DrawnOK' /\ Kept({})
  <2> HIDE DEF s
  <2> QED BY <1>1, <1>4, <1>5, SetStatusOK
<1>11. Owned(f) = {} /\ Owned(req[r])' = {}
  BY <1>5, <1>7, <1>9 DEF Owned
<1>12. RequestOK(req[r])'
  BY <1>1, <1>4, <1>5, <1>7, <1>8, <1>9, <1>11 DEF RequestOK, ShapeOK, UploadOK, WritingOK,
        CopyOK, OwnedOK, NoUpload, ClaimPCs
<1>13. ClaimsOK'
  <2>1. \A v \in Uploads : v # u => Claimants(v)' \subseteq Claimants(v)
    BY <1>7, <1>9 DEF Claimants
  <2>2. \A v \in Uploads : CleanerClaims(v)' = CleanerClaims(v)
    BY <1>1 DEF CleanerClaims
  <2>3. uploads[u] # None /\ uploads[u].status = "active"
    BY <1>1 DEF Is
  <2>4. Claimants(u) = {} /\ ~CleanerClaims(u)
    BY <1>4, <2>3 DEF MInv, ClaimsOK, Is, ClaimStatus
  <2>5. Claimants(u)' \subseteq {r}
    BY <1>9, <2>4 DEF Claimants
  <2> SUFFICES ASSUME NEW v \in Uploads, uploads'[v] # None
               PROVE  /\ \A x \in Claimants(v)' : Is(v, ClaimStatus(req[x].op))'
                      /\ CleanerClaims(v)' => Is(v, "aborted")' /\ Claimants(v)' = {}
                      /\ \A x, y \in Claimants(v)' : x = y
    BY DEF ClaimsOK
  <2>6. CASE v = u
    <3>1. \A x \in Claimants(v)' : x = r
      BY <2>5, <2>6
    <3>2. uploads'[u].status = ClaimStatus(req'[r].op)
      BY <1>7, <1>9, <1>10, <2>3
    <3>3. ~CleanerClaims(v)'
      BY <2>2, <2>4, <2>6
    <3>4. \A x \in Claimants(v)' : Is(v, ClaimStatus(req[x].op))'
      BY <2>6, <3>1, <3>2 DEF Is
    <3> QED BY <3>1, <3>3, <3>4
  <2>7. CASE v # u
    <3>1. uploads'[v] = uploads[v] /\ uploads[v] # None
      BY <1>10, <2>7
    <3>2. \A x \in Claimants(v)' : x \in Claimants(v) /\ req'[x].op = req[x].op
      BY <1>7, <1>9, <2>7 DEF Claimants
    <3>3. /\ \A x \in Claimants(v) : Is(v, ClaimStatus(req[x].op))
          /\ CleanerClaims(v) => Is(v, "aborted") /\ Claimants(v) = {}
          /\ \A x, y \in Claimants(v) : x = y
      BY <3>1 DEF MInv, ClaimsOK
    <3>4. \A x \in Claimants(v)' : Is(v, ClaimStatus(req[x].op))'
      BY <3>1, <3>2, <3>3 DEF Is
    <3>5. CleanerClaims(v)' => Is(v, "aborted")' /\ Claimants(v)' = {}
      BY <2>2, <3>1, <3>2, <3>3 DEF Is
    <3> QED BY <3>2, <3>3, <3>4, <3>5
  <2> QED BY <2>6, <2>7
<1> QED BY <1>1, <1>7, <1>9, <1>10, <1>11, <1>12, <1>13, RowStep

-----------------------------------------------------------------------------
(* Steps that write a row                                                  *)

\* Part files and object files have different paths.
LEMMA KindsApart ==
    ASSUME MInv, NEW u \in Uploads, NEW n \in PartNumbers, parts[u][n] # None, NEW w \in Visible
    PROVE  parts[u][n].path # w.path
<1> USE NoneAssumption
<1> DEFINE row == parts[u][n]
<1>1. row \in Part /\ row.path \in Paths /\ w \in Object /\ w.etag \in Manifest
  BY DEF MInv, TypeOK, Part, Visible, Object
<1>2. files[row.path] = [upload |-> u, body |-> row.etag]
  BY DEF MInv, PartRowsHaveFiles
<1>3. [upload |-> u, body |-> row.etag] \in PartFile
  BY <1>1 DEF PartFile, Part
<1>4. blobs[w.path] # None
  BY <1>1 DEF MInv, ObjectHasFile
<1> QED BY <1>1, <1>2, <1>3, <1>4 DEF MInv, DrawnOK

LEMMA AddPartOK ==
    ASSUME MInv, NEW r \in Requests, AddPart(r)
    PROVE  MInv'
<1> USE NoneAssumption
<1> PICK u, n, p, c : u = req[r].upload /\ n = req[r].number /\ p = req[r].path /\ c = req[r].body
  OBVIOUS
<1> DEFINE q == req[r]
           old == parts[u][n]
           D == IF old = None THEN {} ELSE {old.path}
           new == [path |-> p, etag |-> c]
           f == Sweeping(q, D, "idle")
<1>1. /\ q.pc = "store" /\ Is(u, "active") /\ Go(r, f)
      /\ parts' = [parts EXCEPT ![u][n] = new]
      /\ UNCHANGED <<bucket, uploads, object, stale, files, blobs, used, cleaner, phase, crashes,
                     served, faults>>
  BY DEF AddPart, disk, process
<1>2. q \in Request /\ RequestOK(q) /\ TypeOK
  BY Current
<1>3. u \in Uploads \cap used /\ n \in PartNumbers /\ c \in Bodies /\ p \in Paths
      /\ q.todo \subseteq used
  BY <1>1, <1>2 DEF RequestOK, ShapeOK, UploadOK, NoUpload
<1>4. new \in Part /\ new # None /\ new.path = p /\ new.etag = c
  BY <1>3 DEF Part
<1>5. files[p] = [upload |-> u, body |-> c]
  BY <1>1, <1>2 DEF RequestOK, WritingOK, Is
<1>6. Owned(q) = {p}
  BY <1>1 DEF Owned
<1>7. Free({p}) /\ p \in used
  BY <1>1, <1>2, <1>6 DEF RequestOK, OwnedOK, Free
<1>8. D \subseteq Paths \cap used /\ \A x \in D : x # p /\ old # None /\ x = old.path
  BY <1>3, <1>7, RowPathsDrawn DEF Free
<1>9. /\ parts' \in [Uploads -> [PartNumbers -> Part \cup {None}]]
      /\ parts'[u][n] = new
      /\ \A v \in Uploads : v # u => parts'[v] = parts[v]
      /\ \A v \in Uploads, m \in PartNumbers : v # u \/ m # n => parts'[v][m] = parts[v][m]
  <2> HIDE DEF new
  <2> QED BY <1>1, <1>2, <1>3, <1>4 DEF TypeOK
<1>10. /\ f \in Request /\ f.pc = "sweep" /\ f.doomed = D /\ f.then = "idle" /\ f.op = q.op
       /\ f.upload = q.upload /\ f.todo = q.todo
  <2>1. "idle" \in ThenPCs
    BY DEF ThenPCs
  <2> HIDE DEF D
  <2> QED BY <1>2, <1>8, <2>1, SweepingFields
<1>11. f.claim = q.claim /\ q.claim \in BOOLEAN
  <2>1. "idle" \in ThenPCs
    BY DEF ThenPCs
  <2> HIDE DEF D
  <2> QED BY <1>2, <1>8, <2>1, SweepingFields, RequestFields, SMTT(30)
<1>12. ~q.claim
  BY <1>1, <1>2, <1>11 DEF RequestOK, ShapeOK, ClaimPCs
<1>13. /\ req' = [req EXCEPT ![r] = f] /\ req'[r] = f /\ lock' = lock
       /\ req' \in [Requests -> Request] /\ \A s \in Requests : s # r => req'[s] = req[s]
  <2> HIDE DEF f
  <2> QED BY <1>1, <1>2, <1>10 DEF Go, TypeOK
<1>14. \A x \in D :
        /\ \A v \in Uploads, m \in PartNumbers : parts'[v][m] # None => parts'[v][m].path # x
        /\ \A w \in Visible : w.path # x
        /\ \A s \in Requests : s # r => x \notin Owned(req[s])
  <2> SUFFICES ASSUME NEW x \in D
               PROVE  /\ \A v \in Uploads, m \in PartNumbers :
                            parts'[v][m] # None => parts'[v][m].path # x
                      /\ \A w \in Visible : w.path # x
                      /\ \A s \in Requests : s # r => x \notin Owned(req[s])
    OBVIOUS
  <2>1. x # p /\ old # None /\ x = old.path
    BY <1>8
  <2> HIDE DEF D
  <2>2. \A v \in Uploads, m \in PartNumbers : parts'[v][m] # None => parts'[v][m].path # x
    <3> SUFFICES ASSUME NEW v \in Uploads, NEW m \in PartNumbers, parts'[v][m] # None
                 PROVE  parts'[v][m].path # x
      OBVIOUS
    <3>1. CASE v = u /\ m = n
      BY <1>4, <1>9, <2>1, <3>1
    <3>2. CASE v # u \/ m # n
      BY <1>3, <1>9, <2>1, <3>2 DEF MInv, RowPathsApart
    <3> QED BY <3>1, <3>2
  <2>3. \A w \in Visible : w.path # x
    BY <1>3, <2>1, KindsApart
  <2>4. \A s \in Requests : s # r => x \notin Owned(req[s])
    BY <1>3, <2>1 DEF MInv, RequestsOK, RequestOK, OwnedOK
  <2> QED BY <2>2, <2>3, <2>4
<1> HIDE DEF f, new, D
<1>15. TypeOK'
  BY <1>1, <1>2, <1>9, <1>13 DEF TypeOK
<1>16. Kept({p})
  BY <1>1, <1>4, <1>9 DEF Kept, Visible
<1>17. DrawnOK'
  BY <1>1, <1>3, <1>9 DEF MInv, DrawnOK, Is
<1>18. Owned(req[r])' = D
  BY <1>10, <1>13 DEF Owned
<1>19. RequestOK(req[r])'
  <2>1. OwnedOK(req[r])'
    BY <1>1, <1>8, <1>18, <1>14 DEF OwnedOK, Visible
  <2>2. ShapeOK(req[r])' /\ UploadOK(req[r])' /\ WritingOK(req[r])' /\ CopyOK(req[r])'
    BY <1>1, <1>3, <1>10, <1>11, <1>12, <1>13 DEF ShapeOK, UploadOK, WritingOK, CopyOK, NoUpload,
          ClaimPCs
  <2> QED BY <2>1, <2>2 DEF RequestOK
<1>20. RequestsOK' /\ OwnersApart'
  <2>1. \A s \in Requests : s # r => {p} \cap Owned(req[s]) = {}
    BY <1>6 DEF MInv, OwnersApart
  <2>2. \A s \in Requests : s # r => Owned(req[r])' \cap Owned(req[s]) = {}
    BY <1>18, <1>14
  <2> QED BY <1>13, <1>16, <1>19, <2>1, <2>2, RequestStep
<1>21. PartRowsHaveFiles'
  <2> SUFFICES ASSUME NEW v \in Uploads, NEW m \in PartNumbers, parts'[v][m] # None
               PROVE  files'[parts'[v][m].path] = [upload |-> v, body |-> parts'[v][m].etag]
    BY DEF PartRowsHaveFiles
  <2>1. CASE v = u /\ m = n
    BY <1>1, <1>4, <1>5, <1>9, <2>1
  <2>2. CASE v # u \/ m # n
    BY <1>1, <1>9, <2>2 DEF MInv, PartRowsHaveFiles
  <2> QED BY <2>1, <2>2
<1>22. RowPathsApart'
  <2> SUFFICES ASSUME NEW v \in Uploads, NEW w \in Uploads, NEW m \in PartNumbers,
                      NEW k \in PartNumbers, parts'[v][m] # None, parts'[w][k] # None,
                      parts'[v][m].path = parts'[w][k].path
               PROVE  v = w /\ m = k
    BY DEF RowPathsApart
  <2>1. \A x \in Uploads, y \in PartNumbers :
            parts[x][y] # None /\ (x # u \/ y # n) => parts'[x][y].path # p
    BY <1>7, <1>9 DEF Free
  <2>2. parts'[u][n].path = p
    BY <1>4, <1>9
  <2>3. CASE (v = u /\ m = n) \/ (w = u /\ k = n)
    BY <1>9, <2>1, <2>2, <2>3
  <2>4. CASE (v # u \/ m # n) /\ (w # u \/ k # n)
    BY <1>9, <2>4 DEF MInv, RowPathsApart
  <2> QED BY <2>3, <2>4
<1>23. ObjectHasFile'
  BY <1>1 DEF MInv, ObjectHasFile, Visible
<1>24. CleanerOK'
  BY <1>1 DEF MInv, CleanerOK
<1>25. ClaimsOK'
  <2>1. \A v \in Uploads : uploads'[v] \in {uploads[v], None}
    BY <1>1
  <2> QED BY <1>1, <1>11, <1>12, <1>13, <2>1, ClaimsOfMove
<1>26. StartingOK'
  BY <1>1, Serving DEF StartingOK
<1> QED BY <1>15, <1>17, <1>20, <1>21, <1>22, <1>23, <1>24, <1>25, <1>26 DEF MInv

\* What a completion commits is what its client named.
LEMMA NewObjectIs ==
    ASSUME MInv, NEW r \in Requests, req[r].pc = "commit"
    PROVE  /\ NewObject(req[r]) = [path |-> req[r].path, etag |-> req[r].want]
           /\ NewObject(req[r]) \in Object /\ blobs[req[r].path] = req[r].want
<1> DEFINE q == req[r]
<1>1. q.want \in Manifest /\ q.path \in Paths /\ CopyOK(q)
  BY Current DEF RequestOK, ShapeOK
<1>2. /\ DOMAIN q.rows = DOMAIN q.want /\ blobs[q.path] = q.want
      /\ \A n \in DOMAIN q.want : q.rows[n].etag = q.want[n]
  BY <1>1 DEF CopyOK
<1>3. PICK T : q.want \in [T -> Bodies]
  BY <1>1 DEF Manifest
<1>4. [n \in DOMAIN q.rows |-> q.rows[n].etag] = q.want
  BY <1>2, <1>3
<1>5. NewObject(q) = [path |-> q.path, etag |-> q.want]
  BY <1>4 DEF NewObject
<1> QED BY <1>1, <1>2, <1>5 DEF Object

LEMMA CompleteUploadOK ==
    ASSUME MInv, NEW r \in Requests, CompleteUpload(r)
    PROVE  MInv'
<1> USE NoneAssumption
<1> PICK u, p, want : u = req[r].upload /\ p = req[r].path /\ want = req[r].want
  OBVIOUS
<1> DEFINE q == req[r]
           D == {w.path : w \in {object} \ {None}}
           new == [path |-> p, etag |-> want]
           f == [q EXCEPT !.pc = "evict", !.claim = FALSE, !.then = "purge", !.doomed = D]
<1>1. /\ q.pc = "commit" /\ Is(u, "completing") /\ Go(r, f) /\ DeleteUpload(u)
      /\ stale' = Visible
      /\ UNCHANGED <<bucket, files, blobs, used, cleaner, phase, crashes, served, faults>>
  BY DEF CompleteUpload, disk, process
<1>2. q \in Request /\ RequestOK(q) /\ TypeOK
  BY Current
<1>3. u \in Uploads \cap used /\ p \in Paths /\ q.todo \subseteq used
  BY <1>1, <1>2 DEF RequestOK, ShapeOK, UploadOK, NoUpload
<1>4. object' = new /\ new \in Object /\ new # None /\ new.path = p /\ new.etag = want
      /\ blobs[p] = want
  BY <1>1, NewObjectIs DEF CompleteUpload
<1> HIDE DEF new
<1>5. Owned(q) = {p}
  BY <1>1 DEF Owned
<1>6. Free({p}) /\ p \in used
  BY <1>1, <1>2, <1>5 DEF RequestOK, OwnedOK, Free
<1>7. D \subseteq Paths \cap used /\ \A x \in D : x # p /\ object # None /\ x = object.path
  BY <1>6, RowPathsDrawn DEF Free, Visible
<1>8. /\ uploads' \in [Uploads -> Upload \cup {None}]
      /\ parts' \in [Uploads -> [PartNumbers -> Part \cup {None}]]
      /\ uploads'[u] = None
      /\ \A v \in Uploads : v # u => uploads'[v] = uploads[v] /\ parts'[v] = parts[v]
      /\ \A v \in Uploads : uploads'[v] \in {uploads[v], None}
      /\ \A v \in Uploads, n \in PartNumbers : parts'[v][n] \in {parts[v][n], None}
      /\ \A v \in Uploads, n \in PartNumbers : parts'[v][n] # None => v # u
  BY <1>1, <1>2, <1>3, DeleteRows
<1>9. \A x \in D :
        /\ \A v \in Uploads, m \in PartNumbers : parts'[v][m] # None => parts'[v][m].path # x
        /\ object'.path # x
        /\ \A s \in Requests : s # r => x \notin Owned(req[s])
  <2> SUFFICES ASSUME NEW x \in D
               PROVE  /\ \A v \in Uploads, m \in PartNumbers :
                            parts'[v][m] # None => parts'[v][m].path # x
                      /\ object'.path # x
                      /\ \A s \in Requests : s # r => x \notin Owned(req[s])
    OBVIOUS
  <2>1. x # p /\ object # None /\ x = object.path /\ object \in Visible
    BY <1>7 DEF Visible
  <2> HIDE DEF D
  <2>2. \A v \in Uploads, m \in PartNumbers : parts'[v][m] # None => parts'[v][m].path # x
    BY <1>8, <2>1, KindsApart
  <2>3. \A s \in Requests : s # r => x \notin Owned(req[s])
    BY <2>1 DEF MInv, RequestsOK, RequestOK, OwnedOK
  <2> QED BY <1>4, <2>1, <2>2, <2>3
<1>10. D \in PathSets
  BY <1>7 DEF PathSets
<1> HIDE DEF D
<1>11. "evict" \in PCs /\ "purge" \in ThenPCs /\ FALSE \in BOOLEAN
  BY DEF PCs, ThenPCs
<1>12. /\ f \in Request /\ f.pc = "evict" /\ f.doomed = D /\ f.then = "purge" /\ f.op = q.op
       /\ f.upload = q.upload /\ f.todo = q.todo
  BY <1>2, <1>10, <1>11, RequestFields
<1>13. f.claim = FALSE
  BY <1>2, RequestFields
<1> HIDE DEF f
<1>14. /\ req' = [req EXCEPT ![r] = f] /\ req'[r] = f /\ lock' = lock
       /\ req' \in [Requests -> Request] /\ \A s \in Requests : s # r => req'[s] = req[s]
  BY <1>1, <1>2, <1>12 DEF Go, TypeOK
<1>15. TypeOK'
  <2>1. stale' \subseteq Object
    BY <1>1, <1>2 DEF TypeOK, Visible
  <2> QED BY <1>1, <1>2, <1>4, <1>8, <1>14, <2>1 DEF TypeOK
<1>16. Kept({p})
  BY <1>1, <1>4, <1>8 DEF Kept
<1>17. DrawnOK'
  BY <1>1, <1>8 DEF MInv, DrawnOK
<1>18. Owned(req[r])' = D
  BY <1>12, <1>14 DEF Owned
<1>19. RequestOK(req[r])'
  <2>1. OwnedOK(req[r])'
    BY <1>1, <1>7, <1>9, <1>12, <1>14, <1>18 DEF OwnedOK
  <2>2. ShapeOK(req[r])' /\ UploadOK(req[r])' /\ WritingOK(req[r])' /\ CopyOK(req[r])'
    BY <1>1, <1>3, <1>8, <1>12, <1>13, <1>14 DEF ShapeOK, UploadOK, WritingOK, CopyOK, NoUpload,
          ClaimPCs
  <2> QED BY <2>1, <2>2 DEF RequestOK
<1>20. RequestsOK' /\ OwnersApart'
  <2>1. \A s \in Requests : s # r => {p} \cap Owned(req[s]) = {}
    BY <1>5 DEF MInv, OwnersApart
  <2>2. \A s \in Requests : s # r => Owned(req[r])' \cap Owned(req[s]) = {}
    BY <1>9, <1>18
  <2> QED BY <1>14, <1>16, <1>19, <2>1, <2>2, RequestStep
<1>21. PartRowsHaveFiles'
  <2> SUFFICES ASSUME NEW v \in Uploads, NEW m \in PartNumbers, parts'[v][m] # None
               PROVE  files'[parts'[v][m].path] = [upload |-> v, body |-> parts'[v][m].etag]
    BY DEF PartRowsHaveFiles
  <2>1. parts'[v][m] = parts[v][m] /\ parts[v][m] # None
    BY <1>8
  <2> QED BY <1>1, <2>1 DEF MInv, PartRowsHaveFiles
<1>22. RowPathsApart'
  BY <1>8 DEF MInv, RowPathsApart
<1>23. ObjectHasFile'
  <2> SUFFICES ASSUME NEW w \in Visible' PROVE blobs'[w.path] = w.etag
    BY DEF ObjectHasFile
  <2>1. w \in Visible \/ w = new
    BY <1>1, <1>4 DEF Visible
  <2>2. \A x \in Visible : blobs[x.path] = x.etag
    BY DEF MInv, ObjectHasFile
  <2> QED BY <1>1, <1>4, <2>1, <2>2
<1>24. CleanerOK'
  BY <1>1, <1>8 DEF MInv, CleanerOK
<1>25. ClaimsOK'
  BY <1>1, <1>8, <1>13, <1>14, ClaimsOfMove
<1>26. StartingOK'
  BY <1>1, Serving DEF StartingOK
<1> QED BY <1>15, <1>17, <1>20, <1>21, <1>22, <1>23, <1>24, <1>25, <1>26 DEF MInv

-----------------------------------------------------------------------------
(* The cleanup of stale uploads                                            *)

CleanerPCs == {"sleep", "pick", "claim", "delete", "reset", "purge"}
Snaps == [Uploads -> Upload \cup {None}]

LEMMA CleanerFields ==
    Cleaner = [pc : CleanerPCs, snap : Snaps, upload : Opt(Uploads), claimed : BOOLEAN]
  BY DEF Cleaner, CleanerPCs, Snaps, Opt

LEMMA CurrentCleaner ==
    ASSUME MInv
    PROVE  /\ cleaner \in Cleaner /\ CleanerOK
           /\ cleaner.pc # "sleep" => phase = "serving"
<1>1. cleaner \in Cleaner /\ CleanerOK /\ phase \in {"starting", "serving"}
  BY DEF MInv, TypeOK
<1>2. phase = "starting" => cleaner.pc = "sleep"
  BY DEF MInv, StartingOK, Sleeping
<1> QED BY <1>1, <1>2

\* A step of the cleanup.
LEMMA CleanerStep ==
    ASSUME MInv, phase = "serving", cleaner' \in Cleaner, UNCHANGED cleanerOnly,
           Fault \/ faults' = faults,
           uploads' \in [Uploads -> Upload \cup {None}],
           parts' \in [Uploads -> [PartNumbers -> Part \cup {None}]],
           files' \in [Paths -> PartFile \cup {None}],
           \A u \in Uploads, n \in PartNumbers : parts'[u][n] \in {parts[u][n], None},
           DrawnOK', ClaimsOK', CleanerOK', Kept({})
    PROVE  MInv'
<1>1. UNCHANGED <<bucket, object, stale, blobs, used, lock, req, phase, crashes, served>>
  BY DEF cleanerOnly, process
<1>2. faults' \in 0..MaxFaults
  BY Counters DEF MInv
<1>3. TypeOK'
  BY <1>1, <1>2 DEF MInv, TypeOK
<1>4. RequestsOK' /\ OwnersApart'
  BY <1>1, OtherStep
<1>5. Free({}) /\ stale' \subseteq stale
  BY <1>1 DEF Free
<1>6. PartRowsHaveFiles' /\ RowPathsApart' /\ ObjectHasFile'
  BY <1>1, <1>5, RowsKept
<1>7. StartingOK'
  BY <1>1 DEF StartingOK
<1> QED BY <1>3, <1>4, <1>6, <1>7 DEF MInv

\* ... that changes neither rows nor files and claims nothing.
LEMMA CleanerMove ==
    ASSUME MInv, phase = "serving", cleaner' \in Cleaner, UNCHANGED cleanerOnly,
           UNCHANGED <<uploads, parts, files>>, Fault \/ faults' = faults, CleanerOK',
           cleaner'.claimed => /\ cleaner'.upload = cleaner.upload /\ cleaner.claimed
                               /\ cleaner.pc = "purge" => cleaner'.pc = "purge"
    PROVE  MInv'
<1>1. UNCHANGED <<object, stale, disk, used, req>>
  BY DEF cleanerOnly, disk
<1>2. /\ uploads' \in [Uploads -> Upload \cup {None}]
      /\ parts' \in [Uploads -> [PartNumbers -> Part \cup {None}]]
      /\ \A v \in Uploads, n \in PartNumbers : parts'[v][n] \in {parts[v][n], None}
      /\ DrawnOK' /\ Kept({})
  BY <1>1, RowsUnchanged
<1>3. files' \in [Paths -> PartFile \cup {None}]
  BY DEF MInv, TypeOK
<1>4. ClaimsOK'
  <2>1. \A u \in Uploads : Claimants(u)' = Claimants(u)
    BY <1>1 DEF Claimants
  <2>2. \A u \in Uploads : CleanerClaims(u)' => CleanerClaims(u)
    BY DEF CleanerClaims
  <2> QED BY <1>1, <2>1, <2>2, ClaimsKept DEF MInv
<1> QED BY <1>2, <1>3, <1>4, CleanerStep

LEMMA PickedFields ==
    ASSUME MInv
    PROVE  /\ Picked \in Cleaner /\ Picked.pc = "pick" /\ Picked.upload = None
           /\ Picked.claimed = FALSE /\ Picked.snap = cleaner.snap
<1>1. cleaner \in Cleaner
  BY CurrentCleaner
<1>2. "pick" \in CleanerPCs /\ None \in Opt(Uploads) /\ FALSE \in BOOLEAN
  BY DEF CleanerPCs, Opt
<1> QED BY <1>1, <1>2, CleanerFields DEF Picked

\* The cleanup is done with its upload.
LEMMA PickedOK ==
    ASSUME MInv, cleaner' = Picked, used' = used
    PROVE  CleanerOK' /\ cleaner' \in Cleaner /\ ~cleaner'.claimed
<1>1. /\ cleaner' \in Cleaner /\ cleaner'.pc = "pick" /\ cleaner'.upload = None
      /\ cleaner'.claimed = FALSE /\ cleaner'.snap = cleaner.snap
  BY PickedFields
<1> QED BY <1>1, NoneAssumption DEF MInv, CleanerOK

LEMMA SleepingFields ==
    /\ Sleeping \in Cleaner /\ Sleeping.pc = "sleep" /\ Sleeping.upload = None
    /\ Sleeping.claimed = FALSE /\ \A u \in Uploads : Sleeping.snap[u] = None
<1>1. "sleep" \in CleanerPCs /\ None \in Opt(Uploads) /\ FALSE \in BOOLEAN
      /\ [u \in Uploads |-> None] \in Snaps
  BY DEF CleanerPCs, Opt, Snaps
<1> QED BY <1>1, CleanerFields DEF Sleeping

LEMMA ListStaleOK ==
    ASSUME MInv, ListStale
    PROVE  MInv'
<1> DEFINE snap == [u \in Uploads |-> IF uploads[u] # None /\ Expired(uploads[u])
                                      THEN uploads[u] ELSE None]
           g == [cleaner EXCEPT !.pc = "pick", !.snap = snap]
<1>1. /\ phase = "serving" /\ cleaner.pc = "sleep" /\ cleaner' = g
      /\ UNCHANGED <<db, stale, disk, used, lock, req, process, served, faults>>
  BY DEF ListStale
<1>2. cleaner \in Cleaner /\ CleanerOK
  BY CurrentCleaner
<1>3. snap \in Snaps /\ \A u \in Uploads : snap[u] # None => uploads[u] # None
  BY DEF MInv, TypeOK, Snaps
<1>4. "pick" \in CleanerPCs
  BY DEF CleanerPCs
<1> HIDE DEF snap
<1>5. g \in Cleaner /\ g.pc = "pick" /\ g.snap = snap /\ g.upload = cleaner.upload
  BY <1>2, <1>3, <1>4, CleanerFields
<1>6. g.claimed = cleaner.claimed /\ cleaner.claimed \in BOOLEAN
  BY <1>2, CleanerFields
<1>7. ~cleaner.claimed
  BY <1>1, <1>2, <1>6 DEF CleanerOK
<1> HIDE DEF g
<1>8. UNCHANGED <<uploads, parts, files, used>> /\ UNCHANGED cleanerOnly
  BY <1>1 DEF db, disk, cleanerOnly
<1>9. CleanerOK'
  BY <1>1, <1>2, <1>3, <1>5, <1>6, <1>7, <1>8 DEF CleanerOK, MInv, DrawnOK
<1> QED BY <1>1, <1>5, <1>6, <1>7, <1>8, <1>9, CleanerMove

LEMMA PickStaleOK ==
    ASSUME MInv, PickStale
    PROVE  MInv'
<1>1. /\ cleaner.pc = "pick"
      /\ UNCHANGED <<db, stale, disk, used, lock, req, process, served, faults>>
  BY DEF PickStale
<1>2. cleaner \in Cleaner /\ CleanerOK /\ phase = "serving"
  BY <1>1, CurrentCleaner
<1>3. UNCHANGED <<uploads, parts, files, used>> /\ UNCHANGED cleanerOnly
  BY <1>1 DEF db, disk, cleanerOnly
<1>4. cleaner.claimed \in BOOLEAN /\ cleaner.snap \in Snaps
  BY <1>2, CleanerFields
<1>5. ~cleaner.claimed
  BY <1>1, <1>2, <1>4 DEF CleanerOK
<1>6. CASE cleaner' = Sleeping
  <2>1. CleanerOK' /\ cleaner' \in Cleaner /\ ~cleaner'.claimed
    BY <1>6, SleepingFields, NoneAssumption DEF CleanerOK
  <2> QED BY <1>1, <1>2, <1>3, <2>1, CleanerMove
<1>7. ASSUME NEW u \in Listed, NEW pc \in {"claim", "pick", "delete"},
             cleaner' = [Unlisted(u) EXCEPT !.pc = pc, !.upload = IF pc = "pick" THEN None ELSE u]
      PROVE  MInv'
  <2> DEFINE snap == [cleaner.snap EXCEPT ![u] = None]
             up == IF pc = "pick" THEN None ELSE u
             g == [cleaner EXCEPT !.snap = snap, !.pc = pc, !.upload = up]
  <2>1. u \in Uploads /\ u \in used
    BY <1>2 DEF Listed, CleanerOK
  <2>2. /\ snap \in Snaps /\ (\A v \in Uploads : snap[v] # None => cleaner.snap[v] # None)
        /\ pc \in CleanerPCs /\ up \in Opt(Uploads)
    BY <1>4, <2>1 DEF Snaps, CleanerPCs, Opt
  <2>3. cleaner' = g
    BY <1>2, <1>7, CleanerFields DEF Unlisted
  <2>4. up \in Uploads => up \in used
    BY <2>1, NoneAssumption
  <2>5. pc \in {"claim", "delete"} => up \in Uploads
    BY <2>1
  <2> HIDE DEF snap, up
  <2>6. g \in Cleaner /\ g.pc = pc /\ g.snap = snap /\ g.upload = up
    BY <1>2, <2>2, CleanerFields
  <2>7. g.claimed = cleaner.claimed
    BY <1>2, CleanerFields
  <2> HIDE DEF g
  <2>8. CleanerOK'
    BY <1>2, <1>3, <1>5, <2>2, <2>3, <2>4, <2>5, <2>6, <2>7 DEF CleanerOK
  <2> QED BY <1>1, <1>2, <1>3, <1>5, <2>3, <2>6, <2>7, <2>8, CleanerMove
<1>8. ASSUME NEW u \in Listed,
             LET w == cleaner.snap[u]
                 pc == IF w.status = "active" THEN "claim"
                       ELSE IF w.updated < 2 * TTL THEN "pick" ELSE "delete"
             IN cleaner' = [Unlisted(u) EXCEPT
                    !.pc = pc, !.upload = IF pc = "pick" THEN None ELSE u]
      PROVE  MInv'
  <2> DEFINE pc == IF cleaner.snap[u].status = "active" THEN "claim"
                   ELSE IF cleaner.snap[u].updated < 2 * TTL THEN "pick" ELSE "delete"
  <2>1. pc \in {"claim", "pick", "delete"}
    OBVIOUS
  <2>2. cleaner' = [Unlisted(u) EXCEPT !.pc = pc, !.upload = IF pc = "pick" THEN None ELSE u]
    BY <1>8
  <2> HIDE DEF pc
  <2> QED BY <1>7, <2>1, <2>2
<1> QED BY <1>6, <1>8 DEF PickStale

\* The cleanup gives up, or its turn is over.
LEMMA PicksNext ==
    ASSUME MInv, cleaner.pc # "sleep", cleaner' = Picked, UNCHANGED cleanerOnly,
           UNCHANGED <<uploads, parts, files>>, Fault \/ faults' = faults
    PROVE  MInv'
<1>1. used' = used /\ phase = "serving"
  BY CurrentCleaner DEF cleanerOnly
<1>2. CleanerOK' /\ cleaner' \in Cleaner /\ ~cleaner'.claimed
  BY <1>1, PickedOK
<1> QED BY <1>1, <1>2, CleanerMove

LEMMA ClaimStaleOK ==
    ASSUME MInv, ClaimStale
    PROVE  MInv'
<1> PICK u : u = cleaner.upload
  OBVIOUS
<1>1. /\ cleaner.pc = "claim" /\ UNCHANGED cleanerOnly /\ UNCHANGED <<parts, files>>
      /\ Fault \/ faults' = faults
  BY DEF ClaimStale, NoFault
<1>2. cleaner \in Cleaner /\ CleanerOK /\ phase = "serving"
  BY <1>1, CurrentCleaner
<1>3. u \in Uploads \cap used
  BY <1>1, <1>2 DEF CleanerOK
<1>4. CASE UNCHANGED uploads /\ cleaner' = Picked
  BY <1>1, <1>4, PicksNext
<1>5. CASE /\ Is(u, "active") /\ uploads' = SetUploadStatus(u, "aborted")
           /\ cleaner' = [cleaner EXCEPT !.pc = "delete", !.claimed = TRUE]
  <2>1. UNCHANGED <<object, stale, disk, used, req>>
    BY <1>1 DEF cleanerOnly, disk
  <2>2. "aborted" \in UploadStatus
    BY DEF UploadStatus
  <2>3. /\ uploads' \in [Uploads -> Upload \cup {None}]
        /\ uploads[u] # None => uploads'[u] # None /\ uploads'[u].status = "aborted"
        /\ \A v \in Uploads : uploads'[v] # None <=> uploads[v] # None
        /\ \A v \in Uploads : v # u => uploads'[v] = uploads[v]
        /\ \A v \in Uploads, n \in PartNumbers : parts'[v][n] \in {parts[v][n], None}
        /\ parts' \in [Uploads -> [PartNumbers -> Part \cup {None}]]
        /\ DrawnOK' /\ Kept({})
    BY <1>1, <1>3, <1>5, <2>1, <2>2, SetStatusOK
  <2>4. "delete" \in CleanerPCs /\ TRUE \in BOOLEAN
    BY DEF CleanerPCs
  <2>5. cleaner' \in Cleaner /\ cleaner'.pc = "delete" /\ cleaner'.snap = cleaner.snap
        /\ cleaner'.upload = u
    BY <1>2, <1>5, <2>4, CleanerFields
  <2>6. CleanerOK'
    BY <1>2, <1>3, <2>1, <2>5 DEF CleanerOK
  <2>7. uploads[u] # None /\ uploads[u].status = "active"
    BY <1>5 DEF Is
  <2>8. Claimants(u) = {}
    BY <1>3, <2>7 DEF MInv, ClaimsOK, Is, ClaimStatus
  <2>9. ClaimsOK'
    <3>1. \A v \in Uploads : Claimants(v)' = Claimants(v)
      BY <2>1 DEF Claimants
    <3>2. \A v \in Uploads : CleanerClaims(v)' => v = u
      BY <2>5 DEF CleanerClaims
    <3> SUFFICES ASSUME NEW v \in Uploads, uploads'[v] # None
                 PROVE  /\ \A x \in Claimants(v)' : Is(v, ClaimStatus(req[x].op))'
                        /\ CleanerClaims(v)' => Is(v, "aborted")' /\ Claimants(v)' = {}
                        /\ \A x, y \in Claimants(v)' : x = y
      BY DEF ClaimsOK
    <3>3. CASE v = u
      BY <2>3, <2>7, <2>8, <3>1, <3>3 DEF Is
    <3>4. CASE v # u
      <4>1. uploads'[v] = uploads[v] /\ ~CleanerClaims(v)'
        BY <2>3, <3>2, <3>4
      <4> QED BY <2>1, <3>1, <4>1 DEF MInv, ClaimsOK, Is
    <3> QED BY <3>3, <3>4
  <2>10. files' \in [Paths -> PartFile \cup {None}]
    BY <1>1 DEF MInv, TypeOK
  <2> QED BY <1>1, <1>2, <2>3, <2>5, <2>6, <2>9, <2>10, CleanerStep
<1> QED BY <1>4, <1>5 DEF ClaimStale

\* The cleanup deletes the row of its upload, and goes on to remove the
\* directory, to give the claim back, or to the next upload.
LEMMA StaleRowGoes ==
    ASSUME MInv, cleaner.pc = "delete", DeleteUpload(cleaner.upload), UNCHANGED cleanerOnly,
           files' = files, Fault \/ faults' = faults, cleaner' \in Cleaner, CleanerOK',
           cleaner'.claimed => cleaner.claimed /\ cleaner'.upload = cleaner.upload
    PROVE  MInv'
<1>1. CleanerOK /\ phase = "serving"
  BY CurrentCleaner
<1>2. cleaner.upload \in Uploads
  BY <1>1 DEF CleanerOK
<1>3. UNCHANGED <<object, stale, disk, used, req>>
  BY DEF cleanerOnly, disk
<1>4. /\ uploads' \in [Uploads -> Upload \cup {None}]
      /\ parts' \in [Uploads -> [PartNumbers -> Part \cup {None}]]
      /\ \A v \in Uploads : uploads'[v] \in {uploads[v], None}
      /\ \A v \in Uploads, n \in PartNumbers : parts'[v][n] \in {parts[v][n], None}
      /\ DrawnOK' /\ Kept({})
  BY <1>2, <1>3, DeleteUploadOK
<1>5. ClaimsOK'
  <2>1. \A u \in Uploads : Claimants(u)' = Claimants(u)
    BY <1>3 DEF Claimants
  <2>2. \A u \in Uploads : CleanerClaims(u)' => CleanerClaims(u)
    BY DEF CleanerClaims
  <2>3. \A u \in Uploads : uploads'[u] # None => uploads'[u] = uploads[u]
    BY <1>4
  <2> QED BY <1>3, <2>1, <2>2, <2>3, ClaimsKept DEF MInv
<1>6. files' \in [Paths -> PartFile \cup {None}]
  BY DEF MInv, TypeOK
<1> QED BY <1>1, <1>4, <1>5, <1>6, CleanerStep

\* The cleanup's next step, when its upload stays the same.
LEMMA CleanerTurns ==
    ASSUME MInv, NEW pc \in CleanerPCs, cleaner' = [cleaner EXCEPT !.pc = pc]
    PROVE  /\ cleaner' \in Cleaner /\ cleaner'.pc = pc /\ cleaner'.upload = cleaner.upload
           /\ cleaner'.snap = cleaner.snap /\ cleaner'.claimed = cleaner.claimed
  BY CurrentCleaner, CleanerFields

LEMMA DeleteStaleOK ==
    ASSUME MInv, DeleteStale
    PROVE  MInv'
<1>1. /\ cleaner.pc = "delete" /\ DeleteUpload(cleaner.upload) /\ UNCHANGED cleanerOnly
      /\ UNCHANGED <<files, faults>> /\ cleaner' = [cleaner EXCEPT !.pc = "purge"]
  BY DEF DeleteStale
<1>2. "purge" \in CleanerPCs
  BY DEF CleanerPCs
<1>3. /\ cleaner' \in Cleaner /\ cleaner'.pc = "purge" /\ cleaner'.upload = cleaner.upload
      /\ cleaner'.snap = cleaner.snap /\ cleaner'.claimed = cleaner.claimed
  BY <1>1, <1>2, CleanerTurns
<1>4. CleanerOK'
  <2>1. used' = used /\ CleanerOK /\ TypeOK
    BY <1>1 DEF cleanerOnly, MInv
  <2>2. cleaner.upload \in Uploads
    BY <1>1, <2>1 DEF CleanerOK
  <2>3. uploads'[cleaner.upload] = None
    BY <1>1, <2>1, <2>2, DeleteRows
  <2> QED BY <1>3, <2>1, <2>2, <2>3 DEF CleanerOK
<1> QED BY <1>1, <1>3, <1>4, StaleRowGoes

LEMMA DeleteStaleFailsOK ==
    ASSUME MInv, DeleteStaleFails
    PROVE  MInv'
<1>1. /\ cleaner.pc = "delete" /\ UNCHANGED cleanerOnly /\ UNCHANGED files
      /\ Fault \/ faults' = faults
      /\ UNCHANGED <<uploads, parts>> \/ DeleteUpload(cleaner.upload)
      /\ cleaner' = IF cleaner.claimed THEN [cleaner EXCEPT !.pc = "reset"] ELSE Picked
  BY DEF DeleteStaleFails, NoFault
<1>2. used' = used /\ CleanerOK /\ phase = "serving"
  BY <1>1, CurrentCleaner DEF cleanerOnly
<1>3. CASE cleaner' = Picked
  <2>1. CleanerOK' /\ cleaner' \in Cleaner /\ ~cleaner'.claimed
    BY <1>2, <1>3, PickedOK
  <2> QED BY <1>1, <1>2, <2>1, StaleRowGoes, CleanerMove
<1>4. CASE cleaner.claimed /\ cleaner' = [cleaner EXCEPT !.pc = "reset"]
  <2>1. "reset" \in CleanerPCs
    BY DEF CleanerPCs
  <2>2. /\ cleaner' \in Cleaner /\ cleaner'.pc = "reset" /\ cleaner'.upload = cleaner.upload
        /\ cleaner'.snap = cleaner.snap
    BY <1>4, <2>1, CleanerTurns
  <2>3. cleaner'.claimed = cleaner.claimed
    BY <1>4, <2>1, CleanerTurns
  <2>4. CleanerOK'
    BY <1>1, <1>2, <1>4, <2>2, <2>3 DEF CleanerOK
  <2> QED BY <1>1, <1>2, <1>4, <2>2, <2>4, StaleRowGoes, CleanerMove
<1> QED BY <1>1, <1>3, <1>4

LEMMA ResetStaleOK ==
    ASSUME MInv, ResetStale
    PROVE  MInv'
<1> PICK u : u = cleaner.upload
  OBVIOUS
<1>1. /\ cleaner.pc = "reset" /\ UNCHANGED cleanerOnly /\ UNCHANGED <<parts, files>>
      /\ cleaner' = Picked /\ (Fault \/ faults' = faults)
      /\ uploads' = uploads \/ uploads' = SetUploadStatus(u, "active")
  BY DEF ResetStale, NoFault
<1>2. CleanerOK /\ phase = "serving"
  BY <1>1, CurrentCleaner
<1>3. u \in Uploads /\ cleaner.claimed
  BY <1>1, <1>2 DEF CleanerOK
<1>4. CASE uploads' = uploads
  BY <1>1, <1>4, PicksNext
<1>5. CASE uploads' = SetUploadStatus(u, "active")
  <2>1. UNCHANGED <<object, stale, disk, used, req>>
    BY <1>1 DEF cleanerOnly, disk
  <2>2. "active" \in UploadStatus
    BY DEF UploadStatus
  <2>3. /\ uploads' \in [Uploads -> Upload \cup {None}]
        /\ \A v \in Uploads : uploads'[v] # None <=> uploads[v] # None
        /\ \A v \in Uploads : v # u => uploads'[v] = uploads[v]
        /\ \A v \in Uploads, n \in PartNumbers : parts'[v][n] \in {parts[v][n], None}
        /\ parts' \in [Uploads -> [PartNumbers -> Part \cup {None}]]
        /\ DrawnOK' /\ Kept({})
    BY <1>1, <1>3, <1>5, <2>1, <2>2, SetStatusOK
  <2>4. CleanerOK' /\ cleaner' \in Cleaner /\ ~cleaner'.claimed
    BY <1>1, <2>1, PickedOK
  <2>5. ClaimsOK'
    <3>1. \A v \in Uploads : Claimants(v)' = Claimants(v)
      BY <2>1 DEF Claimants
    <3>2. \A v \in Uploads : ~CleanerClaims(v)'
      BY <2>4 DEF CleanerClaims
    <3>3. CleanerClaims(u)
      BY <1>1, <1>3 DEF CleanerClaims
    <3>4. uploads[u] # None => Claimants(u) = {}
      BY <1>3, <3>3 DEF MInv, ClaimsOK
    <3> QED BY <2>1, <2>3, <3>1, <3>2, <3>4, ClaimsKept DEF MInv
  <2>6. files' \in [Paths -> PartFile \cup {None}]
    BY <1>1 DEF MInv, TypeOK
  <2> QED BY <1>1, <1>2, <2>3, <2>4, <2>5, <2>6, CleanerStep
<1> QED BY <1>1, <1>4, <1>5

LEMMA PurgeStaleOK ==
    ASSUME MInv, PurgeStale
    PROVE  MInv'
<1> PICK u : u = cleaner.upload
  OBVIOUS
<1>1. /\ cleaner.pc = "purge" /\ UNCHANGED cleanerOnly /\ UNCHANGED <<uploads, parts>>
      /\ Fault \/ faults' = faults
  BY DEF PurgeStale, NoFault
<1>2. cleaner \in Cleaner /\ CleanerOK /\ phase = "serving"
  BY <1>1, CurrentCleaner
<1>3. u \in Uploads /\ uploads[u] = None
  BY <1>1, <1>2 DEF CleanerOK
<1>4. CASE cleaner' = Picked /\ UNCHANGED files
  BY <1>1, <1>4, PicksNext
<1>5. ASSUME NEW p \in FilesOf(u), files' = [files EXCEPT ![p] = None], cleaner' = cleaner
      PROVE  MInv'
  <2>1. UNCHANGED <<bucket, uploads, parts, object, stale, blobs, used, req>>
    BY <1>1 DEF cleanerOnly
  <2>2. Kept({}) /\ DrawnOK' /\ files' \in [Paths -> PartFile \cup {None}]
    BY <1>3, <1>5, <2>1, DirectoryFileGoes
  <2>3. CleanerOK'
    BY <1>2, <1>5, <2>1 DEF CleanerOK
  <2>4. ClaimsOK'
    BY <1>5, <2>1 DEF MInv, ClaimsOK, Claimants, CleanerClaims, Is
  <2>5. /\ uploads' \in [Uploads -> Upload \cup {None}]
        /\ parts' \in [Uploads -> [PartNumbers -> Part \cup {None}]]
        /\ \A v \in Uploads, n \in PartNumbers : parts'[v][n] \in {parts[v][n], None}
    BY <2>1 DEF MInv, TypeOK
  <2> QED BY <1>1, <1>2, <1>5, <2>2, <2>3, <2>4, <2>5, CleanerStep
<1> QED BY <1>4, <1>5 DEF PurgeStale

-----------------------------------------------------------------------------
(* New uploads, time, crash and restart                                    *)

LEMMA CreateMultipartUploadOK ==
    ASSUME MInv, NEW u \in Uploads, CreateMultipartUpload(u)
    PROVE  MInv'
<1> USE NoneAssumption
<1> DEFINE new == [status |-> "active", created |-> 0, updated |-> 0]
<1>1. /\ phase = "serving" /\ u \notin used /\ used' = used \cup {u}
      /\ uploads' = [uploads EXCEPT ![u] = new]
      /\ UNCHANGED <<bucket, parts, object, stale, files, blobs, lock, req, cleaner, phase,
                     crashes, served, faults>>
  BY DEF CreateMultipartUpload, disk, process
<1>2. TypeOK
  BY DEF MInv
<1>3. new \in Upload /\ new # None
  <2>1. 0 \in Ages
    BY ConstantsAssumption DEF Ages
  <2> QED BY <2>1 DEF Upload, UploadStatus
<1> HIDE DEF new
<1>4. /\ uploads' \in [Uploads -> Upload \cup {None}] /\ uploads'[u] = new
      /\ \A v \in Uploads : v # u => uploads'[v] = uploads[v]
  BY <1>1, <1>2, <1>3 DEF TypeOK
<1>5. TypeOK'
  BY <1>1, <1>2, <1>4 DEF TypeOK
<1>6. DrawnOK'
  BY <1>1, <1>3, <1>4 DEF MInv, DrawnOK
<1>7. Kept({})
  BY <1>1, <1>4 DEF Kept, Visible
<1>8. RequestsOK' /\ OwnersApart'
  BY <1>1, <1>7, OtherStep
<1>9. CleanerOK'
  BY <1>1, <1>7, CleanerKept DEF MInv, Kept
<1>10. ClaimsOK'
  <2>1. \A v \in Uploads : Claimants(v)' = Claimants(v) /\ CleanerClaims(v)' = CleanerClaims(v)
    BY <1>1 DEF Claimants, CleanerClaims
  <2>2. Claimants(u) = {}
    BY <1>1 DEF Claimants, MInv, RequestsOK, RequestOK, UploadOK
  <2>3. ~CleanerClaims(u)
    BY <1>1 DEF CleanerClaims, MInv, CleanerOK
  <2> SUFFICES ASSUME NEW v \in Uploads, uploads'[v] # None
               PROVE  /\ \A x \in Claimants(v)' : Is(v, ClaimStatus(req[x].op))'
                      /\ CleanerClaims(v)' => Is(v, "aborted")' /\ Claimants(v)' = {}
                      /\ \A x, y \in Claimants(v)' : x = y
    BY DEF ClaimsOK
  <2>4. CASE v = u
    BY <2>1, <2>2, <2>3, <2>4
  <2>5. CASE v # u
    <3>1. uploads'[v] = uploads[v]
      BY <1>4, <2>5
    <3> QED BY <1>1, <2>1, <3>1 DEF MInv, ClaimsOK, Is
  <2> QED BY <2>4, <2>5
<1>11. Free({}) /\ \A v \in Uploads, n \in PartNumbers : parts'[v][n] \in {parts[v][n], None}
  BY <1>1 DEF Free
<1>12. PartRowsHaveFiles' /\ RowPathsApart' /\ ObjectHasFile'
  BY <1>1, <1>6, <1>7, <1>11, RowsKept
<1>13. StartingOK'
  BY <1>1 DEF StartingOK
<1> QED BY <1>5, <1>6, <1>8, <1>9, <1>10, <1>12, <1>13 DEF MInv

\* A row one tick later.
Aged(w) == IF w = None THEN None
           ELSE [w EXCEPT !.created = Older(@), !.updated = Older(@)]

LEMMA AgedOK ==
    ASSUME NEW w \in Upload \cup {None}
    PROVE  /\ Aged(w) \in Upload \cup {None} /\ (Aged(w) = None <=> w = None)
           /\ w # None => Aged(w).status = w.status
<1>1. ASSUME NEW a \in Ages PROVE Older(a) \in Ages
  BY ConstantsAssumption DEF Ages, Older
<1>2. CASE w = None
  BY <1>2 DEF Aged
<1>3. CASE w \in Upload
  <2>1. w.created \in Ages /\ w.updated \in Ages /\ w # None
    BY <1>3, NoneAssumption DEF Upload
  <2>2. Older(w.created) \in Ages /\ Older(w.updated) \in Ages
    BY <1>1, <2>1
  <2>3. [w EXCEPT !.created = Older(@), !.updated = Older(@)] \in Upload
    BY <1>3, <2>2 DEF Upload
  <2>4. [w EXCEPT !.created = Older(@), !.updated = Older(@)].status = w.status
    BY <1>3 DEF Upload
  <2> QED BY <2>1, <2>3, <2>4, NoneAssumption DEF Aged
<1> QED BY <1>2, <1>3

LEMMA TickOK ==
    ASSUME MInv, Tick
    PROVE  MInv'
<1> USE NoneAssumption
<1> DEFINE snap == [u \in Uploads |-> Aged(cleaner.snap[u])]
<1>1. /\ uploads' = [u \in Uploads |-> Aged(uploads[u])]
      /\ cleaner' = [cleaner EXCEPT !.snap = snap]
      /\ UNCHANGED <<bucket, parts, object, stale, files, blobs, used, lock, req, phase, crashes,
                     served, faults>>
  BY DEF Tick, Aged, disk, process
<1>2. TypeOK
  BY DEF MInv
<1>3. cleaner \in Cleaner /\ CleanerOK /\ cleaner.snap \in Snaps
  BY CurrentCleaner, CleanerFields
<1>4. /\ uploads' \in [Uploads -> Upload \cup {None}]
      /\ \A u \in Uploads : uploads'[u] = None <=> uploads[u] = None
      /\ \A u \in Uploads : uploads[u] # None => uploads'[u].status = uploads[u].status
  BY <1>1, <1>2, AgedOK DEF TypeOK
<1>5. snap \in Snaps /\ \A u \in Uploads : snap[u] = None <=> cleaner.snap[u] = None
  BY <1>3, AgedOK DEF Snaps
<1> HIDE DEF snap
<1>6. /\ cleaner' \in Cleaner /\ cleaner'.pc = cleaner.pc /\ cleaner'.snap = snap
      /\ cleaner'.upload = cleaner.upload
  BY <1>1, <1>3, <1>5, CleanerFields
<1>7. cleaner'.claimed = cleaner.claimed
  BY <1>1, <1>3, CleanerFields
<1>8. TypeOK'
  BY <1>1, <1>2, <1>4, <1>6 DEF TypeOK
<1>9. DrawnOK'
  BY <1>1, <1>4 DEF MInv, DrawnOK
<1>10. Kept({})
  BY <1>1, <1>4 DEF Kept, Visible
<1>11. RequestsOK' /\ OwnersApart'
  BY <1>1, <1>10, OtherStep
<1>12. CleanerOK'
  BY <1>1, <1>3, <1>4, <1>5, <1>6, <1>7 DEF CleanerOK
<1>13. ClaimsOK'
  <2>1. \A v \in Uploads : Claimants(v)' = Claimants(v)
    BY <1>1 DEF Claimants
  <2>2. \A v \in Uploads : CleanerClaims(v)' => CleanerClaims(v)
    BY <1>6, <1>7 DEF CleanerClaims
  <2> QED BY <1>1, <1>4, <2>1, <2>2, ClaimsKept DEF MInv
<1>14. Free({}) /\ \A v \in Uploads, n \in PartNumbers : parts'[v][n] \in {parts[v][n], None}
  BY <1>1 DEF Free
<1>15. PartRowsHaveFiles' /\ RowPathsApart' /\ ObjectHasFile'
  BY <1>1, <1>9, <1>10, <1>14, RowsKept
<1>16. StartingOK'
  <2> SUFFICES ASSUME phase = "starting" PROVE cleaner' = Sleeping
    BY <1>1 DEF MInv, StartingOK
  <2>1. cleaner = Sleeping
    BY DEF MInv, StartingOK
  <2>2. snap = cleaner.snap
    BY <2>1 DEF snap, Aged, Sleeping
  <2> QED BY <1>1, <2>1, <2>2 DEF Sleeping
<1> QED BY <1>8, <1>9, <1>11, <1>12, <1>13, <1>15, <1>16 DEF MInv

LEMMA CrashOK ==
    ASSUME MInv, Crash
    PROVE  MInv'
<1>1. /\ phase' = "starting" /\ req' = [r \in Requests |-> Idle] /\ cleaner' = Sleeping
      /\ stale' = {} /\ lock' = [u \in Uploads |-> None]
      /\ crashes < MaxCrashes /\ crashes' = crashes + 1
      /\ UNCHANGED <<bucket, uploads, parts, object, files, blobs, used, served, faults>>
  BY DEF Crash, db, disk
<1>2. \A r \in Requests : req'[r] = Idle
  BY <1>1
<1>3. TypeOK'
  <2>1. crashes' \in 0..MaxCrashes
    BY <1>1, ConstantsAssumption DEF MInv, TypeOK
  <2>2. req' \in [Requests -> Request] /\ cleaner' \in Cleaner
    BY <1>1, IdleOK, SleepingFields
  <2> QED BY <1>1, <2>1, <2>2 DEF MInv, TypeOK
<1>4. RequestsOK'
  BY <1>2, IdleNext DEF RequestsOK
<1>5. OwnersApart'
  <2>1. \A r \in Requests : req'[r].pc = "idle"
    BY <1>2 DEF Idle
  <2>2. \A r \in Requests : Owned(req[r])' = {}
    BY <2>1 DEF Owned
  <2> QED BY <2>2 DEF OwnersApart
<1>6. CleanerOK'
  BY <1>1, SleepingFields, NoneAssumption DEF CleanerOK
<1>7. DrawnOK'
  BY <1>1 DEF MInv, DrawnOK
<1>8. Kept({})
  BY <1>1 DEF Kept
<1>9. Free({}) /\ \A v \in Uploads, n \in PartNumbers : parts'[v][n] \in {parts[v][n], None}
  BY <1>1 DEF Free
<1>10. PartRowsHaveFiles' /\ RowPathsApart' /\ ObjectHasFile'
  BY <1>1, <1>7, <1>8, <1>9, RowsKept
<1>11. StartingOK'
  <2>1. crashes' # 0
    BY <1>1 DEF MInv, TypeOK
  <2> QED BY <1>1, <1>2, <2>1 DEF StartingOK
<1>12. ClaimsOK'
  <2>1. \A u \in Uploads : Claimants(u)' = {}
    BY <1>2 DEF Claimants, Idle
  <2>2. \A u \in Uploads : ~CleanerClaims(u)'
    BY <1>1 DEF CleanerClaims, Sleeping
  <2> QED BY <2>1, <2>2 DEF ClaimsOK
<1> QED BY <1>3, <1>4, <1>5, <1>6, <1>7, <1>10, <1>11, <1>12 DEF MInv

LEMMA ReconcileFileOK ==
    ASSUME MInv, NEW p \in Paths, ReconcileFile(p)
    PROVE  MInv'
<1> USE NoneAssumption
<1>1. /\ phase = "starting" /\ Orphan(p)
      /\ files' = [files EXCEPT ![p] = None] /\ blobs' = [blobs EXCEPT ![p] = None]
      /\ UNCHANGED <<bucket, uploads, parts, object, stale, used, lock, req, cleaner, phase,
                     crashes, served, faults>>
  BY DEF ReconcileFile, db, process
<1>2. TypeOK
  BY DEF MInv
<1>3. /\ files' \in [Paths -> PartFile \cup {None}] /\ blobs' \in [Paths -> Manifest \cup {None}]
      /\ files'[p] = None /\ blobs'[p] = None
      /\ \A x \in Paths : x # p => files'[x] = files[x] /\ blobs'[x] = blobs[x]
  BY <1>1, <1>2 DEF TypeOK
<1>4. TypeOK'
  BY <1>1, <1>2, <1>3 DEF TypeOK
<1>5. stale = {} /\ cleaner = Sleeping /\ \A r \in Requests : req[r] = Idle
  BY <1>1 DEF MInv, StartingOK
<1>6. \A u \in Uploads, n \in PartNumbers : parts[u][n] # None => parts[u][n].path # p
  <2> SUFFICES ASSUME NEW u \in Uploads, NEW n \in PartNumbers, parts[u][n] # None,
                      parts[u][n].path = p
               PROVE  FALSE
    OBVIOUS
  <2>1. files[parts[u][n].path] = [upload |-> u, body |-> parts[u][n].etag]
    BY DEF MInv, PartRowsHaveFiles
  <2>2. files[p] = [upload |-> u, body |-> parts[u][n].etag] /\ parts[u][n] \in Part
    BY <1>2, <2>1 DEF TypeOK
  <2>3. files[p] \in PartFile
    BY <2>2 DEF PartFile, Part
  <2>4. blobs[p] = None /\ uploads[u] # None
    BY <2>3 DEF MInv, DrawnOK
  <2> QED BY <1>1, <2>2, <2>4 DEF Orphan
<1>7. object # None => object.path # p
  <2> SUFFICES ASSUME object # None, object.path = p PROVE FALSE
    OBVIOUS
  <2>1. object \in Visible /\ object.etag \in Manifest
    BY <1>2 DEF Visible, TypeOK, Object
  <2>2. blobs[p] # None
    BY <2>1 DEF MInv, ObjectHasFile
  <2>3. files[p] = None
    BY <2>2 DEF MInv, DrawnOK
  <2> QED BY <1>1, <2>3 DEF Orphan
<1>8. Free({p})
  BY <1>5, <1>6, <1>7 DEF Free
<1>9. DrawnOK'
  BY <1>1, <1>3 DEF MInv, DrawnOK
<1>10. Kept({p})
  BY <1>1, <1>3 DEF Kept, Visible
<1>11. PartRowsHaveFiles' /\ RowPathsApart' /\ ObjectHasFile'
  <2>1. \A v \in Uploads, n \in PartNumbers : parts'[v][n] \in {parts[v][n], None}
    BY <1>1
  <2> QED BY <1>1, <1>8, <1>9, <1>10, <2>1, RowsKept
<1>12. \A r \in Requests : req'[r] = Idle
  BY <1>1, <1>5
<1>13. RequestsOK'
  BY <1>12, IdleNext DEF RequestsOK
<1>14. OwnersApart'
  <2>1. \A r \in Requests : req'[r].pc = "idle"
    BY <1>12 DEF Idle
  <2>2. \A r \in Requests : Owned(req[r])' = {}
    BY <2>1 DEF Owned
  <2> QED BY <2>2 DEF OwnersApart
<1>15. CleanerOK' /\ StartingOK' /\ ClaimsOK'
  BY <1>1 DEF MInv, CleanerOK, StartingOK, ClaimsOK, Claimants, CleanerClaims, Is
<1> QED BY <1>4, <1>9, <1>11, <1>13, <1>14, <1>15 DEF MInv

LEMMA ServeOK ==
    ASSUME MInv, Serve
    PROVE  MInv'
<1>1. /\ phase' = "serving"
      /\ UNCHANGED <<bucket, uploads, parts, object, stale, files, blobs, used, lock, req, cleaner,
                     crashes, served, faults>>
  BY DEF Serve, db, disk
<1>2. TypeOK'
  BY <1>1 DEF MInv, TypeOK
<1>3. Kept({})
  BY <1>1 DEF Kept, Visible
<1>4. RequestsOK' /\ OwnersApart'
  BY <1>1, <1>3, OtherStep
<1>5. CleanerOK' /\ DrawnOK' /\ RowPathsApart' /\ PartRowsHaveFiles' /\ ObjectHasFile'
  BY <1>1 DEF MInv, CleanerOK, DrawnOK, RowPathsApart, PartRowsHaveFiles, ObjectHasFile, Visible
<1>6. StartingOK' /\ ClaimsOK'
  BY <1>1 DEF MInv, StartingOK, ClaimsOK, Claimants, CleanerClaims, Is
<1> QED BY <1>2, <1>4, <1>5, <1>6 DEF MInv

-----------------------------------------------------------------------------
(* The invariant                                                           *)

LEMMA MInit ==
    ASSUME Init PROVE MInv
<1> USE NoneAssumption
<1>1. /\ uploads = [u \in Uploads |-> None] /\ stale = {}
      /\ object \in Object \cup {None} /\ used = {w.path : w \in {object} \ {None}}
      /\ parts = [u \in Uploads |-> [n \in PartNumbers |-> None]]
      /\ files = [p \in Paths |-> None]
      /\ blobs = [p \in Paths |-> IF object # None /\ p = object.path
                                  THEN object.etag ELSE None]
      /\ req = [r \in Requests |-> Idle] /\ cleaner = Sleeping
  BY ExistingAssumption DEF Init
<1>2. /\ \A u \in Uploads : uploads[u] = None
      /\ \A u \in Uploads, n \in PartNumbers : parts[u][n] = None
      /\ \A p \in Paths : files[p] = None
      /\ \A r \in Requests : req[r] = Idle
  BY <1>1
<1>8. object # None => object.path \in Paths /\ object.etag \in Manifest
  BY <1>1 DEF Object
<1>9. used \subseteq Paths /\ \A p \in Paths : blobs[p] # None => p \in used
  BY <1>1, <1>8
<1>3. TypeOK
  <2>1. req \in [Requests -> Request] /\ cleaner \in Cleaner
    BY <1>1, IdleOK, SleepingFields
  <2>2. /\ uploads \in [Uploads -> Upload \cup {None}]
        /\ parts \in [Uploads -> [PartNumbers -> Part \cup {None}]]
        /\ files \in [Paths -> PartFile \cup {None}] /\ blobs \in [Paths -> Manifest \cup {None}]
    BY <1>1, <1>8
  <2> QED BY <1>1, <1>9, <2>1, <2>2, ConstantsAssumption DEF Init, TypeOK
<1>4. RequestsOK /\ OwnersApart
  BY <1>2, IdleOK DEF RequestsOK, OwnersApart
<1>5. CleanerOK
  BY <1>1, SleepingFields DEF CleanerOK
<1>6. DrawnOK /\ RowPathsApart /\ PartRowsHaveFiles /\ ClaimsOK
  BY <1>2, <1>9 DEF DrawnOK, RowPathsApart, PartRowsHaveFiles, ClaimsOK
<1>7. StartingOK /\ ObjectHasFile
  BY <1>1, <1>2, <1>8 DEF StartingOK, ObjectHasFile, Visible
<1> QED BY <1>3, <1>4, <1>5, <1>6, <1>7 DEF MInv

LEMMA MNext ==
    ASSUME MInv, [Next]_vars PROVE MInv'
<1>1. ASSUME NEW u \in Uploads, CreateMultipartUpload(u) PROVE MInv'
  BY <1>1, CreateMultipartUploadOK
<1>2. ASSUME NEW r \in Requests, StartUpload(r) \/ StartDrop(r) PROVE MInv'
  BY <1>2, StartUploadOK, StartDropOK
<1>3. ASSUME NEW r \in Requests, Continue(r) PROVE MInv'
  <2>1. CASE LockUpload(r)
    BY <2>1, LockUploadOK
  <2>2. CASE CreatePart(r) \/ FillPart(r) \/ WritePartFails(r)
    BY <2>2, CreatePartOK, FillPartOK, WritePartFailsOK
  <2>3. CASE BadDigest(r) \/ AddPart(r) \/ AddPartRefused(r)
    BY <2>3, BadDigestOK, AddPartOK, AddPartRefusedOK
  <2>4. CASE Sweep(r)
    BY <2>4, SweepOK
  <2>5. CASE ClaimUpload(r) \/ ClaimRefused(r) \/ ListParts(r) \/ ListPartsRefused(r)
    BY <2>5, ClaimUploadOK, ClaimRefusedOK, ListPartsOK, ListPartsRefusedOK
  <2>6. CASE CopyPart(r) \/ Assembled(r) \/ AssembleFails(r)
    BY <2>6, CopyPartOK, AssembledOK, AssembleFailsOK
  <2>7. CASE CompleteUpload(r) \/ CompleteRefused(r) \/ Evict(r)
    BY <2>7, CompleteUploadOK, CompleteRefusedOK, EvictOK
  <2>8. CASE DeleteRow(r) \/ DeleteRowFails(r) \/ Release(r)
    BY <2>8, DeleteRowOK, DeleteRowFailsOK, ReleaseOK
  <2>9. CASE PurgeFile(r) \/ Purged(r)
    BY <2>9, PurgeFileOK, PurgedOK
  <2>10. CASE CheckEmpty(r) \/ ListUploads(r) \/ NextUpload(r) \/ DropFails(r) \/ DropBucket(r)
    BY <2>10, CheckEmptyOK, ListUploadsOK, NextUploadOK, DropFailsOK, DropBucketOK
  <2> QED BY <1>3, <2>1, <2>2, <2>3, <2>4, <2>5, <2>6, <2>7, <2>8, <2>9, <2>10 DEF Continue
<1>4. CASE Cleanup
  BY <1>4, ListStaleOK, PickStaleOK, ClaimStaleOK, DeleteStaleOK, DeleteStaleFailsOK,
     ResetStaleOK, PurgeStaleOK DEF Cleanup
<1>5. CASE Tick
  BY <1>5, TickOK
<1>6. CASE Crash
  BY <1>6, CrashOK
<1>7. CASE Restart
  BY <1>7, ReconcileFileOK, ServeOK DEF Restart
<1>8. CASE UNCHANGED vars
  <2>1. UNCHANGED <<bucket, uploads, parts, object, stale, files, blobs, used, lock, req, cleaner,
                    phase, crashes, served, faults>>
    BY <1>8 DEF vars, db, disk, process
  <2>2. TypeOK'
    BY <2>1 DEF MInv, TypeOK
  <2>3. RequestsOK' /\ OwnersApart'
    <3>1. Kept({})
      BY <2>1 DEF Kept, Visible
    <3> QED BY <2>1, <3>1, OtherStep
  <2>4. CleanerOK' /\ DrawnOK' /\ RowPathsApart' /\ PartRowsHaveFiles' /\ ObjectHasFile'
    BY <2>1 DEF MInv, CleanerOK, DrawnOK, RowPathsApart, PartRowsHaveFiles, ObjectHasFile, Visible
  <2>5. StartingOK' /\ ClaimsOK'
    BY <2>1 DEF MInv, StartingOK, ClaimsOK, Claimants, CleanerClaims, Is
  <2> QED BY <2>2, <2>3, <2>4, <2>5 DEF MInv
<1> QED BY <1>1, <1>2, <1>3, <1>4, <1>5, <1>6, <1>7, <1>8 DEF Next

\* The inductive invariant holds in every reachable state.
THEOREM MultipartInvariant == Spec => []MInv
  BY MInit, MNext, PTL DEF Spec

\* Every variable, every request and the cleanup keep their shape.
THEOREM MultipartTypes == Spec => []TypeOK
<1>1. MInv => TypeOK
  BY DEF MInv
<1> QED BY <1>1, MultipartInvariant, PTL

\* The row of a part always has its complete file in its upload's directory,
\* whatever part uploads, completions, aborts, the cleanup, bucket deletions,
\* I/O errors and crashes do at once: rows are deleted before files, a file is
\* handed to a row complete, and a replaced row's file goes only after the row.
THEOREM PartRowsHaveFilesHolds == Spec => []PartRowsHaveFiles
<1>1. MInv => PartRowsHaveFiles
  BY DEF MInv
<1> QED BY <1>1, MultipartInvariant, PTL

\* Every object row a reader may be given, cached rows included, has its file,
\* and the file holds the parts that its multipart ETag digests.
THEOREM ObjectHasFileHolds == Spec => []ObjectHasFile
<1>1. MInv => ObjectHasFile
  BY DEF MInv
<1> QED BY <1>1, MultipartInvariant, PTL

\* While an upload's row exists at most one request or the cleanup holds a
\* claim on it, and the row has the status its holder gave it.
THEOREM ClaimsExcludeHolds == Spec => []ClaimsExclude
<1>1. ASSUME MInv PROVE ClaimsExclude
  <2> SUFFICES ASSUME NEW u \in Uploads, uploads[u] # None
               PROVE  /\ \A r \in Claimants(u) : Is(u, ClaimStatus(req[r].op))
                      /\ CleanerClaims(u) => Is(u, "aborted")
                      /\ Cardinality(Claimants(u)) + (IF CleanerClaims(u) THEN 1 ELSE 0) <= 1
    BY DEF ClaimsExclude
  <2>1. /\ \A r \in Claimants(u) : Is(u, ClaimStatus(req[r].op))
        /\ CleanerClaims(u) => Is(u, "aborted") /\ Claimants(u) = {}
        /\ \A r, s \in Claimants(u) : r = s
    BY <1>1 DEF MInv, ClaimsOK
  <2>2. CASE Claimants(u) = {}
    <3>1. Cardinality(Claimants(u)) = 0
      BY <2>2, FS_EmptySet
    <3> QED BY <2>1, <3>1
  <2>3. CASE Claimants(u) # {}
    <3>1. PICK r : r \in Claimants(u)
      BY <2>3
    <3>2. Claimants(u) = {r}
      BY <2>1, <3>1
    <3>3. Cardinality(Claimants(u)) = 1
      BY <3>2, FS_Singleton
    <3> QED BY <2>1, <2>3, <3>3
  <2> QED BY <2>2, <2>3
<1> QED BY <1>1, MultipartInvariant, PTL

-----------------------------------------------------------------------------
(* What a commit does                                                      *)

\* A handler moves only itself.
LEMMA OthersStay ==
    ASSUME TypeOK, NEW s \in Requests, StartUpload(s) \/ StartDrop(s) \/ Continue(s),
           NEW r \in Requests, r # s
    PROVE  req'[r] = req[r]
<1>1. ASSUME NEW f, Go(s, f) PROVE req'[r] = req[r]
  BY <1>1 DEF Go, TypeOK
<1>2. ASSUME End(s) PROVE req'[r] = req[r]
  BY <1>2 DEF End, TypeOK
<1> HIDE DEF Go, End
<1>3. CASE StartUpload(s)
  BY <1>1, <1>3, ZenonT(60) DEF StartUpload, Start
<1>4. CASE StartDrop(s)
  BY <1>1, <1>4 DEF StartDrop, Start
<1>5. CASE LockUpload(s)
  <2>1. CASE End(s)
    BY <1>2, <2>1
  <2>2. ASSUME NEW pc, req' = [req EXCEPT ![s].pc = pc] PROVE req'[r] = req[r]
    BY <2>2 DEF TypeOK
  <2> QED BY <1>5, <2>1, <2>2 DEF LockUpload
<1>6. CASE CreatePart(s) \/ FillPart(s) \/ WritePartFails(s)
  BY <1>1, <1>2, <1>6 DEF CreatePart, FillPart, WritePartFails
<1>7. CASE BadDigest(s) \/ AddPart(s) \/ AddPartRefused(s)
  BY <1>1, <1>7 DEF BadDigest, AddPart, AddPartRefused
<1>8. CASE Sweep(s)
  BY <1>1, <1>2, <1>8 DEF Sweep
<1>9. CASE ClaimUpload(s) \/ ClaimRefused(s) \/ ListParts(s) \/ ListPartsRefused(s)
  BY <1>1, <1>2, <1>9, ZenonT(60) DEF ClaimUpload, ClaimRefused, ListParts, ListPartsRefused
<1>10. CASE CopyPart(s) \/ Assembled(s) \/ AssembleFails(s)
  BY <1>1, <1>10 DEF CopyPart, Assembled, AssembleFails
<1>11. CASE CompleteUpload(s) \/ CompleteRefused(s) \/ Evict(s)
  BY <1>1, <1>11 DEF CompleteUpload, CompleteRefused, Evict
<1>12. CASE DeleteRow(s) \/ DeleteRowFails(s) \/ Release(s)
  BY <1>1, <1>2, <1>12 DEF DeleteRow, DeleteRowFails, Release
<1>13. CASE PurgeFile(s) \/ Purged(s)
  BY <1>1, <1>2, <1>13 DEF PurgeFile, Purged
<1>14. CASE CheckEmpty(s) \/ ListUploads(s) \/ NextUpload(s) \/ DropFails(s) \/ DropBucket(s)
  BY <1>1, <1>2, <1>14 DEF CheckEmpty, ListUploads, NextUpload, DropFails, DropBucket
<1> QED BY <1>3, <1>4, <1>5, <1>6, <1>7, <1>8, <1>9, <1>10, <1>11, <1>12, <1>13, <1>14 DEF Continue

\* From the commit a request goes on to evict only if it has committed.
LEMMA OnlyCommitEvicts ==
    ASSUME MInv, [Next]_vars, NEW r \in Requests, req[r].pc = "commit", req'[r].pc = "evict"
    PROVE  CompleteUpload(r)
<1>1. req'[r] # req[r] /\ TypeOK
  BY DEF MInv
<1>2. req' # req
  BY <1>1
<1>3. PICK s \in Requests : StartUpload(s) \/ StartDrop(s) \/ Continue(s)
  <2>1. CASE UNCHANGED vars
    BY <1>2, <2>1 DEF vars
  <2>2. ASSUME NEW u \in Uploads, CreateMultipartUpload(u) PROVE FALSE
    BY <1>2, <2>2 DEF CreateMultipartUpload
  <2>3. CASE Cleanup
    BY <1>2, <2>3 DEF Cleanup, ListStale, PickStale, ClaimStale, DeleteStale, DeleteStaleFails,
          ResetStale, PurgeStale, cleanerOnly
  <2>4. CASE Tick
    BY <1>2, <2>4 DEF Tick
  <2>5. CASE Crash
    <3>1. req'[r].pc = "idle"
      BY <2>5 DEF Crash, Idle
    <3> QED BY <3>1
  <2>6. CASE Restart
    BY <1>2, <2>6 DEF Restart, ReconcileFile, Serve
  <2> QED BY <2>1, <2>2, <2>3, <2>4, <2>5, <2>6 DEF Next
<1>4. s = r
  BY <1>1, <1>3, OthersStay
<1>5. CompleteUpload(r) \/ CompleteRefused(r)
  <2>1. ~StartUpload(r) /\ ~StartDrop(r)
    BY DEF StartUpload, StartDrop, Start
  <2>2. /\ ~LockUpload(r) /\ ~CreatePart(r) /\ ~FillPart(r) /\ ~WritePartFails(r)
        /\ ~BadDigest(r) /\ ~AddPart(r) /\ ~AddPartRefused(r) /\ ~Sweep(r)
    BY DEF LockUpload, CreatePart, FillPart, WritePartFails, BadDigest, AddPart, AddPartRefused,
           Sweep
  <2>3. /\ ~ClaimUpload(r) /\ ~ClaimRefused(r) /\ ~ListParts(r) /\ ~ListPartsRefused(r)
        /\ ~CopyPart(r) /\ ~Assembled(r) /\ ~AssembleFails(r) /\ ~Evict(r)
    BY DEF ClaimUpload, ClaimRefused, ListParts, ListPartsRefused, CopyPart, Assembled,
           AssembleFails, Evict
  <2>4. /\ ~DeleteRow(r) /\ ~DeleteRowFails(r) /\ ~Release(r) /\ ~PurgeFile(r) /\ ~Purged(r)
        /\ ~CheckEmpty(r) /\ ~ListUploads(r) /\ ~NextUpload(r) /\ ~DropFails(r) /\ ~DropBucket(r)
    BY DEF DeleteRow, DeleteRowFails, Release, PurgeFile, Purged, CheckEmpty, ListUploads,
           NextUpload, DropFails, DropBucket
  <2> QED BY <1>3, <1>4, <2>1, <2>2, <2>3, <2>4 DEF Continue
<1>6. ~CompleteRefused(r)
  <2> DEFINE q == req[r]
             i == Sweeping(q, {q.path}, "idle")
             f == Sweeping(q, {q.path}, "release")
             g == [i EXCEPT !.claim = FALSE]
  <2> SUFFICES ASSUME CompleteRefused(r) PROVE FALSE
    OBVIOUS
  <2>1. Go(r, f) \/ Go(r, g)
    BY DEF CompleteRefused
  <2>2. q \in Request /\ q.path \in Paths /\ "idle" \in ThenPCs /\ "release" \in ThenPCs
    BY Current DEF RequestOK, ShapeOK, ThenPCs
  <2>3. f.pc = "sweep" /\ i \in Request /\ i.pc = "sweep"
    BY <2>2, SweepingFields
  <2> HIDE DEF i, f
  <2>4. g.pc = "sweep"
    BY <2>3, RequestFields
  <2> HIDE DEF g
  <2>5. req'[r] = f \/ req'[r] = g
    BY <1>1, <2>1 DEF Go, TypeOK
  <2> QED BY <2>3, <2>4, <2>5
<1> QED BY <1>5, <1>6

\* A commit writes exactly the parts its client named, and every one of them is
\* stored, with the ETag named, at the moment of the commit.
THEOREM CommitsWhatWasNamedHolds == Spec => CommitsWhatWasNamed
<1> DEFINE A(r) == /\ req[r].pc = "commit"
                   /\ req'[r].pc = "evict"
                   => /\ object'.etag = req[r].want
                      /\ blobs'[object'.path] = req[r].want
                      /\ \A n \in DOMAIN req[r].want :
                            parts[req[r].upload][n] # None
                            /\ parts[req[r].upload][n].etag = req[r].want[n]
<1>1. ASSUME MInv, [Next]_vars, NEW r \in Requests PROVE A(r)
  <2> SUFFICES ASSUME req[r].pc = "commit", req'[r].pc = "evict"
               PROVE  /\ object'.etag = req[r].want
                      /\ blobs'[object'.path] = req[r].want
                      /\ \A n \in DOMAIN req[r].want :
                            parts[req[r].upload][n] # None
                            /\ parts[req[r].upload][n].etag = req[r].want[n]
    OBVIOUS
  <2> DEFINE q == req[r]
  <2>1. CompleteUpload(r)
    BY <1>1, OnlyCommitEvicts
  <2>2. object' = NewObject(q) /\ Is(q.upload, "completing") /\ blobs' = blobs
    BY <2>1 DEF CompleteUpload, disk
  <2>3. object' = [path |-> q.path, etag |-> q.want] /\ blobs[q.path] = q.want
    BY <1>1, <2>2, NewObjectIs
  <2>4. q \in Request /\ CopyOK(q) /\ q.upload \in Uploads /\ q.want \in Manifest
    BY <1>1, Current DEF RequestOK, ShapeOK, NoUpload
  <2>5. ASSUME NEW n \in DOMAIN q.want
        PROVE  parts[q.upload][n] # None /\ parts[q.upload][n].etag = q.want[n]
    <3>1. /\ q.rows # None /\ DOMAIN q.rows = DOMAIN q.want
          /\ parts[q.upload][n] = q.rows[n] /\ q.rows[n].etag = q.want[n]
      BY <2>2, <2>4 DEF CopyOK, Is
    <3>2. q.rows \in UNION {[S -> Part] : S \in SUBSET PartNumbers}
      BY <2>4, <3>1 DEF Request
    <3>3. q.rows[n] \in Part
      BY <3>1, <3>2
    <3> QED BY <3>1, <3>3, NoneAssumption
  <2> QED BY <2>2, <2>3, <2>5
<1>2. ASSUME MInv, [Next]_vars PROVE [\A r \in Requests : A(r)]_vars
  BY <1>1, <1>2
<1> QED BY <1>2, MultipartInvariant, PTL DEF Spec, CommitsWhatWasNamed

\* Only a commit writes the object's row.
LEMMA OnlyCommitWrites ==
    ASSUME [Next]_vars, object' # object
    PROVE  \E r \in Requests : CompleteUpload(r)
<1>1. CASE UNCHANGED vars
  BY <1>1 DEF vars, db
<1>2. ASSUME NEW u \in Uploads, CreateMultipartUpload(u) PROVE FALSE
  BY <1>2 DEF CreateMultipartUpload
<1>3. CASE Cleanup
  BY <1>3 DEF Cleanup, ListStale, PickStale, ClaimStale, DeleteStale, DeleteStaleFails,
        ResetStale, PurgeStale, cleanerOnly, db
<1>4. CASE Tick \/ Crash \/ Restart
  BY <1>4 DEF Tick, Crash, Restart, ReconcileFile, Serve, db
<1>5. ASSUME NEW r \in Requests, StartUpload(r) \/ StartDrop(r) PROVE FALSE
  BY <1>5 DEF StartUpload, StartDrop, Start, db
<1>6. ASSUME NEW r \in Requests, Continue(r) PROVE CompleteUpload(r)
  <2>1. /\ ~LockUpload(r) /\ ~CreatePart(r) /\ ~FillPart(r) /\ ~WritePartFails(r)
        /\ ~BadDigest(r) /\ ~AddPart(r) /\ ~AddPartRefused(r) /\ ~Sweep(r)
    BY ZenonT(60) DEF LockUpload, CreatePart, FillPart, WritePartFails, BadDigest, AddPart,
                      AddPartRefused,
           Sweep, db
  <2>2. /\ ~ClaimUpload(r) /\ ~ClaimRefused(r) /\ ~ListParts(r) /\ ~ListPartsRefused(r)
        /\ ~CopyPart(r) /\ ~Assembled(r) /\ ~AssembleFails(r) /\ ~CompleteRefused(r) /\ ~Evict(r)
    BY DEF ClaimUpload, ClaimRefused, ListParts, ListPartsRefused, CopyPart, Assembled,
           AssembleFails, CompleteRefused, Evict, db
  <2>3. /\ ~DeleteRow(r) /\ ~DeleteRowFails(r) /\ ~Release(r) /\ ~PurgeFile(r) /\ ~Purged(r)
        /\ ~CheckEmpty(r) /\ ~ListUploads(r) /\ ~NextUpload(r) /\ ~DropFails(r) /\ ~DropBucket(r)
    BY DEF DeleteRow, DeleteRowFails, Release, PurgeFile, Purged, CheckEmpty, ListUploads,
           NextUpload, DropFails, DropBucket, db
  <2> QED BY <1>6, <2>1, <2>2, <2>3 DEF Continue
<1> QED BY <1>1, <1>2, <1>3, <1>4, <1>5, <1>6 DEF Next

\* An upload yields at most one object: every commit takes the row of an upload
\* that was being completed, and no ID is drawn twice.
THEOREM CommittedOnceHolds == Spec => CommittedOnce
<1>1. ASSUME MInv, [Next]_vars, object' # object
      PROVE  \E u \in Uploads : Is(u, "completing") /\ uploads'[u] = None
  <2>1. PICK r \in Requests : CompleteUpload(r)
    BY <1>1, OnlyCommitWrites
  <2>2. req[r].pc = "commit" /\ Is(req[r].upload, "completing") /\ DeleteUpload(req[r].upload)
    BY <2>1 DEF CompleteUpload
  <2>3. req[r].upload \in Uploads /\ TypeOK
    BY <1>1, <2>2, Current DEF RequestOK, ShapeOK, NoUpload
  <2>4. uploads'[req[r].upload] = None
    BY <2>2, <2>3, DeleteRows
  <2> QED BY <2>2, <2>3, <2>4
<1>2. ASSUME MInv, [Next]_vars
      PROVE  [object' # object =>
                \E u \in Uploads : /\ Is(u, "completing")
                                   /\ uploads'[u] = None]_vars
  BY <1>1, <1>2
<1> QED BY <1>2, MultipartInvariant, PTL DEF Spec, CommittedOnce

-----------------------------------------------------------------------------
(* No file is left over                                                    *)

\* The request removes the directory of its upload.
Purging(q) == q.pc = "purge" \/ (q.pc \in {"evict", "sweep"} /\ q.then = "purge")

PurgedBy(u) ==
    \/ \E r \in Requests : Purging(req[r]) /\ req[r].upload = u
    \/ cleaner.pc = "purge" /\ cleaner.upload = u

\* Someone answers for the part file at p: its row, its upload after a crash, or
\* whoever removes the directory.
FileAnswered(p) ==
    files[p] # None =>
        \/ \E n \in PartNumbers : parts[files[p].upload][n] # None
                                  /\ parts[files[p].upload][n].path = p
        \/ crashes > 0 /\ uploads[files[p].upload] # None
        \/ PurgedBy(files[p].upload)

BlobAnswered(p) == blobs[p] # None => object # None /\ object.path = p

InOrder(p) ==
    \/ \E r \in Requests : p \in Owned(req[r])
    \/ FileAnswered(p) /\ BlobAnswered(p)

Covered == \A p \in Paths : InOrder(p)
LeakFree == phase = "serving" /\ faults = 0 => Covered

LEMMA HeldIs ==
    ASSUME NEW q, NEW p \in Paths
    PROVE  p \in Held(q) <=> \/ p \in Owned(q)
                             \/ Purging(q) /\ files[p] # None /\ files[p].upload = q.upload
  BY DEF Held, Owned, Purging, FilesOf

\* A path has a part file or an object's, never both: so whoever removes the
\* directory of a part file answers for its path.
LEMMA NoLeakIs ==
    ASSUME MInv
    PROVE  NoLeak <=> LeakFree
<1>1. ASSUME NEW p \in Paths
      PROVE  (\/ \E r \in Requests : p \in Held(req[r])
              \/ /\ files[p] # None => LET u == files[p].upload IN
                      \/ \E n \in PartNumbers : parts[u][n] # None /\ parts[u][n].path = p
                      \/ crashes > 0 /\ uploads[u] # None
                      \/ cleaner.pc = "purge" /\ cleaner.upload = u
                 /\ blobs[p] # None => object # None /\ object.path = p)
             <=> InOrder(p)
  <2>1. files[p] = None \/ blobs[p] = None
    BY DEF MInv, DrawnOK
  <2>2. (\E r \in Requests : p \in Held(req[r]))
        <=> \/ \E r \in Requests : p \in Owned(req[r])
            \/ files[p] # None /\ \E r \in Requests : Purging(req[r])
                                                      /\ req[r].upload = files[p].upload
    BY HeldIs
  <2> QED BY <2>1, <2>2 DEF InOrder, FileAnswered, BlobAnswered, PurgedBy
<1> QED BY <1>1 DEF NoLeak, LeakFree, Covered

\* A step of request r covers every path again if it changes only paths that it
\* then owns, lets go only of what is settled, and removes the directory of
\* every upload whose rows it deletes.
LEMMA RequestCovers ==
    ASSUME TypeOK, Covered, NEW r \in Requests, NEW f, req' = [req EXCEPT ![r] = f],
           crashes' = crashes, cleaner' = cleaner,
           \A p \in Paths : files'[p] \in {files[p], None} \/ p \in Owned(f),
           \A p \in Paths : blobs'[p] \in {blobs[p], None} \/ p \in Owned(f),
           \A p \in Owned(req[r]) :
                p \in Owned(f) \/ (FileAnswered(p)' /\ BlobAnswered(p)'),
           \A u \in Uploads :
                \/ /\ uploads[u] # None => uploads'[u] # None
                   /\ \A n \in PartNumbers : parts[u][n] # None =>
                        parts'[u][n] = parts[u][n] \/ parts[u][n].path \in Owned(f)
                \/ Purging(f) /\ f.upload = u,
           object # None => object' = object \/ object.path \in Owned(f),
           Purging(req[r]) => \/ Purging(f) /\ f.upload = req[r].upload
                              \/ FilesOf(req[r].upload) = {}
    PROVE  Covered'
<1> SUFFICES ASSUME NEW p \in Paths PROVE InOrder(p)'
  BY DEF Covered
<1>1. req'[r] = f /\ \A s \in Requests : s # r => req'[s] = req[s]
  BY DEF TypeOK
<1>2. CASE p \in Owned(f)
  <2>1. p \in Owned(req'[r])
    BY <1>1, <1>2
  <2> QED BY <2>1 DEF InOrder, Owned
<1>3. CASE p \notin Owned(f) /\ \E s \in Requests : p \in Owned(req[s])
  <2>1. PICK s \in Requests : p \in Owned(req[s])
    BY <1>3
  <2>2. CASE s = r
    BY <1>3, <2>1, <2>2 DEF InOrder
  <2>3. CASE s # r
    <3>1. p \in Owned(req'[s])
      BY <1>1, <2>1, <2>3
    <3> QED BY <3>1 DEF InOrder, Owned
  <2> QED BY <2>2, <2>3
<1>4. CASE p \notin Owned(f) /\ FileAnswered(p) /\ BlobAnswered(p)
  <2>1. files'[p] \in {files[p], None} /\ blobs'[p] \in {blobs[p], None}
    BY <1>4
  <2>2. BlobAnswered(p)'
    BY <1>4, <2>1 DEF BlobAnswered
  <2>3. FileAnswered(p)'
    <3> SUFFICES ASSUME files'[p] # None PROVE FileAnswered(p)'
      BY DEF FileAnswered
    <3>1. files'[p] = files[p] /\ files[p] # None
      BY <2>1
    <3> PICK u : u = files[p].upload
      OBVIOUS
    <3>2. u \in Uploads
      BY <3>1 DEF TypeOK, PartFile
    <3>3. CASE PurgedBy(u)
      <4>1. CASE cleaner.pc = "purge" /\ cleaner.upload = u
        BY <3>1, <4>1 DEF FileAnswered, PurgedBy
      <4>2. ASSUME NEW s \in Requests, Purging(req[s]), req[s].upload = u PROVE FileAnswered(p)'
        <5>1. CASE s # r
          <6>1. Purging(req'[s]) /\ req'[s].upload = u
            BY <1>1, <4>2, <5>1
          <6> QED BY <3>1, <6>1 DEF FileAnswered, PurgedBy, Purging
        <5>2. CASE s = r
          <6>1. p \in FilesOf(req[r].upload)
            BY <3>1, <4>2, <5>2 DEF FilesOf
          <6>2. Purging(req'[r]) /\ req'[r].upload = u
            BY <1>1, <4>2, <5>2, <6>1
          <6> QED BY <3>1, <6>2 DEF FileAnswered, PurgedBy, Purging
        <5> QED BY <5>1, <5>2
      <4> QED BY <3>3, <4>1, <4>2 DEF PurgedBy
    <3>4. CASE Purging(f) /\ f.upload = u
      <4>1. Purging(req'[r]) /\ req'[r].upload = u
        BY <1>1, <3>4
      <4> QED BY <3>1, <4>1 DEF FileAnswered, PurgedBy, Purging
    <3>5. CASE /\ uploads[u] # None => uploads'[u] # None
               /\ \A n \in PartNumbers : parts[u][n] # None =>
                    parts'[u][n] = parts[u][n] \/ parts[u][n].path \in Owned(f)
      <4>1. CASE crashes > 0 /\ uploads[u] # None
        BY <3>1, <3>5, <4>1 DEF FileAnswered
      <4>2. ASSUME NEW n \in PartNumbers, parts[u][n] # None, parts[u][n].path = p
            PROVE  FileAnswered(p)'
        <5>1. parts'[u][n] = parts[u][n]
          BY <1>4, <3>5, <4>2
        <5> QED BY <3>1, <4>2, <5>1 DEF FileAnswered
      <4> QED BY <1>4, <3>1, <3>3, <4>1, <4>2 DEF FileAnswered
    <3> QED BY <3>2, <3>4, <3>5
  <2> QED BY <2>2, <2>3 DEF InOrder
<1> QED BY <1>2, <1>3, <1>4 DEF Covered, InOrder

\* The same for a step of the cleanup or of time.
LEMMA CleanerCovers ==
    ASSUME TypeOK, Covered, UNCHANGED <<req, crashes, blobs, object>>,
           \A p \in Paths : files'[p] \in {files[p], None},
           \A u \in Uploads :
                \/ /\ uploads[u] # None => uploads'[u] # None
                   /\ parts'[u] = parts[u]
                \/ cleaner'.pc = "purge" /\ cleaner'.upload = u,
           cleaner.pc = "purge" => \/ cleaner'.pc = "purge" /\ cleaner'.upload = cleaner.upload
                                   \/ FilesOf(cleaner.upload) = {}
    PROVE  Covered'
<1> SUFFICES ASSUME NEW p \in Paths PROVE InOrder(p)'
  BY DEF Covered
<1>1. CASE \E s \in Requests : p \in Owned(req[s])
  BY <1>1 DEF InOrder
<1>2. CASE FileAnswered(p) /\ BlobAnswered(p)
  <2>1. BlobAnswered(p)'
    BY <1>2 DEF BlobAnswered
  <2>2. FileAnswered(p)'
    <3> SUFFICES ASSUME files'[p] # None PROVE FileAnswered(p)'
      BY DEF FileAnswered
    <3>1. files'[p] = files[p] /\ files[p] # None
      OBVIOUS
    <3> PICK u : u = files[p].upload
      OBVIOUS
    <3>2. u \in Uploads
      BY <3>1 DEF TypeOK, PartFile
    <3>3. CASE cleaner.pc = "purge" /\ cleaner.upload = u
      <4>1. p \in FilesOf(cleaner.upload)
        BY <3>1, <3>3 DEF FilesOf
      <4> QED BY <3>1, <3>3, <4>1 DEF FileAnswered, PurgedBy
    <3>4. CASE cleaner'.pc = "purge" /\ cleaner'.upload = u
      BY <3>1, <3>4 DEF FileAnswered, PurgedBy
    <3>5. CASE \E r \in Requests : Purging(req[r]) /\ req[r].upload = u
      BY <3>1, <3>5 DEF FileAnswered, PurgedBy
    <3>6. CASE (uploads[u] # None => uploads'[u] # None) /\ parts'[u] = parts[u]
      BY <1>2, <3>1, <3>3, <3>5, <3>6 DEF FileAnswered, PurgedBy
    <3> QED BY <3>2, <3>4, <3>6
  <2> QED BY <2>1, <2>2 DEF InOrder
<1> QED BY <1>1, <1>2 DEF Covered, InOrder

\* What a request that holds nothing does with its own record does not matter.
HoldPCs == {"fill", "store", "commit", "evict", "sweep", "purge"}

LEMMA QuietCovers ==
    ASSUME MInv, Covered, NEW r \in Requests, NEW f, req' = [req EXCEPT ![r] = f],
           req[r].pc \notin HoldPCs,
           UNCHANGED <<parts, object, files, blobs, crashes, cleaner>>,
           \A u \in Uploads : uploads[u] # None => uploads'[u] # None
    PROVE  Covered'
<1>1. Owned(req[r]) = {} /\ ~Purging(req[r]) /\ TypeOK
  BY DEF Owned, Purging, HoldPCs, MInv
<1> QED BY <1>1, RequestCovers

\* A request that goes on answering for what it held.
LEMMA KeepsCovers ==
    ASSUME MInv, Covered, NEW r \in Requests, NEW f, req' = [req EXCEPT ![r] = f],
           Owned(req[r]) \subseteq Owned(f),
           Purging(req[r]) => Purging(f) /\ f.upload = req[r].upload,
           UNCHANGED <<uploads, parts, object, files, blobs, crashes, cleaner>>
    PROVE  Covered'
<1>1. TypeOK
  BY DEF MInv
<1> QED BY <1>1, RequestCovers

LEMMA StartCovers ==
    ASSUME MInv, Covered, NEW r \in Requests, StartUpload(r) \/ StartDrop(r)
    PROVE  Covered'
<1>1. ASSUME NEW f, Start(r, f) PROVE Covered'
  <2>1. /\ req[r].pc \notin HoldPCs /\ req' = [req EXCEPT ![r] = f]
        /\ UNCHANGED <<uploads, parts, object, files, blobs, crashes, cleaner>>
    BY <1>1 DEF Start, Go, HoldPCs, db, disk, process
  <2> QED BY <2>1, QuietCovers
<1>2. CASE StartDrop(r)
  BY <1>1, <1>2 DEF StartDrop
<1>3. CASE StartUpload(r)
  BY <1>1, <1>3 DEF StartUpload
<1> QED BY <1>2, <1>3

\* An answer is a move to the idle record.
LEMMA EndIs ==
    ASSUME NEW r \in Requests, End(r)
    PROVE  \E f : req' = [req EXCEPT ![r] = f]
  BY DEF End

LEMMA GoIs ==
    ASSUME NEW r \in Requests, NEW g, Go(r, g)
    PROVE  \E f : req' = [req EXCEPT ![r] = f]
  BY DEF Go

LEMMA LockUploadCovers ==
    ASSUME MInv, Covered, NEW r \in Requests, LockUpload(r)
    PROVE  Covered'
<1>1. /\ req[r].pc \notin HoldPCs
      /\ UNCHANGED <<uploads, parts, object, files, blobs, crashes, cleaner>>
  BY DEF LockUpload, HoldPCs, db, disk, process
<1>2. \E f : req' = [req EXCEPT ![r] = f]
  <2>1. CASE End(r)
    BY <2>1, EndIs
  <2>2. ASSUME NEW pc, req' = [req EXCEPT ![r].pc = pc]
        PROVE  req' = [req EXCEPT ![r] = [req[r] EXCEPT !.pc = pc]]
    BY <2>2
  <2> QED BY <2>1, <2>2 DEF LockUpload
<1> QED BY <1>1, <1>2, QuietCovers

LEMMA AnswersCovers ==
    ASSUME MInv, Covered, NEW r \in Requests,
           ClaimRefused(r) \/ ListParts(r) \/ ListPartsRefused(r) \/ CopyPart(r)
           \/ (AssembleFails(r) /\ ~Fault) \/ CheckEmpty(r) \/ ListUploads(r) \/ DropBucket(r)
    PROVE  Covered'
<1>1. /\ req[r].pc \notin HoldPCs
      /\ UNCHANGED <<uploads, parts, object, files, blobs, crashes, cleaner>>
  BY DEF ClaimRefused, ListParts, ListPartsRefused, CopyPart, AssembleFails, CheckEmpty,
         ListUploads, DropBucket, HoldPCs, db, disk, process
<1>2. \E f : req' = [req EXCEPT ![r] = f]
  <2>1. CASE ClaimRefused(r) \/ DropBucket(r)
    BY <2>1, EndIs, SMTT(30) DEF ClaimRefused, DropBucket
  <2>2. CASE ListParts(r) \/ ListPartsRefused(r) \/ CopyPart(r)
    BY <2>2, GoIs DEF ListParts, ListPartsRefused, CopyPart
  <2>3. CASE AssembleFails(r) \/ CheckEmpty(r) \/ ListUploads(r)
    BY <2>3, EndIs, GoIs DEF AssembleFails, CheckEmpty, ListUploads
  <2> QED BY <2>1, <2>2, <2>3
<1> QED BY <1>1, <1>2, QuietCovers

\* A claim or its release changes the status; the row stays.
LEMMA StatusCovers ==
    ASSUME MInv, Covered, NEW r \in Requests, ClaimUpload(r) \/ (Release(r) /\ ~Fault)
    PROVE  Covered'
<1>1. req[r].pc \in {"claim", "release"} /\ req[r].pc \notin HoldPCs
  BY DEF ClaimUpload, Release, HoldPCs
<1>2. UNCHANGED <<parts, object, stale, disk, used, files, blobs, crashes, cleaner>>
  BY DEF ClaimUpload, Release, disk, process
<1>3. \E f : req' = [req EXCEPT ![r] = f]
  <2>1. CASE ClaimUpload(r)
    BY <2>1, GoIs DEF ClaimUpload
  <2>2. CASE Release(r)
    BY <2>2, EndIs DEF Release
  <2> QED BY <2>1, <2>2
<1>4. \E s \in UploadStatus : uploads' = SetUploadStatus(req[r].upload, s)
  BY DEF ClaimUpload, Release, ClaimStatus, UploadStatus, NoFault
<1>5. req[r].upload \in Uploads
  BY <1>1, Current DEF RequestOK, ShapeOK, NoUpload
<1>6. \A u \in Uploads : uploads[u] # None => uploads'[u] # None
  BY <1>2, <1>4, <1>5, SetStatusOK
<1> QED BY <1>1, <1>2, <1>3, <1>6, QuietCovers

\* A deletion that finds no row, and the end of DeleteBucket.
LEMMA NothingDeletedCovers ==
    ASSUME MInv, Covered, NEW r \in Requests, DeleteRowFails(r) \/ DropFails(r), ~Fault
    PROVE  Covered'
<1>1. /\ req[r].pc \notin HoldPCs
      /\ UNCHANGED <<uploads, parts, object, files, blobs, crashes, cleaner>>
  BY DEF DeleteRowFails, DropFails, HoldPCs, disk, process
<1>2. \E f : req' = [req EXCEPT ![r] = f]
  <2>1. CASE DeleteRowFails(r)
    BY <2>1, GoIs DEF DeleteRowFails
  <2>2. CASE DropFails(r)
    BY <2>2, EndIs DEF DropFails
  <2> QED BY <2>1, <2>2
<1> QED BY <1>1, <1>2, QuietCovers

\* A file that no row takes is handed to the sweep.
LEMMA SweepsOwn ==
    ASSUME MInv, NEW r \in Requests, req[r].pc \in {"store", "commit"}, NEW t \in ThenPCs
    PROVE  LET f == Sweeping(req[r], {req[r].path}, t) IN
           /\ f \in Request /\ f.pc = "sweep" /\ f.doomed = {req[r].path}
           /\ Owned(req[r]) \subseteq Owned(f) /\ ~Purging(req[r])
<1> DEFINE q == req[r]  f == Sweeping(q, {q.path}, t)
<1>1. q \in Request /\ {q.path} \in SUBSET Paths
  BY Current DEF RequestOK, ShapeOK
<1>2. f \in Request /\ f.pc = "sweep" /\ f.doomed = {q.path}
  BY <1>1, SweepingFields
<1> HIDE DEF f
<1>3. Owned(q) = {q.path} /\ Owned(f) = {q.path} /\ ~Purging(q)
  BY <1>2 DEF Owned, Purging
<1> QED BY <1>2, <1>3 DEF f

LEMMA RefusedCovers ==
    ASSUME MInv, Covered, NEW r \in Requests,
           BadDigest(r) \/ AddPartRefused(r) \/ CompleteRefused(r)
    PROVE  Covered'
<1> DEFINE q == req[r]
           i == Sweeping(q, {q.path}, "idle")
           f == Sweeping(q, {q.path}, "release")
           g == [i EXCEPT !.claim = FALSE]
<1>1. /\ q.pc \in {"store", "commit"} /\ (Go(r, i) \/ Go(r, f) \/ Go(r, g))
      /\ UNCHANGED <<uploads, parts, object, files, blobs, crashes, cleaner>>
  BY DEF BadDigest, AddPartRefused, CompleteRefused, db, disk, process
<1>2. /\ i \in Request /\ i.pc = "sweep" /\ i.doomed = {q.path}
      /\ Owned(q) \subseteq Owned(i) /\ Owned(q) \subseteq Owned(f) /\ ~Purging(q)
  BY <1>1, SweepsOwn DEF ThenPCs
<1> HIDE DEF i, f
<1>3. g.pc = "sweep" /\ g.doomed = {q.path}
  BY <1>2, RequestFields
<1> HIDE DEF g
<1>4. Owned(q) = {q.path} /\ Owned(g) = {q.path}
  BY <1>1, <1>3 DEF Owned
<1>5. \E h \in {i, f, g} : req' = [req EXCEPT ![r] = h] /\ Owned(q) \subseteq Owned(h)
  BY <1>1, <1>2, <1>4 DEF Go
<1> QED BY <1>1, <1>2, <1>5, KeepsCovers

LEMMA EvictCovers ==
    ASSUME MInv, Covered, NEW r \in Requests, Evict(r)
    PROVE  Covered'
<1> DEFINE q == req[r]  f == [q EXCEPT !.pc = "sweep"]
<1>1. /\ q.pc = "evict" /\ req' = [req EXCEPT ![r] = f] /\ q \in Request
      /\ UNCHANGED <<uploads, parts, object, files, blobs, crashes, cleaner>>
  BY Current DEF Evict, Go, db, disk, process
<1>2. f.pc = "sweep" /\ f.doomed = q.doomed /\ f.then = q.then /\ f.upload = q.upload
  BY <1>1, RequestFields
<1> HIDE DEF f
<1>3. Owned(q) = Owned(f) /\ (Purging(q) => Purging(f))
  BY <1>1, <1>2 DEF Owned, Purging
<1> QED BY <1>1, <1>2, <1>3, KeepsCovers

LEMMA CreatePartCovers ==
    ASSUME MInv, Covered, NEW r \in Requests, CreatePart(r)
    PROVE  Covered'
<1> DEFINE q == req[r]
<1>1. PICK p \in Paths : /\ req' = [req EXCEPT ![r] = [q EXCEPT !.pc = "fill", !.path = p]]
                         /\ files' = [files EXCEPT ![p] = [upload |-> q.upload, body |-> None]]
  BY DEF CreatePart, Go
<1> DEFINE f == [q EXCEPT !.pc = "fill", !.path = p]
<1>2. /\ q.pc = "write" /\ q \in Request /\ TypeOK
      /\ UNCHANGED <<uploads, parts, object, blobs, crashes, cleaner>>
  BY Current DEF CreatePart, db, process
<1>3. f.pc = "fill" /\ f.path = p
  BY <1>2, RequestFields
<1> HIDE DEF f
<1>4. Owned(f) = {p} /\ Owned(q) = {} /\ ~Purging(q)
  BY <1>2, <1>3 DEF Owned, Purging
<1>5. \A x \in Paths : files'[x] \in {files[x], None} \/ x \in Owned(f)
  BY <1>1, <1>2, <1>4 DEF TypeOK
<1> QED BY <1>1, <1>2, <1>4, <1>5, RequestCovers DEF f

LEMMA FillPartCovers ==
    ASSUME MInv, Covered, NEW r \in Requests, FillPart(r)
    PROVE  Covered'
<1> DEFINE q == req[r]  f == [q EXCEPT !.pc = "store"]
<1>1. /\ req' = [req EXCEPT ![r] = f] /\ files' = [files EXCEPT ![q.path].body = q.body]
      /\ q.pc = "fill" /\ q \in Request /\ TypeOK
      /\ UNCHANGED <<uploads, parts, object, blobs, crashes, cleaner>>
  BY Current DEF FillPart, Go, db, process
<1>2. f.pc = "store" /\ f.path = q.path
  BY <1>1, RequestFields
<1> HIDE DEF f
<1>3. Owned(f) = {q.path} /\ Owned(q) = {q.path} /\ ~Purging(q)
  BY <1>1, <1>2 DEF Owned, Purging
<1>4. \A x \in Paths : files'[x] \in {files[x], None} \/ x \in Owned(f)
  BY <1>1, <1>3 DEF TypeOK
<1> QED BY <1>1, <1>3, <1>4, RequestCovers

\* A write that fails without an error of the disk has found its directory
\* gone, and its file with it.
LEMMA WritePartFailsCovers ==
    ASSUME MInv, Covered, NEW r \in Requests, WritePartFails(r), ~Fault
    PROVE  Covered'
<1> DEFINE q == req[r]
<1>1. /\ q.pc = "write" \/ (q.pc = "fill" /\ files[q.path] = None)
      /\ req' = [req EXCEPT ![r] = Idle] /\ TypeOK /\ RequestOK(q)
      /\ UNCHANGED <<uploads, parts, object, files, blobs, crashes, cleaner>>
  BY Current DEF WritePartFails, End, db, process
<1>2. CASE q.pc = "write"
  <2>1. q.pc \notin HoldPCs
    BY <1>2 DEF HoldPCs
  <2> QED BY <1>1, <2>1, QuietCovers
<1>3. CASE q.pc = "fill"
  <2>1. Owned(q) = {q.path} /\ ~Purging(q)
    BY <1>3 DEF Owned, Purging
  <2>2. files'[q.path] = None /\ blobs'[q.path] = None
    BY <1>1, <1>3 DEF RequestOK, WritingOK
  <2>3. \A p \in Owned(q) : FileAnswered(p)' /\ BlobAnswered(p)'
    BY <2>1, <2>2 DEF FileAnswered, BlobAnswered
  <2> QED BY <1>1, <2>1, <2>3, RequestCovers
<1> QED BY <1>1, <1>2, <1>3

LEMMA AddPartCovers ==
    ASSUME MInv, Covered, NEW r \in Requests, AddPart(r)
    PROVE  Covered'
<1> USE NoneAssumption
<1> PICK u, n, p : u = req[r].upload /\ n = req[r].number /\ p = req[r].path
  OBVIOUS
<1> DEFINE q == req[r]
           old == parts[u][n]
           D == IF old = None THEN {} ELSE {old.path}
           new == [path |-> p, etag |-> q.body]
           f == Sweeping(q, D, "idle")
<1>1. /\ q.pc = "store" /\ Is(u, "active") /\ req' = [req EXCEPT ![r] = f]
      /\ parts' = [parts EXCEPT ![u][n] = new]
      /\ UNCHANGED <<uploads, object, files, blobs, crashes, cleaner>>
  BY DEF AddPart, Go, disk, process
<1>2. q \in Request /\ RequestOK(q) /\ TypeOK /\ "idle" \in ThenPCs
  BY Current DEF ThenPCs
<1>3. u \in Uploads /\ n \in PartNumbers /\ q.body \in Bodies /\ p \in Paths
  BY <1>1, <1>2 DEF RequestOK, ShapeOK, NoUpload
<1>4. new \in Part /\ new # None /\ new.path = p
  BY <1>3 DEF Part
<1>5. files[p].upload = u /\ blobs[p] = None
  BY <1>1, <1>2 DEF RequestOK, WritingOK, Is
<1> HIDE DEF new
<1>6. /\ parts'[u][n] = new
      /\ \A v \in Uploads, m \in PartNumbers : v # u \/ m # n => parts'[v][m] = parts[v][m]
  BY <1>1, <1>2, <1>3, <1>4 DEF TypeOK
<1>7. D \in SUBSET Paths
  BY <1>2, <1>3 DEF TypeOK, Part
<1>8. f.pc = "sweep" /\ f.doomed = D
  <2> HIDE DEF D
  <2> QED BY <1>2, <1>7, SweepingFields
<1> HIDE DEF f
<1>9. Owned(q) = {p} /\ Owned(f) = D /\ ~Purging(q)
  BY <1>1, <1>8 DEF Owned, Purging
<1>10. FileAnswered(p)' /\ BlobAnswered(p)'
  BY <1>1, <1>3, <1>4, <1>5, <1>6 DEF FileAnswered, BlobAnswered
<1>11. \A v \in Uploads, m \in PartNumbers :
        parts[v][m] # None => parts'[v][m] = parts[v][m] \/ parts[v][m].path \in Owned(f)
  BY <1>6, <1>9
<1> HIDE DEF D
<1> QED BY <1>1, <1>2, <1>9, <1>10, <1>11, RequestCovers

LEMMA SweepCovers ==
    ASSUME MInv, Covered, NEW r \in Requests, Sweep(r), ~Fault
    PROVE  Covered'
<1> DEFINE q == req[r]  f == [q EXCEPT !.pc = q.then, !.doomed = {}]
<1>1. /\ q.pc = "sweep"
      /\ files' = [p \in Paths |-> IF p \in q.doomed THEN None ELSE files[p]]
      /\ blobs' = [p \in Paths |-> IF p \in q.doomed THEN None ELSE blobs[p]]
      /\ UNCHANGED <<uploads, parts, object, crashes, cleaner>>
  BY DEF Sweep, db, process
<1>2. q \in Request /\ TypeOK
  BY Current
<1>3. Owned(q) = q.doomed /\ q.doomed \subseteq Paths
  BY <1>1, <1>2 DEF Owned, Request
<1>4. \A p \in Owned(q) : FileAnswered(p)' /\ BlobAnswered(p)'
  BY <1>1, <1>3 DEF FileAnswered, BlobAnswered
<1>5. \A p \in Paths : files'[p] \in {files[p], None} /\ blobs'[p] \in {blobs[p], None}
  BY <1>1
<1>6. CASE q.then = "idle"
  <2>1. req' = [req EXCEPT ![r] = Idle] /\ ~Purging(q)
    BY <1>1, <1>6 DEF Sweep, End, Purging
  <2> QED BY <1>1, <1>2, <1>4, <1>5, <2>1, RequestCovers
<1>7. CASE q.then # "idle"
  <2>1. req' = [req EXCEPT ![r] = f]
    BY <1>7 DEF Sweep, Go
  <2>2. q.then \in PCs /\ {} \in PathSets
    BY <1>2 DEF Request, PCs, PathSets
  <2>3. f.pc = q.then /\ f.upload = q.upload
    BY <1>2, <2>2, RequestFields
  <2> HIDE DEF f
  <2>4. Purging(q) => Purging(f) /\ f.upload = q.upload
    BY <1>1, <2>3 DEF Purging
  <2> QED BY <1>1, <1>2, <1>4, <1>5, <2>1, <2>4, RequestCovers
<1> QED BY <1>6, <1>7

LEMMA AssembledCovers ==
    ASSUME MInv, Covered, NEW r \in Requests, Assembled(r)
    PROVE  Covered'
<1> DEFINE q == req[r]
<1>1. PICK p \in Paths : /\ req' = [req EXCEPT ![r] = [q EXCEPT !.pc = "commit", !.path = p]]
                         /\ blobs' = [blobs EXCEPT ![p] = q.got]
  BY DEF Assembled, Go
<1> DEFINE f == [q EXCEPT !.pc = "commit", !.path = p]
<1>2. /\ q.pc = "assemble" /\ q \in Request /\ TypeOK
      /\ UNCHANGED <<uploads, parts, object, files, crashes, cleaner>>
  BY Current DEF Assembled, db, process
<1>3. f.pc = "commit" /\ f.path = p
  BY <1>2, RequestFields
<1> HIDE DEF f
<1>4. Owned(f) = {p} /\ Owned(q) = {} /\ ~Purging(q)
  BY <1>2, <1>3 DEF Owned, Purging
<1>5. \A x \in Paths : blobs'[x] \in {blobs[x], None} \/ x \in Owned(f)
  BY <1>1, <1>2, <1>4 DEF TypeOK
<1> QED BY <1>1, <1>2, <1>4, <1>5, RequestCovers DEF f

\* The commit hands the new file to the object's row, and takes over the file
\* the row had and the directory of the upload.
LEMMA CompleteUploadCovers ==
    ASSUME MInv, Covered, NEW r \in Requests, CompleteUpload(r)
    PROVE  Covered'
<1> USE NoneAssumption
<1> PICK u, p : u = req[r].upload /\ p = req[r].path
  OBVIOUS
<1> DEFINE q == req[r]
           D == {w.path : w \in {object} \ {None}}
           f == [q EXCEPT !.pc = "evict", !.claim = FALSE, !.then = "purge", !.doomed = D]
<1>1. /\ q.pc = "commit" /\ req' = [req EXCEPT ![r] = f] /\ DeleteUpload(u)
      /\ object' = NewObject(q)
      /\ UNCHANGED <<files, blobs, crashes, cleaner>>
  BY DEF CompleteUpload, Go, disk, process
<1>2. q \in Request /\ RequestOK(q) /\ TypeOK
  BY Current
<1>3. u \in Uploads /\ p \in Paths /\ q.want \in Manifest
  BY <1>1, <1>2 DEF RequestOK, ShapeOK, NoUpload
<1>4. object' # None /\ object'.path = p /\ blobs[p] # None
  <2>1. /\ NewObject(q) = [path |-> q.path, etag |-> q.want] /\ NewObject(q) \in Object
        /\ blobs[q.path] = q.want
    BY <1>1, NewObjectIs
  <2>2. NewObject(q).path = p
    BY <2>1
  <2> QED BY <1>1, <1>3, <2>1, <2>2
<1>5. files[p] = None
  BY <1>3, <1>4 DEF MInv, DrawnOK
<1>6. FileAnswered(p)' /\ BlobAnswered(p)'
  BY <1>1, <1>4, <1>5 DEF FileAnswered, BlobAnswered
<1>7. D \in PathSets /\ (object # None => object.path \in D)
  BY <1>2 DEF PathSets, TypeOK, Object
<1> HIDE DEF D
<1>8. f.pc = "evict" /\ f.then = "purge" /\ f.doomed = D /\ f.upload = u
  BY <1>2, <1>7, RequestFields
<1> HIDE DEF f
<1>9. Owned(q) = {p} /\ Owned(f) = D /\ ~Purging(q) /\ Purging(f)
  BY <1>1, <1>8 DEF Owned, Purging
<1>10. \A v \in Uploads : v # u => uploads'[v] = uploads[v] /\ parts'[v] = parts[v]
  BY <1>1, <1>2, <1>3, DeleteRows
<1> QED BY <1>1, <1>2, <1>6, <1>7, <1>8, <1>9, <1>10, RequestCovers

\* Whoever deletes an upload's row goes on to remove its directory.
LEMMA DeleteCovers ==
    ASSUME MInv, Covered, NEW r \in Requests, NEW f, req' = [req EXCEPT ![r] = f],
           req[r].pc \notin HoldPCs, Purging(f), f.upload \in Uploads, DeleteUpload(f.upload),
           UNCHANGED <<object, files, blobs, crashes, cleaner>>
    PROVE  Covered'
<1>1. TypeOK /\ Owned(req[r]) = {} /\ ~Purging(req[r])
  BY DEF MInv, Owned, Purging, HoldPCs
<1>2. \A v \in Uploads : v # f.upload => uploads'[v] = uploads[v] /\ parts'[v] = parts[v]
  BY <1>1, DeleteRows
<1>3. \A p \in Paths : files'[p] \in {files[p], None} /\ blobs'[p] \in {blobs[p], None}
  OBVIOUS
<1>4. \A u \in Uploads :
        \/ /\ uploads[u] # None => uploads'[u] # None
           /\ \A n \in PartNumbers : parts[u][n] # None =>
                parts'[u][n] = parts[u][n] \/ parts[u][n].path \in Owned(f)
        \/ Purging(f) /\ f.upload = u
  BY <1>2
<1>5. \A p \in Owned(req[r]) : p \in Owned(f) \/ (FileAnswered(p)' /\ BlobAnswered(p)')
  BY <1>1
<1> QED BY <1>1, <1>3, <1>4, <1>5, RequestCovers

LEMMA DeleteRowCovers ==
    ASSUME MInv, Covered, NEW r \in Requests, DeleteRow(r)
    PROVE  Covered'
<1> DEFINE q == req[r]  f == [q EXCEPT !.pc = "purge", !.claim = FALSE]
<1>1. /\ q.pc = "deleteRow" /\ req' = [req EXCEPT ![r] = f] /\ DeleteUpload(q.upload)
      /\ UNCHANGED <<object, files, blobs, crashes, cleaner>> /\ q \in Request /\ RequestOK(q)
  BY Current DEF DeleteRow, Go, disk, process
<1>2. f.pc = "purge" /\ f.upload = q.upload
  BY <1>1, RequestFields
<1> HIDE DEF f
<1>3. q.upload \in Uploads /\ q.pc \notin HoldPCs /\ Purging(f)
  BY <1>1, <1>2 DEF RequestOK, ShapeOK, NoUpload, HoldPCs, Purging
<1> QED BY <1>1, <1>2, <1>3, DeleteCovers

LEMMA NextUploadCovers ==
    ASSUME MInv, Covered, NEW r \in Requests, NextUpload(r)
    PROVE  Covered'
<1> DEFINE q == req[r]
<1>1. q.pc \notin HoldPCs /\ q \in Request /\ UNCHANGED <<object, files, blobs, crashes, cleaner>>
  BY Current DEF NextUpload, HoldPCs, disk, process
<1>2. ASSUME NEW u \in q.todo, DeleteUpload(u),
             Go(r, [q EXCEPT !.todo = @ \ {u}, !.upload = u, !.pc = "purge"])
      PROVE  Covered'
  <2> DEFINE T == q.todo \ {u}
             f == [q EXCEPT !.todo = T, !.upload = u, !.pc = "purge"]
  <2>1. u \in Uploads /\ T \in UploadSets /\ q.todo \in UploadSets
    BY <1>1 DEF Request, UploadSets
  <2>2. req' = [req EXCEPT ![r] = f]
    BY <1>2 DEF Go
  <2> HIDE DEF T
  <2>3. f.pc = "purge" /\ f.upload = u
    BY <1>1, <2>1, RequestFields
  <2> HIDE DEF f
  <2>4. Purging(f)
    BY <2>3 DEF Purging
  <2> QED BY <1>1, <1>2, <2>1, <2>2, <2>3, <2>4, DeleteCovers
<1>3. ASSUME NEW pc, Go(r, [q EXCEPT !.pc = pc]), UNCHANGED <<uploads, parts>> PROVE Covered'
  <2>1. \E f : req' = [req EXCEPT ![r] = f]
    BY <1>3, GoIs
  <2> QED BY <1>1, <1>3, <2>1, QuietCovers
<1> QED BY <1>2, <1>3 DEF NextUpload

LEMMA PurgeFileCovers ==
    ASSUME MInv, Covered, NEW r \in Requests, PurgeFile(r)
    PROVE  Covered'
<1>1. TypeOK /\ UNCHANGED <<uploads, parts, object, blobs, req, crashes, cleaner>>
  BY DEF PurgeFile, db, process, MInv
<1>2. req' = [req EXCEPT ![r] = req[r]]
  BY <1>1 DEF TypeOK
<1>3. \A p \in Paths : files'[p] \in {files[p], None}
  BY <1>1 DEF PurgeFile, TypeOK
<1> QED BY <1>1, <1>2, <1>3, RequestCovers

LEMMA PurgedCovers ==
    ASSUME MInv, Covered, NEW r \in Requests, Purged(r), ~Fault
    PROVE  Covered'
<1>1. /\ req[r].pc = "purge" /\ FilesOf(req[r].upload) = {} /\ TypeOK
      /\ UNCHANGED <<uploads, parts, object, files, blobs, crashes, cleaner>>
  BY DEF Purged, db, disk, process, MInv
<1>2. Owned(req[r]) = {}
  BY <1>1 DEF Owned
<1>3. \E f : req' = [req EXCEPT ![r] = f]
  BY EndIs, GoIs DEF Purged
<1> QED BY <1>1, <1>2, <1>3, RequestCovers

LEMMA CleanupCovers ==
    ASSUME MInv, Covered, Cleanup, ~Fault
    PROVE  Covered'
<1>1. TypeOK /\ UNCHANGED <<req, crashes, blobs, object>>
  BY DEF MInv, Cleanup, ListStale, PickStale, ClaimStale, DeleteStale, DeleteStaleFails,
         ResetStale, PurgeStale, cleanerOnly, process, db, disk
<1>2. CASE ListStale \/ PickStale
  <2>1. cleaner.pc # "purge" /\ UNCHANGED <<uploads, parts, files>>
    BY <1>2 DEF ListStale, PickStale, db, disk
  <2> QED BY <1>1, <2>1, CleanerCovers
<1>3. CASE ClaimStale \/ ResetStale
  <2>1. cleaner.pc \in {"claim", "reset"} /\ UNCHANGED <<parts, object, stale, disk, used, files>>
    BY <1>3 DEF ClaimStale, ResetStale, cleanerOnly, disk
  <2>2. cleaner.upload \in Uploads
    BY <2>1, CurrentCleaner DEF CleanerOK
  <2>3. \/ uploads' = uploads
        \/ \E s \in UploadStatus : uploads' = SetUploadStatus(cleaner.upload, s)
    BY <1>3 DEF ClaimStale, ResetStale, UploadStatus
  <2>4. \A u \in Uploads : uploads[u] # None => uploads'[u] # None
    BY <2>1, <2>2, <2>3, SetStatusOK
  <2> QED BY <1>1, <2>1, <2>4, CleanerCovers
<1>4. CASE DeleteStale
  <2>1. /\ cleaner.pc = "delete" /\ DeleteUpload(cleaner.upload) /\ files' = files
        /\ cleaner' = [cleaner EXCEPT !.pc = "purge"]
    BY <1>4 DEF DeleteStale
  <2>2. cleaner \in Cleaner /\ cleaner.upload \in Uploads
    BY <2>1, CurrentCleaner DEF CleanerOK
  <2>3. cleaner'.pc = "purge" /\ cleaner'.upload = cleaner.upload
    BY <2>1, <2>2, CleanerFields
  <2>4. \A v \in Uploads : v # cleaner.upload => uploads'[v] = uploads[v] /\ parts'[v] = parts[v]
    BY <1>1, <2>1, <2>2, DeleteRows
  <2> QED BY <1>1, <2>1, <2>3, <2>4, CleanerCovers
<1>5. CASE DeleteStaleFails
  <2>1. cleaner.pc = "delete" /\ UNCHANGED <<uploads, parts, files>>
    BY <1>5 DEF DeleteStaleFails
  <2> QED BY <1>1, <2>1, CleanerCovers
<1>6. CASE PurgeStale
  <2>1. UNCHANGED <<uploads, parts>>
    BY <1>6 DEF PurgeStale
  <2>2. \/ UNCHANGED cleaner /\ \A p \in Paths : files'[p] \in {files[p], None}
        \/ FilesOf(cleaner.upload) = {} /\ files' = files
    BY <1>1, <1>6 DEF PurgeStale, TypeOK
  <2> QED BY <1>1, <2>1, <2>2, CleanerCovers
<1> QED BY <1>2, <1>3, <1>4, <1>5, <1>6 DEF Cleanup

LEMMA CreateMultipartUploadCovers ==
    ASSUME MInv, Covered, NEW u \in Uploads, CreateMultipartUpload(u)
    PROVE  Covered'
<1> DEFINE w == [status |-> "active", created |-> 0, updated |-> 0]
<1>1. /\ TypeOK /\ uploads' = [uploads EXCEPT ![u] = w]
      /\ UNCHANGED <<parts, object, files, blobs, req, cleaner, crashes>>
  BY DEF MInv, CreateMultipartUpload, disk, process
<1>2. w # None
  <2>1. 0 \in Ages
    BY ConstantsAssumption DEF Ages
  <2>2. w \in Upload
    BY <2>1 DEF Upload, UploadStatus
  <2> QED BY <2>2, NoneAssumption
<1> HIDE DEF w
<1>3. \A v \in Uploads : uploads[v] # None => uploads'[v] # None
  BY <1>1, <1>2 DEF TypeOK
<1> QED BY <1>1, <1>3, CleanerCovers

LEMMA TickCovers ==
    ASSUME MInv, Covered, Tick
    PROVE  Covered'
<1> DEFINE S == [u \in Uploads |-> Aged(cleaner.snap[u])]
<1>1. /\ TypeOK /\ uploads' = [u \in Uploads |-> Aged(uploads[u])]
      /\ cleaner' = [cleaner EXCEPT !.snap = S]
      /\ UNCHANGED <<parts, object, files, blobs, req, crashes>>
  BY DEF MInv, Tick, Aged, disk, process
<1>2. cleaner'.pc = cleaner.pc /\ cleaner'.upload = cleaner.upload
  <2>1. cleaner \in Cleaner
    BY CurrentCleaner
  <2> HIDE DEF S
  <2> QED BY <1>1, <2>1, CleanerFields
<1>3. \A v \in Uploads : uploads[v] # None => uploads'[v] # None
  BY <1>1, AgedOK DEF TypeOK
<1> QED BY <1>1, <1>2, <1>3, CleanerCovers, SMTT(30)

LEMMA ContinueCovers ==
    ASSUME MInv, Covered, NEW r \in Requests, Continue(r), ~Fault
    PROVE  Covered'
<1>1. CASE LockUpload(r) \/ CreatePart(r) \/ FillPart(r) \/ WritePartFails(r)
  BY <1>1, LockUploadCovers, CreatePartCovers, FillPartCovers, WritePartFailsCovers
<1>2. CASE BadDigest(r) \/ AddPart(r) \/ AddPartRefused(r) \/ Sweep(r)
  BY <1>2, RefusedCovers, AddPartCovers, SweepCovers
<1>3. CASE ClaimUpload(r) \/ ClaimRefused(r) \/ ListParts(r) \/ ListPartsRefused(r)
  BY <1>3, StatusCovers, AnswersCovers
<1>4. CASE CopyPart(r) \/ Assembled(r) \/ AssembleFails(r)
  BY <1>4, AnswersCovers, AssembledCovers
<1>5. CASE CompleteUpload(r) \/ CompleteRefused(r) \/ Evict(r)
  BY <1>5, CompleteUploadCovers, RefusedCovers, EvictCovers
<1>6. CASE DeleteRow(r) \/ DeleteRowFails(r) \/ Release(r)
  BY <1>6, DeleteRowCovers, NothingDeletedCovers, StatusCovers
<1>7. CASE PurgeFile(r) \/ Purged(r)
  BY <1>7, PurgeFileCovers, PurgedCovers
<1>8. CASE CheckEmpty(r) \/ ListUploads(r) \/ NextUpload(r) \/ DropFails(r) \/ DropBucket(r)
  BY <1>8, AnswersCovers, NextUploadCovers, NothingDeletedCovers
<1> QED BY <1>1, <1>2, <1>3, <1>4, <1>5, <1>6, <1>7, <1>8 DEF Continue

\* A step that leaves the server serving without an I/O error began there,
\* unless it is the one that ends the reconciliation.
LEMMA FaultsCount ==
    ASSUME TypeOK, [Next]_vars, phase' = "serving", faults' = 0
    PROVE  /\ faults = 0 /\ ~Fault
           /\ phase = "serving" \/ Serve
<1>1. faults \in Nat /\ ~Fault
  BY DEF TypeOK, Fault
<1>2. faults' = faults /\ (phase' = phase \/ Serve)
  <2>1. CASE UNCHANGED vars
    BY <2>1 DEF vars, process
  <2>2. ASSUME NEW u \in Uploads, CreateMultipartUpload(u) PROVE UNCHANGED <<faults, phase>>
    BY <2>2 DEF CreateMultipartUpload, process
  <2>3. ASSUME NEW r \in Requests, StartUpload(r) \/ StartDrop(r)
        PROVE  UNCHANGED <<faults, phase>>
    BY <2>3 DEF StartUpload, StartDrop, Start, process
  <2>4. ASSUME NEW r \in Requests, Continue(r) PROVE UNCHANGED <<faults, phase>>
    <3>1. CASE LockUpload(r) \/ CreatePart(r) \/ FillPart(r) \/ WritePartFails(r)
      BY <1>1, <3>1 DEF LockUpload, CreatePart, FillPart, WritePartFails, NoFault, process
    <3>2. CASE BadDigest(r) \/ AddPart(r) \/ AddPartRefused(r) \/ Sweep(r)
      BY <1>1, <3>2 DEF BadDigest, AddPart, AddPartRefused, Sweep, NoFault, process
    <3>3. CASE ClaimUpload(r) \/ ClaimRefused(r) \/ ListParts(r) \/ ListPartsRefused(r)
      BY <1>1, <3>3, ZenonT(60) DEF ClaimUpload, ClaimRefused, ListParts, ListPartsRefused,
                                    NoFault, process
    <3>4. CASE CopyPart(r) \/ Assembled(r) \/ AssembleFails(r)
      BY <1>1, <3>4 DEF CopyPart, Assembled, AssembleFails, NoFault, process
    <3>5. CASE CompleteUpload(r) \/ CompleteRefused(r) \/ Evict(r)
      BY <1>1, <3>5 DEF CompleteUpload, CompleteRefused, Evict, NoFault, process
    <3>6. CASE DeleteRow(r) \/ DeleteRowFails(r) \/ Release(r)
      BY <1>1, <3>6 DEF DeleteRow, DeleteRowFails, Release, NoFault, process
    <3>7. CASE PurgeFile(r) \/ Purged(r)
      BY <1>1, <3>7 DEF PurgeFile, Purged, NoFault, process
    <3>8. CASE CheckEmpty(r) \/ ListUploads(r) \/ NextUpload(r) \/ DropFails(r) \/ DropBucket(r)
      BY <1>1, <3>8 DEF CheckEmpty, ListUploads, NextUpload, DropFails, DropBucket, NoFault, process
    <3> QED BY <2>4, <3>1, <3>2, <3>3, <3>4, <3>5, <3>6, <3>7, <3>8 DEF Continue
  <2>5. CASE Cleanup
    BY <1>1, <2>5 DEF Cleanup, ListStale, PickStale, ClaimStale, DeleteStale, DeleteStaleFails,
          ResetStale, PurgeStale, cleanerOnly, NoFault, process
  <2>6. CASE Tick \/ Restart
    BY <2>6 DEF Tick, Restart, ReconcileFile, Serve, process
  <2>7. CASE Crash
    BY <2>7 DEF Crash
  <2> QED BY <2>1, <2>2, <2>3, <2>4, <2>5, <2>6, <2>7 DEF Next
<1> QED BY <1>1, <1>2

\* Reconciliation has removed what nothing in the database names; only part
\* files of uploads that live on are left from before a crash.
LEMMA ServeCovers ==
    ASSUME MInv, Serve
    PROVE  Covered'
<1>1. /\ phase = "starting" /\ \A p \in Paths : ~Orphan(p)
      /\ UNCHANGED <<uploads, parts, object, files, blobs, req, cleaner, crashes>>
  BY DEF Serve, db, disk
<1>2. crashes \in Nat /\ (crashes = 0 => \A p \in Paths : files[p] = None)
  BY <1>1 DEF MInv, TypeOK, StartingOK
<1>3. ASSUME NEW p \in Paths PROVE FileAnswered(p)' /\ BlobAnswered(p)'
  <2>1. blobs[p] # None => object # None /\ object.path = p
    BY <1>1 DEF Orphan
  <2>2. files[p] # None => uploads[files[p].upload] # None /\ crashes > 0
    BY <1>1, <1>2 DEF Orphan
  <2> QED BY <1>1, <2>1, <2>2 DEF FileAnswered, BlobAnswered
<1> QED BY <1>3 DEF Covered, InOrder

LEMMA LeakFreeNext ==
    ASSUME MInv, LeakFree, [Next]_vars
    PROVE  LeakFree'
<1> SUFFICES ASSUME phase' = "serving", faults' = 0 PROVE Covered'
  BY DEF LeakFree
<1>1. TypeOK
  BY DEF MInv
<1>2. faults = 0 /\ ~Fault /\ (phase = "serving" \/ Serve)
  BY <1>1, FaultsCount
<1>3. CASE Serve
  BY <1>3, ServeCovers
<1>4. CASE phase = "serving"
  <2>1. Covered
    BY <1>2, <1>4 DEF LeakFree
  <2>2. ASSUME NEW u \in Uploads, CreateMultipartUpload(u) PROVE Covered'
    BY <2>1, <2>2, CreateMultipartUploadCovers
  <2>3. ASSUME NEW r \in Requests, StartUpload(r) \/ StartDrop(r) PROVE Covered'
    BY <2>1, <2>3, StartCovers
  <2>4. ASSUME NEW r \in Requests, Continue(r) PROVE Covered'
    BY <1>2, <2>1, <2>4, ContinueCovers
  <2>5. CASE Cleanup
    BY <1>2, <2>1, <2>5, CleanupCovers
  <2>6. CASE Tick
    BY <2>1, <2>6, TickCovers
  <2>7. CASE Crash \/ Restart
    BY <1>4, <2>7 DEF Crash, Restart, ReconcileFile, Serve
  <2>8. CASE UNCHANGED vars
    <3>1. UNCHANGED <<req, crashes, blobs, object, files, uploads, parts, cleaner>>
      BY <2>8 DEF vars, db, disk, process
    <3> QED BY <1>1, <2>1, <3>1, CleanerCovers
  <2> QED BY <2>2, <2>3, <2>4, <2>5, <2>6, <2>7, <2>8 DEF Next
<1> QED BY <1>2, <1>3, <1>4

\* As long as no removal fails, no file is left over while the server serves:
\* each is named by a row, or a running request or the cleanup is about to
\* record or remove it, or it is a leftover of a crash in an upload that lives.
THEOREM MultipartNoLeakHolds == Spec => []NoLeak
<1>1. Init => LeakFree
  BY DEF Init, LeakFree
<1>2. MInv /\ LeakFree => NoLeak
  BY NoLeakIs
<1> QED BY <1>1, <1>2, LeakFreeNext, MultipartInvariant, PTL DEF Spec

=============================================================================
