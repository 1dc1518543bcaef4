--------------------------- MODULE MultipartUpload ---------------------------
(***************************************************************************)
(* Multipart uploads of one object: part uploads, completion, abort, the   *)
(* background cleanup of stale uploads, bucket deletion, crash and restart.*)
(*                                                                         *)
(* Requests on one upload exclude each other with an in-process lock.  The *)
(* cleanup and the S3 DeleteBucket do not take that lock; they meet the    *)
(* requests only in the database, where the status of the upload row is a  *)
(* claim: active -> completing or aborted.                                 *)
(*                                                                         *)
(* Every database statement or transaction, every file created, read or    *)
(* removed is one step.  Responses are left out: they follow from the path *)
(* a request takes and change nothing.  Temporary files of the assembled   *)
(* object are those of ObjectStore.tla.                                    *)
(***************************************************************************)
EXTENDS Naturals, FiniteSets

CONSTANTS
    Uploads,        \* upload IDs; every CreateMultipartUpload draws a new one
    PartNumbers,    \* part numbers
    Bodies,         \* part contents; the ETag of a part is its content
    Paths,          \* storage paths; every write draws a new UUID
    Requests,       \* handler slots: how many requests run at once
    Operations,     \* the operations clients issue
    Conditions,     \* preconditions sent with completions
    Existing,       \* objects the key may hold at the start, None included
    TTL,            \* FBS_MULTIPART_TTL, in ticks
    MaxRequests,    \* bound on requests
    MaxFaults,      \* bound on I/O errors and client disconnects
    MaxCrashes,     \* bound on process crashes
    None            \* absent row, file, path or field

\* The parts a completion names, after normalizeCompletedParts: ascending part
\* numbers, each with one ETag.
Manifest == UNION {[S -> Bodies] : S \in SUBSET PartNumbers \ {{}}}

AllOperations == {"part", "copyPart", "complete", "abort", "drop"}
AllConditions == {"none", "create", "match"}

ASSUME ConstantsAssumption ==
    /\ PartNumbers \subseteq Nat
    /\ IsFiniteSet(PartNumbers)
    /\ Operations \subseteq AllOperations
    /\ Conditions \subseteq AllConditions
    /\ TTL \in Nat \ {0}
    /\ MaxRequests \in Nat
    /\ MaxFaults \in Nat
    /\ MaxCrashes \in Nat

\* Ages are in ticks and saturate where no comparison tells more apart.
Ages == 0..2 * TTL
Older(a) == IF a < 2 * TTL THEN a + 1 ELSE a

UploadStatus == {"active", "completing", "aborted"}
Upload == [status : UploadStatus, created : Ages, updated : Ages]
Part == [path : Paths, etag : Bodies]
Object == [path : Paths, etag : Manifest]
\* A part file under .tmp/multipart/{upload}/; its body is None while it is
\* being written, under its final name.
PartFile == [upload : Uploads, body : Bodies \cup {None}]

ASSUME NoneAssumption ==
    /\ None \notin Uploads
    /\ None \notin PartNumbers
    /\ None \notin Bodies
    /\ None \notin Paths
    /\ None \notin Requests
    /\ None \notin Manifest
    /\ None \notin Upload
    /\ None \notin Part
    /\ None \notin Object
    /\ None \notin PartFile
    /\ None \notin UNION {[S -> Part] : S \in SUBSET PartNumbers}
    /\ None \notin UNION {[S -> Bodies \cup {None}] : S \in SUBSET PartNumbers}

ASSUME ExistingAssumption == Existing \subseteq Object \cup {None}

VARIABLES
    bucket,     \* the bucket's row exists
    uploads,    \* multipart_uploads
    parts,      \* multipart_parts, cascading with the upload's row
    object,     \* the row of the object the uploads are for
    stale,      \* superseded object rows the metadata cache may still serve
    files,      \* part files
    blobs,      \* assembled object files
    used,       \* paths and upload IDs handed out (UUIDs never repeat)
    lock,       \* uploadLocks: the request holding the upload's mutex
    req,        \* the running requests
    cleaner,    \* the StaleMultipartCleanup goroutine
    phase,      \* "starting" (reconciling) or "serving"
    served, faults, crashes     \* counters, for the bounds only

db == <<bucket, uploads, parts, object>>
disk == <<files, blobs>>
process == <<phase, crashes>>
vars == <<db, stale, disk, used, lock, req, cleaner, process, served, faults>>

-----------------------------------------------------------------------------
(* Requests                                                                *)

PCs == {"idle", "lock", "write", "fill", "store", "claim", "list", "assemble",
        "commit", "evict", "sweep", "deleteRow", "purge", "release",
        "check", "uploads", "next", "drop"}

Request ==
    [pc     : PCs,
     op     : AllOperations \cup {"none"},
     upload : Uploads \cup {None},
     number : PartNumbers \cup {None},
     body   : Bodies \cup {None},
     want   : Manifest \cup {None},         \* the parts the client names
     cond   : AllConditions,
     rows   : {None} \cup UNION {[S -> Part] : S \in SUBSET PartNumbers},
     got    : {None} \cup UNION {[S -> Bodies \cup {None}] : S \in SUBSET PartNumbers},
     path   : Paths \cup {None},            \* the file this request wrote
     claim  : BOOLEAN,                      \* an uploadClaim not settled
     todo   : SUBSET Uploads,               \* uploads DeleteBucket has listed
     doomed : SUBSET Paths,                 \* files to remove next ...
     then   : {"idle", "release", "purge"}] \* ... and where to go from there

Idle ==
    [pc |-> "idle", op |-> "none", upload |-> None, number |-> None,
     body |-> None, want |-> None, cond |-> "none", rows |-> None,
     got |-> None, path |-> None, claim |-> FALSE, todo |-> {},
     doomed |-> {}, then |-> "idle"]

Sleeping == [pc |-> "sleep", snap |-> [u \in Uploads |-> None],
             upload |-> None, claimed |-> FALSE]

Cleaner ==
    [pc      : {"sleep", "pick", "claim", "delete", "reset", "purge"},
     snap    : [Uploads -> Upload \cup {None}],   \* what ListStale returned
     upload  : Uploads \cup {None},
     claimed : BOOLEAN]

\* The upload's row exists with status s.
Is(u, s) == uploads[u] # None /\ uploads[u].status = s

\* The statement UPDATE multipart_uploads SET status, status_updated_at.
SetUploadStatus(u, s) ==
    IF uploads[u] = None THEN uploads
    ELSE [uploads EXCEPT ![u].status = s, ![u].updated = 0]

\* The row of upload u goes, and with it the rows of its parts.
DeleteUpload(u) ==
    /\ uploads' = [uploads EXCEPT ![u] = None]
    /\ parts' = [parts EXCEPT ![u] = [n \in PartNumbers |-> None]]

\* Rows GetByKey may return for the object.
Visible == stale \cup ({object} \ {None})

Go(r, rec) == req' = [req EXCEPT ![r] = rec] /\ lock' = lock

\* The handler returns and its deferred unlock runs.
End(r) ==
    /\ req' = [req EXCEPT ![r] = Idle]
    /\ lock' = [u \in Uploads |-> IF lock[u] = r THEN None ELSE lock[u]]

\* An I/O error, or a client that disconnects.
Fault == faults < MaxFaults /\ faults' = faults + 1
NoFault == faults' = faults

\* The server starts on a bucket without uploads, the key written or not.
Init ==
    /\ bucket = TRUE
    /\ uploads = [u \in Uploads |-> None]
    /\ parts = [u \in Uploads |-> [n \in PartNumbers |-> None]]
    /\ object \in Existing
    /\ stale = {}
    /\ files = [p \in Paths |-> None]
    /\ blobs = [p \in Paths |-> IF object # None /\ p = object.path THEN object.etag ELSE None]
    /\ used = {w.path : w \in {object} \ {None}}
    /\ lock = [u \in Uploads |-> None]
    /\ req = [r \in Requests |-> Idle]
    /\ cleaner = Sleeping
    /\ phase = "starting"
    /\ served = 0
    /\ faults = 0
    /\ crashes = 0

\* CreateMultipartUpload: one INSERT; the foreign key requires the bucket.
CreateMultipartUpload(u) ==
    /\ phase = "serving"
    /\ bucket
    /\ u \notin used
    /\ used' = used \cup {u}
    /\ uploads' = [uploads EXCEPT ![u] =
                    [status |-> "active", created |-> 0, updated |-> 0]]
    /\ UNCHANGED <<bucket, parts, object, stale, disk, lock, req, cleaner,
                   process, served, faults>>

Start(r, rec) ==
    /\ phase = "serving"
    /\ req[r].pc = "idle"
    /\ rec.op \in Operations
    /\ served < MaxRequests
    /\ served' = served + 1
    /\ Go(r, rec)
    /\ UNCHANGED <<db, stale, disk, used, cleaner, process, faults>>

\* A request that names an upload: loadUpload has found its row, before the
\* lock.  (Otherwise it answers NoSuchUpload.)
StartUpload(r) ==
    \E u \in Uploads :
        /\ uploads[u] # None
        /\ \/ \E op \in {"part", "copyPart"}, n \in PartNumbers, c \in Bodies :
                Start(r, [Idle EXCEPT !.pc = "lock", !.op = op, !.upload = u,
                                      !.number = n, !.body = c])
           \/ \E op \in {"complete", "abort"} :
                Start(r, [Idle EXCEPT !.pc = "lock", !.op = op, !.upload = u])

\* lockUpload waits for the mutex and reads the row again; UploadPart also
\* requires it to be active.
LockUpload(r) ==
    LET q == req[r] IN
    /\ q.pc = "lock"
    /\ lock[q.upload] = None
    /\ \/ /\ IF q.op = "part" THEN Is(q.upload, "active")
                              ELSE uploads[q.upload] # None
          /\ lock' = [lock EXCEPT ![q.upload] = r]
          /\ req' = [req EXCEPT ![r].pc =
                        IF q.op \in {"part", "copyPart"} THEN "write" ELSE "claim"]
       \/ /\ uploads[q.upload] = None \/ (q.op = "part" /\ ~Is(q.upload, "active"))
          /\ End(r)
    /\ UNCHANGED <<db, stale, disk, used, cleaner, process, served, faults>>

-----------------------------------------------------------------------------
(* UploadPart and UploadPartCopy                                           *)

\* WritePart creates the file under the name it keeps ...
CreatePart(r) ==
    /\ req[r].pc = "write"
    /\ \E p \in Paths \ used :
        /\ used' = used \cup {p}
        /\ files' = [files EXCEPT ![p] = [upload |-> req[r].upload, body |-> None]]
        /\ Go(r, [req[r] EXCEPT !.pc = "fill", !.path = p])
    /\ UNCHANGED <<db, stale, blobs, cleaner, process, served, faults>>

\* ... and fills it.
FillPart(r) ==
    /\ req[r].pc = "fill"
    /\ files[req[r].path] # None
    /\ files' = [files EXCEPT ![req[r].path].body = req[r].body]
    /\ Go(r, [req[r] EXCEPT !.pc = "store"])
    /\ UNCHANGED <<db, stale, blobs, used, cleaner, process, served, faults>>

\* The write fails; removing the file, which is complete when only the sync of
\* its directory failed, is best effort.  Without a fault it fails when the
\* directory was removed meanwhile (the final rename reports it), and when the
\* disk is full, the bound on paths.
WritePartFails(r) ==
    LET q == req[r] IN
    /\ \/ q.pc = "write" /\ (Paths \subseteq used) /\ files' = files /\ NoFault
       \/ q.pc = "write" /\ files' = files /\ Fault
       \/ q.pc = "fill" /\ files[q.path] = None /\ files' = files /\ NoFault
       \/ q.pc = "fill" /\ files' \in {files, [files EXCEPT ![q.path] = None]} /\ Fault
       \/ /\ q.pc = "fill" /\ files[q.path] # None
          /\ files' = [files EXCEPT ![q.path].body = q.body] /\ Fault
    /\ End(r)
    /\ UNCHANGED <<db, stale, blobs, used, cleaner, process, served>>

\* The request removes the files in D, then goes to pc t.
Sweeping(q, D, t) == [q EXCEPT !.pc = "sweep", !.doomed = D, !.then = t]

\* The part does not match the checksum the client sent.
BadDigest(r) ==
    LET q == req[r] IN
    /\ q.pc = "store"
    /\ q.op = "part"
    /\ Go(r, Sweeping(q, {q.path}, "idle"))
    /\ UNCHANGED <<db, stale, disk, used, cleaner, process, served, faults>>

\* Mutant: the empty replaced path of a first upload is deleted too.
AddPart_DeletesEmptyPath(r) ==
    LET q == req[r]
        old == parts[q.upload][q.number]
    IN
    /\ q.pc = "store"
    /\ Is(q.upload, "active")
    /\ parts' = [parts EXCEPT ![q.upload][q.number] =
                    [path |-> q.path, etag |-> q.body]]
    /\ Go(r, Sweeping(q, {IF old = None THEN None ELSE old.path}, "idle"))
    /\ UNCHANGED <<bucket, uploads, object, stale, disk, used, cleaner, process,
                   served, faults>>

\* AddPart: one transaction requires an active upload, upserts the part and
\* returns the path it replaced.
AddPart(r) ==
    LET q == req[r]
        old == parts[q.upload][q.number]
    IN
    /\ q.pc = "store"
    /\ Is(q.upload, "active")
    /\ parts' = [parts EXCEPT ![q.upload][q.number] =
                    [path |-> q.path, etag |-> q.body]]
    /\ Go(r, Sweeping(q, IF old = None THEN {} ELSE {old.path}, "idle"))
    /\ UNCHANGED <<bucket, uploads, object, stale, disk, used, cleaner, process,
                   served, faults>>

\* Mutant: a part refused by the database leaves its file behind.
AddPartRefused_KeepsFile(r) ==
    /\ req[r].pc = "store"
    /\ ~Is(req[r].upload, "active")
    /\ End(r)
    /\ UNCHANGED <<db, stale, disk, used, cleaner, process, served, faults>>

\* The upload is gone or claimed, or the transaction fails and rolls back:
\* the new file is removed.
AddPartRefused(r) ==
    LET q == req[r] IN
    /\ q.pc = "store"
    /\ \/ ~Is(q.upload, "active") /\ NoFault
       \/ Fault
    /\ Go(r, Sweeping(q, {q.path}, "idle"))
    /\ UNCHANGED <<db, stale, disk, used, cleaner, process, served>>

\* Storage.Delete outside the request's context.  A failure is only logged.
Sweep(r) ==
    LET q == req[r] IN
    /\ q.pc = "sweep"
    /\ \/ /\ files' = [p \in Paths |-> IF p \in q.doomed THEN None ELSE files[p]]
          /\ blobs' = [p \in Paths |-> IF p \in q.doomed THEN None ELSE blobs[p]]
          /\ NoFault
       \/ UNCHANGED disk /\ Fault
    /\ IF q.then = "idle" THEN End(r)
                          ELSE Go(r, [q EXCEPT !.pc = q.then, !.doomed = {}])
    /\ UNCHANGED <<db, stale, used, cleaner, process, served>>

-----------------------------------------------------------------------------
(* CompleteMultipartUpload and AbortMultipartUpload                        *)

\* The status a claim of operation op gives the upload.
ClaimStatus(op) == IF op = "complete" THEN "completing" ELSE "aborted"

\* Mutant: the status is updated without reading it first.
ClaimUpload_AnyStatus(r) ==
    LET q == req[r] IN
    /\ q.pc = "claim"
    /\ uploads[q.upload] # None
    /\ uploads' = SetUploadStatus(q.upload, ClaimStatus(q.op))
    /\ \E w \in Manifest, cd \in Conditions :
        Go(r, [q EXCEPT !.claim = TRUE,
                 !.pc = IF q.op = "complete" THEN "list" ELSE "deleteRow",
                 !.want = IF q.op = "complete" THEN w ELSE None,
                 !.cond = IF q.op = "complete" THEN cd ELSE "none"])
    /\ UNCHANGED <<bucket, parts, object, stale, disk, used, cleaner, process,
                   served, faults>>

\* ClaimUpload: one transaction moves the upload out of the active state.  A
\* completion has read the client's list of parts by then.
ClaimUpload(r) ==
    LET q == req[r] IN
    /\ q.pc = "claim"
    /\ Is(q.upload, "active")
    /\ uploads' = SetUploadStatus(q.upload, ClaimStatus(q.op))
    /\ \E w \in Manifest, cd \in Conditions :
        Go(r, [q EXCEPT !.claim = TRUE,
                 !.pc = IF q.op = "complete" THEN "list" ELSE "deleteRow",
                 !.want = IF q.op = "complete" THEN w ELSE None,
                 !.cond = IF q.op = "complete" THEN cd ELSE "none"])
    /\ UNCHANGED <<bucket, parts, object, stale, disk, used, cleaner, process,
                   served, faults>>

\* The list of parts is malformed, empty or out of order; the upload is gone
\* or claimed; or the transaction fails and rolls back.
ClaimRefused(r) ==
    LET q == req[r] IN
    /\ q.pc = "claim"
    /\ \/ (q.op = "complete" \/ ~Is(q.upload, "active")) /\ NoFault
       \/ Fault
    /\ End(r)
    /\ UNCHANGED <<db, stale, disk, used, cleaner, process, served>>

\* Mutant: the ETags the client names are not compared.
MatchStoredParts_AnyETag(u, w) == \A n \in DOMAIN w : parts[u][n] # None

\* matchStoredParts: every part named is stored with the ETag named.
MatchStoredParts(u, w) ==
    \A n \in DOMAIN w : parts[u][n] # None /\ parts[u][n].etag = w[n]

\* ListParts reads the rows; the completion works on this copy.
ListParts(r) ==
    LET q == req[r] IN
    /\ q.pc = "list"
    /\ MatchStoredParts(q.upload, q.want)
    /\ Go(r, [q EXCEPT !.pc = "assemble",
                 !.rows = [n \in DOMAIN q.want |-> parts[q.upload][n]],
                 !.got = [n \in {} |-> None]])
    /\ UNCHANGED <<db, stale, disk, used, cleaner, process, served, faults>>

\* A part is missing or has another ETag, a part before the last may be too
\* small, or the query fails.
ListPartsRefused(r) ==
    LET q == req[r] IN
    /\ q.pc = "list"
    /\ \/ (~MatchStoredParts(q.upload, q.want) \/ Cardinality(DOMAIN q.want) > 1) /\ NoFault
       \/ Fault
    /\ Go(r, [q EXCEPT !.pc = "release"])
    /\ UNCHANGED <<db, stale, disk, used, cleaner, process, served>>

Unread(q) == DOMAIN q.rows \ DOMAIN q.got
FirstUnread(q) == CHOOSE n \in Unread(q) : \A m \in Unread(q) : n <= m

\* copyParts opens the part files one after another, in ascending order.
CopyPart(r) ==
    LET q == req[r]
        n == FirstUnread(q)
        f == files[q.rows[n].path]
    IN
    /\ q.pc = "assemble"
    /\ Unread(q) # {}
    /\ f # None
    /\ Go(r, [q EXCEPT !.got = [m \in DOMAIN q.got \cup {n} |->
                                    IF m = n THEN f.body ELSE q.got[m]]])
    /\ UNCHANGED <<db, stale, disk, used, cleaner, process, served, faults>>

\* AssembleParts renames the new file into the bucket's directory.
Assembled(r) ==
    LET q == req[r] IN
    /\ q.pc = "assemble"
    /\ Unread(q) = {}
    /\ \E p \in Paths \ used :
        /\ used' = used \cup {p}
        /\ blobs' = [blobs EXCEPT ![p] = q.got]
        /\ Go(r, [q EXCEPT !.pc = "commit", !.path = p])
    /\ UNCHANGED <<db, stale, files, cleaner, process, served, faults>>

\* A part file is missing, the disk is full or an I/O error occurs.  If only
\* the sync of the directory fails, removing the new file is best effort.
AssembleFails(r) ==
    LET q == req[r] IN
    /\ q.pc = "assemble"
    /\ \/ /\ NoFault
          /\ IF Unread(q) = {} THEN Paths \subseteq used
                               ELSE files[q.rows[FirstUnread(q)].path] = None
          /\ UNCHANGED <<blobs, used>>
       \/ Fault /\ UNCHANGED <<blobs, used>>
       \/ /\ Unread(q) = {}
          /\ \E p \in Paths \ used : /\ used' = used \cup {p}
                                     /\ blobs' = [blobs EXCEPT ![p] = q.got]
          /\ Fault
    /\ Go(r, [q EXCEPT !.pc = "release"])
    /\ UNCHANGED <<db, stale, files, cleaner, process, served>>

\* checkWritePreconditions.  If-Match names an ETag, which may or may not be
\* the current one.
MayCommit(cond) ==
    \/ cond = "none"
    \/ cond = "create" /\ object = None
    \/ cond = "match" /\ object # None
MayRefuse(cond) ==
    \/ cond = "create" /\ object # None
    \/ cond = "match"

\* The row of the assembled object: MultipartETag digests the parts' ETags.
NewObject(q) == [path |-> q.path, etag |-> [n \in DOMAIN q.rows |-> q.rows[n].etag]]

\* Mutant: the transaction does not look at the upload's row.
CompleteUpload_Unchecked(r) ==
    LET q == req[r] IN
    /\ q.pc = "commit"
    /\ MayCommit(q.cond)
    /\ object' = NewObject(q)
    /\ stale' = Visible
    /\ DeleteUpload(q.upload)
    /\ Go(r, [q EXCEPT !.pc = "evict", !.claim = FALSE, !.then = "purge",
                       !.doomed = {w.path : w \in {object} \ {None}}])
    /\ UNCHANGED <<bucket, disk, used, cleaner, process, served, faults>>

\* Mutant: the path handed back for removal is read after the row is written.
CompleteUpload_ReadsNewPath(r) ==
    LET q == req[r] IN
    /\ q.pc = "commit"
    /\ Is(q.upload, "completing")
    /\ MayCommit(q.cond)
    /\ object' = NewObject(q)
    /\ stale' = Visible
    /\ DeleteUpload(q.upload)
    /\ Go(r, [q EXCEPT !.pc = "evict", !.claim = FALSE, !.then = "purge",
                       !.doomed = {object'.path}])
    /\ UNCHANGED <<bucket, disk, used, cleaner, process, served, faults>>

\* CompleteUpload: one transaction verifies the claim and the preconditions,
\* writes the object, removes the upload and returns the replaced path.
CompleteUpload(r) ==
    LET q == req[r] IN
    /\ q.pc = "commit"
    /\ Is(q.upload, "completing")
    /\ MayCommit(q.cond)
    /\ object' = NewObject(q)
    /\ stale' = Visible
    /\ DeleteUpload(q.upload)
    /\ Go(r, [q EXCEPT !.pc = "evict", !.claim = FALSE, !.then = "purge",
                       !.doomed = {w.path : w \in {object} \ {None}}])
    /\ UNCHANGED <<bucket, disk, used, cleaner, process, served, faults>>

\* The transaction rolls back and the assembled file is removed.  A missing
\* upload settles the claim; any other error releases it.
CompleteRefused(r) ==
    LET q == req[r] IN
    /\ q.pc = "commit"
    /\ \/ /\ uploads[q.upload] = None /\ NoFault
          /\ Go(r, [Sweeping(q, {q.path}, "idle") EXCEPT !.claim = FALSE])
       \/ /\ uploads[q.upload] # None
          /\ ~Is(q.upload, "completing") \/ MayRefuse(q.cond)
          /\ NoFault
          /\ Go(r, Sweeping(q, {q.path}, "release"))
       \/ Fault /\ Go(r, Sweeping(q, {q.path}, "release"))
    /\ UNCHANGED <<db, stale, disk, used, cleaner, process, served>>

\* InvalidateObjectCache.
Evict(r) ==
    /\ req[r].pc = "evict"
    /\ stale' = {}
    /\ Go(r, [req[r] EXCEPT !.pc = "sweep"])
    /\ UNCHANGED <<db, disk, used, cleaner, process, served, faults>>

\* AbortMultipartUpload deletes the claimed row.
DeleteRow(r) ==
    LET q == req[r] IN
    /\ q.pc = "deleteRow"
    /\ uploads[q.upload] # None
    /\ DeleteUpload(q.upload)
    /\ Go(r, [q EXCEPT !.pc = "purge", !.claim = FALSE])
    /\ UNCHANGED <<bucket, object, stale, disk, used, cleaner, process, served,
                   faults>>

\* The row is already gone, or the statement reports an error, whether or not
\* it took effect.
DeleteRowFails(r) ==
    LET q == req[r] IN
    /\ q.pc = "deleteRow"
    /\ \/ uploads[q.upload] = None /\ UNCHANGED <<uploads, parts>> /\ NoFault
       \/ UNCHANGED <<uploads, parts>> /\ Fault
       \/ DeleteUpload(q.upload) /\ Fault
    /\ Go(r, [q EXCEPT !.pc = "release"])
    /\ UNCHANGED <<bucket, object, stale, disk, used, cleaner, process, served>>

\* uploadClaim.release: SetUploadStatus by ID, whatever the status is now.  A
\* failure is only logged and leaves the upload claimed.
Release(r) ==
    LET q == req[r] IN
    /\ q.pc = "release"
    /\ \/ uploads' = SetUploadStatus(q.upload, "active") /\ NoFault
       \/ uploads' = uploads /\ Fault
    /\ End(r)
    /\ UNCHANGED <<bucket, parts, object, stale, disk, used, cleaner, process,
                   served>>

\* Part files of upload u on disk.
FilesOf(u) == {p \in Paths : files[p] # None /\ files[p].upload = u}

\* DeleteUploadParts removes the directory, file after file.
PurgeFile(r) ==
    /\ req[r].pc = "purge"
    /\ \E p \in FilesOf(req[r].upload) : files' = [files EXCEPT ![p] = None]
    /\ UNCHANGED <<db, stale, blobs, used, lock, req, cleaner, process, served,
                   faults>>

\* It ends when nothing is left, or with an error that is only logged.
Purged(r) ==
    LET q == req[r] IN
    /\ q.pc = "purge"
    /\ \/ FilesOf(q.upload) = {} /\ NoFault
       \/ Fault
    /\ IF q.op = "drop" THEN Go(r, [q EXCEPT !.pc = "next", !.upload = None])
                        ELSE End(r)
    /\ UNCHANGED <<db, stale, disk, used, cleaner, process, served>>

-----------------------------------------------------------------------------
(* S3 DeleteBucket, which removes pending uploads without lock or claim    *)

StartDrop(r) ==
    /\ bucket
    /\ Start(r, [Idle EXCEPT !.pc = "check", !.op = "drop"])

CheckEmpty(r) ==
    /\ req[r].pc = "check"
    /\ IF object # None THEN End(r) ELSE Go(r, [req[r] EXCEPT !.pc = "uploads"])
    /\ UNCHANGED <<db, stale, disk, used, cleaner, process, served, faults>>

\* ListByBucket, once per iteration: the active uploads only.  A claimed one
\* stays, and its row makes DropBucket fail.
ListUploads(r) ==
    LET pending == {u \in Uploads : Is(u, "active")} IN
    /\ req[r].pc = "uploads"
    /\ Go(r, [req[r] EXCEPT !.todo = pending,
                            !.pc = IF pending = {} THEN "drop" ELSE "next"])
    /\ UNCHANGED <<db, stale, disk, used, cleaner, process, served, faults>>

\* The next upload of the page.  After the page the code lists again, at most
\* maxAbortIterations times.
NextUpload(r) ==
    LET q == req[r] IN
    /\ q.pc = "next"
    /\ \/ \E u \in q.todo : /\ uploads[u] # None
                            /\ DeleteUpload(u)
                            /\ Go(r, [q EXCEPT !.todo = @ \ {u}, !.upload = u,
                                               !.pc = "purge"])
       \/ /\ q.todo = {}
          /\ \E pc \in {"uploads", "drop"} : Go(r, [q EXCEPT !.pc = pc])
          /\ UNCHANGED <<uploads, parts>>
    /\ UNCHANGED <<bucket, object, stale, disk, used, cleaner, process, served,
                   faults>>

\* A row that is already gone ends the request with an error, as does a
\* failing statement, whether or not it took effect.
DropFails(r) ==
    LET q == req[r] IN
    /\ q.pc \in {"check", "uploads", "next", "drop"}
    /\ \/ /\ q.pc = "next" /\ \E u \in q.todo : uploads[u] = None
          /\ UNCHANGED <<uploads, parts>> /\ NoFault
       \/ UNCHANGED <<uploads, parts>> /\ Fault
       \/ q.pc = "next" /\ \E u \in q.todo : DeleteUpload(u) /\ Fault
    /\ End(r)
    /\ UNCHANGED <<bucket, object, stale, disk, used, cleaner, process, served>>

\* Buckets.Delete: the foreign keys refuse it while rows reference the bucket.
DropBucket(r) ==
    /\ req[r].pc = "drop"
    /\ bucket' = (bucket /\ (object # None \/ \E u \in Uploads : uploads[u] # None))
    /\ End(r)
    /\ UNCHANGED <<uploads, parts, object, stale, disk, used, cleaner, process,
                   served, faults>>

-----------------------------------------------------------------------------
(* StaleMultipartCleanup                                                   *)

\* Mutant: only active uploads expire.
Expired_ActiveOnly(w) == w.status = "active" /\ w.created > TTL

\* The WHERE clause of ListStale.
Expired(w) == IF w.status = "active" THEN w.created > TTL ELSE w.updated > TTL

Unlisted(u) == [cleaner EXCEPT !.snap[u] = None]
Listed == {u \in Uploads : cleaner.snap[u] # None}

cleanerOnly == <<bucket, object, stale, blobs, used, lock, req, process, served>>

\* The ticker fires and ListStale answers.
ListStale ==
    /\ phase = "serving"
    /\ cleaner.pc = "sleep"
    /\ cleaner' = [cleaner EXCEPT !.pc = "pick", !.snap =
            [u \in Uploads |-> IF uploads[u] # None /\ Expired(uploads[u])
                               THEN uploads[u] ELSE None]]
    /\ UNCHANGED <<db, stale, disk, used, lock, req, process, served, faults>>

\* The loop over the snapshot; a claimed upload gets twice the TTL.
PickStale ==
    /\ cleaner.pc = "pick"
    /\ \/ \E u \in Listed :
            LET w == cleaner.snap[u]
                pc == IF w.status = "active" THEN "claim"
                      ELSE IF w.updated < 2 * TTL THEN "pick" ELSE "delete"
            IN cleaner' = [Unlisted(u) EXCEPT
                    !.pc = pc, !.upload = IF pc = "pick" THEN None ELSE u]
       \/ Listed = {} /\ cleaner' = Sleeping
    /\ UNCHANGED <<db, stale, disk, used, lock, req, process, served, faults>>

Picked == [cleaner EXCEPT !.pc = "pick", !.upload = None, !.claimed = FALSE]

\* An upload that was listed active is claimed first.
ClaimStale ==
    LET u == cleaner.upload IN
    /\ cleaner.pc = "claim"
    /\ \/ /\ Is(u, "active") /\ NoFault
          /\ uploads' = SetUploadStatus(u, "aborted")
          /\ cleaner' = [cleaner EXCEPT !.pc = "delete", !.claimed = TRUE]
       \/ /\ ~Is(u, "active") /\ NoFault
          /\ UNCHANGED uploads
          /\ cleaner' = Picked
       \/ /\ Fault
          /\ UNCHANGED uploads
          /\ cleaner' = Picked
    /\ UNCHANGED <<cleanerOnly, parts, files>>

\* Mutant: the part files go before the rows that point at them.
DeleteStale_FilesFirst ==
    LET u == cleaner.upload IN
    /\ cleaner.pc = "delete"
    /\ uploads[u] # None
    /\ IF FilesOf(u) # {}
       THEN /\ \E p \in FilesOf(u) : files' = [files EXCEPT ![p] = None]
            /\ UNCHANGED <<uploads, parts, cleaner>>
       ELSE /\ DeleteUpload(u)
            /\ cleaner' = [cleaner EXCEPT !.pc = "purge"]
            /\ files' = files
    /\ UNCHANGED <<cleanerOnly, faults>>

\* The row goes first ...
DeleteStale ==
    LET u == cleaner.upload IN
    /\ cleaner.pc = "delete"
    /\ uploads[u] # None
    /\ DeleteUpload(u)
    /\ cleaner' = [cleaner EXCEPT !.pc = "purge"]
    /\ UNCHANGED <<cleanerOnly, files, faults>>

\* ... unless it is already gone or the statement reports an error, whether or
\* not it took effect.
DeleteStaleFails ==
    LET u == cleaner.upload IN
    /\ cleaner.pc = "delete"
    /\ \/ uploads[u] = None /\ UNCHANGED <<uploads, parts>> /\ NoFault
       \/ UNCHANGED <<uploads, parts>> /\ Fault
       \/ DeleteUpload(u) /\ Fault
    /\ cleaner' = IF cleaner.claimed THEN [cleaner EXCEPT !.pc = "reset"]
                                     ELSE Picked
    /\ UNCHANGED <<cleanerOnly, files>>

\* A claim of the cleanup's own is given back.
ResetStale ==
    /\ cleaner.pc = "reset"
    /\ \/ uploads' = SetUploadStatus(cleaner.upload, "active") /\ NoFault
       \/ uploads' = uploads /\ Fault
    /\ cleaner' = Picked
    /\ UNCHANGED <<cleanerOnly, parts, files>>

\* ... then the directory.
PurgeStale ==
    LET u == cleaner.upload IN
    /\ cleaner.pc = "purge"
    /\ \/ /\ \E p \in FilesOf(u) : files' = [files EXCEPT ![p] = None]
          /\ NoFault
          /\ UNCHANGED cleaner
       \/ /\ FilesOf(u) = {} /\ NoFault
          /\ cleaner' = Picked
          /\ UNCHANGED files
       \/ /\ Fault
          /\ cleaner' = Picked
          /\ UNCHANGED files
    /\ UNCHANGED <<cleanerOnly, uploads, parts>>

\* Time passes.
Tick ==
    LET Aged(w) == IF w = None THEN None
                   ELSE [w EXCEPT !.created = Older(@), !.updated = Older(@)]
    IN
    /\ uploads' = [u \in Uploads |-> Aged(uploads[u])]
    /\ cleaner' = [cleaner EXCEPT !.snap = [u \in Uploads |-> Aged(@[u])]]
    /\ <<uploads', cleaner'>> # <<uploads, cleaner>>
    /\ UNCHANGED <<bucket, parts, object, stale, disk, used, lock, req, process,
                   served, faults>>

-----------------------------------------------------------------------------
(* Crash, reconciliation and restart                                       *)

Crash ==
    /\ crashes < MaxCrashes
    /\ crashes' = crashes + 1
    /\ phase' = "starting"
    /\ req' = [r \in Requests |-> Idle]
    /\ lock' = [u \in Uploads |-> None]
    /\ cleaner' = Sleeping
    /\ stale' = {}
    /\ UNCHANGED <<db, disk, used, served, faults>>

\* Object files without a row, and part files whose upload is unknown.
Orphan(p) ==
    \/ blobs[p] # None /\ p \notin {w.path : w \in {object} \ {None}}
    \/ files[p] # None /\ uploads[files[p].upload] = None

\* Reconcile and ReconcileMultipartTmp.
ReconcileFile(p) ==
    /\ phase = "starting"
    /\ Orphan(p)
    /\ files' = [files EXCEPT ![p] = None]
    /\ blobs' = [blobs EXCEPT ![p] = None]
    /\ UNCHANGED <<db, stale, used, lock, req, cleaner, process, served, faults>>

Serve ==
    /\ phase = "starting"
    /\ \A p \in Paths : ~Orphan(p)
    /\ phase' = "serving"
    /\ UNCHANGED <<db, stale, disk, used, lock, req, cleaner, crashes, served,
                   faults>>

-----------------------------------------------------------------------------

\* The steps of a request that is under way.
Continue(r) ==
    \/ LockUpload(r) \/ CreatePart(r) \/ FillPart(r) \/ WritePartFails(r)
    \/ BadDigest(r) \/ AddPart(r) \/ AddPartRefused(r) \/ Sweep(r)
    \/ ClaimUpload(r) \/ ClaimRefused(r) \/ ListParts(r) \/ ListPartsRefused(r)
    \/ CopyPart(r) \/ Assembled(r) \/ AssembleFails(r)
    \/ CompleteUpload(r) \/ CompleteRefused(r) \/ Evict(r)
    \/ DeleteRow(r) \/ DeleteRowFails(r) \/ Release(r)
    \/ PurgeFile(r) \/ Purged(r)
    \/ CheckEmpty(r) \/ ListUploads(r) \/ NextUpload(r) \/ DropFails(r)
    \/ DropBucket(r)

\* removeStaleUploads, once per tick of its ticker.
Cleanup ==
    \/ ListStale \/ PickStale \/ ClaimStale \/ DeleteStale \/ DeleteStaleFails
    \/ ResetStale \/ PurgeStale

Restart == (\E p \in Paths : ReconcileFile(p)) \/ Serve

Next ==
    \/ \E u \in Uploads : CreateMultipartUpload(u)
    \/ \E r \in Requests : StartUpload(r) \/ StartDrop(r) \/ Continue(r)
    \/ Cleanup
    \/ Tick
    \/ Crash
    \/ Restart

Spec == Init /\ [][Next]_vars

\* A running handler goes on, the cleanup goroutine is scheduled and its ticker
\* fires, time passes, and a crashed server is started again.  No request needs
\* to arrive.
FairSpec ==
    /\ Spec
    /\ \A r \in Requests : WF_vars(Continue(r))
    /\ WF_vars(Cleanup)
    /\ WF_vars(Tick)
    /\ WF_vars(Restart)

-----------------------------------------------------------------------------
(* Properties                                                              *)

\* Every variable and every field of a request has the shape the code gives it.
TypeOK ==
    /\ bucket \in BOOLEAN
    /\ uploads \in [Uploads -> Upload \cup {None}]
    /\ parts \in [Uploads -> [PartNumbers -> Part \cup {None}]]
    /\ object \in Object \cup {None}
    /\ stale \subseteq Object
    /\ files \in [Paths -> PartFile \cup {None}]
    /\ blobs \in [Paths -> Manifest \cup {None}]
    /\ used \subseteq Paths \cup Uploads
    /\ lock \in [Uploads -> Requests \cup {None}]
    /\ req \in [Requests -> Request]
    /\ cleaner \in Cleaner
    /\ phase \in {"starting", "serving"}
    /\ served \in 0..MaxRequests
    /\ faults \in 0..MaxFaults
    /\ crashes \in 0..MaxCrashes

\* "Delete metadata first so rows never point to missing files": the row of a
\* part, in whatever state its upload is, has its complete file on disk, in the
\* directory of its upload.
PartRowsHaveFiles ==
    \A u \in Uploads, n \in PartNumbers :
        LET row == parts[u][n] IN
        row # None => files[row.path] = [upload |-> u, body |-> row.etag]

\* A row of the object that a reader may be given, committed or cached, has its
\* file, and the file holds the parts its multipart ETag was computed from.
ObjectHasFile == \A w \in Visible : blobs[w.path] = w.etag

\* Requests that hold an unsettled claim on u, and the cleanup if it does.
Claimants(u) == {r \in Requests : req[r].claim /\ req[r].upload = u}
CleanerClaims(u) == cleaner.claimed /\ cleaner.upload = u /\ cleaner.pc # "purge"

\* A claim excludes every other: while a row exists at most one request or the
\* cleanup holds a claim on it, and the row has the status that the holder gave
\* it.  So release, which sets the status by ID alone, never undoes the claim
\* of another, and no part is added under a completion.
ClaimsExclude ==
    \A u \in Uploads : uploads[u] # None =>
        /\ \A r \in Claimants(u) : Is(u, ClaimStatus(req[r].op))
        /\ CleanerClaims(u) => Is(u, "aborted")
        /\ Cardinality(Claimants(u)) + (IF CleanerClaims(u) THEN 1 ELSE 0) <= 1

\* A completion commits exactly what its client named: at the commit every part
\* of the list is stored with the ETag named, and the new object's file holds
\* those parts.
CommitsWhatWasNamed ==
    [][\A r \in Requests :
        /\ req[r].pc = "commit"
        /\ req'[r].pc = "evict"
        => /\ object'.etag = req[r].want
           /\ blobs'[object'.path] = req[r].want
           /\ \A n \in DOMAIN req[r].want :
                parts[req[r].upload][n] # None
                /\ parts[req[r].upload][n].etag = req[r].want[n]]_vars

\* An upload yields at most one object: what a commit writes comes from an
\* upload whose row is still there, and IDs are never used again.
CommittedOnce ==
    [][object' # object =>
        \E u \in Uploads : /\ Is(u, "completing")
                           /\ uploads'[u] = None]_vars

\* Files a running request answers for: the one it wrote and has not recorded,
\* those it is about to remove, and the directory it is removing.
Held(q) ==
    (IF q.pc \in {"fill", "store", "commit"} THEN {q.path} ELSE {})
    \cup (IF q.pc \in {"evict", "sweep"} THEN q.doomed ELSE {})
    \cup (IF q.pc = "purge" \/ (q.pc \in {"evict", "sweep"} /\ q.then = "purge")
          THEN FilesOf(q.upload) ELSE {})

\* While serving, every part file is one of a part's row and every object file
\* the object's, or a running request or the cleanup answers for it.  After a
\* crash, part files of an upload that still exists may be left over until the
\* upload ends.  A failed removal is only logged and leaves its file to
\* the next restart, so the claim is for behaviours without one.
NoLeak ==
    phase = "serving" /\ faults = 0 =>
        \A p \in Paths :
            \/ \E r \in Requests : p \in Held(req[r])
            \/ /\ files[p] # None => LET u == files[p].upload IN
                    \/ \E n \in PartNumbers : parts[u][n] # None /\ parts[u][n].path = p
                    \/ crashes > 0 /\ uploads[u] # None
                    \/ cleaner.pc = "purge" /\ cleaner.upload = u
               /\ blobs[p] # None => object # None /\ object.path = p

\* Every upload ends, whatever its clients do or fail to do, and also when a
\* crash or a failed release has left it claimed.
UploadsEnd == \A u \in Uploads : uploads[u] # None ~> uploads[u] = None

\* "Gives non-active uploads an extra TTL-sized grace period": an upload that
\* someone else has claimed when the cleanup removes it has been claimed for
\* twice the TTL.
ClaimsGetGrace ==
    [][\A u \in Uploads :
        /\ cleaner.pc = "delete" /\ cleaner'.pc = "purge"
        /\ cleaner.upload = u /\ ~cleaner.claimed
        /\ ~Is(u, "active")
        => uploads[u].updated >= 2 * TTL]_vars
=============================================================================
