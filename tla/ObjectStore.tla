----------------------------- MODULE ObjectStore -----------------------------
(***************************************************************************)
(* Objects as SQLite rows that point at immutable backing files, under     *)
(* concurrent requests, failures and crashes.                              *)
(*                                                                         *)
(* A request is one HTTP handler invocation (PutObject, CopyObject,        *)
(* GetObject, DeleteObject, DeleteObjects, the management EmptyBucket and  *)
(* DeleteBucket, the S3 CreateBucket and DeleteBucket).  Every database    *)
(* statement or transaction, every file-system call and every cache        *)
(* eviction of a handler is one step; steps of different requests          *)
(* interleave.  The process may crash between any two steps and restarts   *)
(* through storage reconciliation.                                         *)
(*                                                                         *)
(* The metadata cache appears here by what it promises: until the deferred *)
(* eviction of a writer has run, GetByKey may still answer with a row that *)
(* the writer superseded (variable stale).  MetadataCache.tla models the   *)
(* cache that keeps this promise.                                          *)
(***************************************************************************)
EXTENDS Naturals

CONSTANTS
    Buckets,        \* bucket names
    Keys,           \* object keys
    Paths,          \* storage paths; every Write draws a new UUID
    Bodies,         \* file contents; an ETag is the content it digests
    Requests,       \* handler slots: how many requests run at once
    Conditions,     \* <<If-Match, If-None-Match>> pairs sent by clients
    Operations,     \* the operations clients issue
    Faults,         \* TRUE: I/O errors and client disconnects happen
    MaxCrashes,     \* bound on process crashes
    None            \* absent row, file, path or field

Location == Buckets \X Keys
Row == [path : Paths, etag : Bodies]
File == [dir : Buckets, body : Bodies]

\* Header values: absent, the wildcard, or an entity tag.
NoHeader == "absent"
AnyTag == "*"

AllOperations ==
    {"put", "copy", "get", "delete", "empty", "force", "drop", "create"}

ASSUME ConstantsAssumption ==
    /\ None \notin Row
    /\ None \notin File
    /\ None \notin Paths
    /\ None \notin Location
    /\ None \notin Buckets
    /\ Faults \in BOOLEAN
    /\ MaxCrashes \in Nat
    /\ Operations \subseteq AllOperations

VARIABLES
    buckets,    \* names with a row in the buckets table
    objects,    \* objects table: Location -> Row or None
    stale,      \* superseded rows the metadata cache may still serve
    files,      \* backing files under {bucket}/: Paths -> File or None
    tmp,        \* paths whose temporary file exists under .tmp/
    used,       \* paths handed out so far (UUIDs never repeat)
    req,        \* the running requests
    phase,      \* "starting" (reconciling) or "serving"
    crashes     \* crashes so far

db == <<buckets, objects>>
disk == <<files, tmp, used>>
process == <<phase, crashes>>
vars == <<db, stale, disk, req, process>>

-----------------------------------------------------------------------------
(* Requests                                                                *)

PCs == {"idle", "create", "fill", "replace", "load", "open", "next",
        "deleteRow", "list", "force", "check", "drop", "insert",
        "evict", "sweep", "respond"}

Statuses == {"none", "ok", "NoSuchKey", "NoSuchBucket", "PreconditionFailed",
             "BadDigest", "Conflict", "InternalError"}

Request ==
    [pc     : PCs,
     op     : AllOperations \cup {"none"},
     bucket : Buckets \cup {None},
     loc    : Location \cup {None},    \* the object written or deleted
     src    : Location \cup {None},    \* the object read
     cond   : Conditions \cup {None},
     body   : Bodies \cup {None},
     etag   : Bodies \cup {None},
     path   : Paths \cup {None},       \* the file this request wrote
     row    : Row \cup {None},         \* what GetByKey returned
     todo   : SUBSET Location,         \* keys still to list or delete
     doomed : SUBSET Paths,            \* files to remove after the commit
     status : Statuses]

Idle ==
    [pc |-> "idle", op |-> "none", bucket |-> None, loc |-> None,
     src |-> None, cond |-> None, body |-> None, etag |-> None,
     path |-> None, row |-> None, todo |-> {}, doomed |-> {},
     status |-> "none"]

\* Locations of bucket b.
In(b) == {b} \X Keys

\* Rows GetByKey may return for l: the committed one, and those that a
\* cached entry may still hold.
Visible(l) == stale[l] \cup ({objects[l]} \ {None})

\* Paths that committed rows reference.
Referenced == {objects[l].path : l \in {m \in Location : objects[m] # None}}

\* stale after the rows of the locations in S are superseded or deleted.
Supersede(S) ==
    [l \in Location |->
        IF l \in S /\ objects[l] # None THEN stale[l] \cup {objects[l]}
                                        ELSE stale[l]]

\* Paths of the rows of the locations in S.
PathsOf(S) == {objects[l].path : l \in {m \in S : objects[m] # None}}

Go(r, rec) == req' = [req EXCEPT ![r] = rec]

\* The handler writes status s as its response; its locals are dead.
Answer(r, s) ==
    Go(r, [Idle EXCEPT !.pc = "respond", !.op = req[r].op, !.status = s])

\* The transaction or statement is over: its repository evicts, then the
\* files in D go, then the handler responds with s.
Finish(r, s, D) ==
    Go(r, [Idle EXCEPT !.pc = "evict", !.op = req[r].op, !.bucket = req[r].bucket,
                       !.loc = req[r].loc, !.todo = req[r].todo,
                       !.doomed = D, !.status = s])

Init ==
    /\ buckets = {}
    /\ objects = [l \in Location |-> None]
    /\ stale = [l \in Location |-> {}]
    /\ files = [p \in Paths |-> None]
    /\ tmp = {}
    /\ used = {}
    /\ req = [r \in Requests |-> Idle]
    /\ phase = "starting"
    /\ crashes = 0

\* A handler begins once its bucket passed authorization.  The bucket may be
\* gone by the time of any later step.
Start(r, rec) ==
    /\ phase = "serving"
    /\ req[r].pc = "idle"
    /\ rec.op \in Operations
    /\ Go(r, rec)
    /\ UNCHANGED <<db, stale, disk, process>>

\* The response is written and the slot is free again.
Respond(r) ==
    /\ req[r].pc = "respond"
    /\ Go(r, Idle)
    /\ UNCHANGED <<db, stale, disk, process>>

-----------------------------------------------------------------------------
(* PutObject and CopyObject                                                *)

StartPut(r) ==
    \E l \in Location, c \in Bodies, cd \in Conditions :
        /\ l[1] \in buckets
        /\ Start(r, [Idle EXCEPT !.pc = "create", !.op = "put",
                        !.bucket = l[1], !.loc = l, !.cond = cd,
                        !.body = c, !.etag = c])

\* Both buckets are checked before the source row is read.
StartCopy(r) ==
    \E s, l \in Location, cd \in Conditions :
        /\ s[1] \in buckets
        /\ l[1] \in buckets
        /\ Start(r, [Idle EXCEPT !.pc = "load", !.op = "copy",
                        !.bucket = l[1], !.loc = l, !.src = s, !.cond = cd])

\* Storage.Write: the temporary file is created under a new UUID.
CreateTemp(r) ==
    /\ req[r].pc = "create"
    /\ \E p \in Paths \ used :
        /\ used' = used \cup {p}
        /\ tmp' = tmp \cup {p}
        /\ Go(r, [req[r] EXCEPT !.pc = "fill", !.path = p])
    /\ UNCHANGED <<db, stale, files, process>>

\* Mutant: a copied file is published in the directory of its source bucket.
PublishFile_SourceDir(r) ==
    /\ req[r].pc = "fill"
    /\ tmp' = tmp \ {req[r].path}
    /\ files' = [files EXCEPT ![req[r].path] =
                    [dir |-> IF req[r].op = "copy" THEN req[r].src[1] ELSE req[r].bucket,
                     body |-> req[r].body]]
    /\ Go(r, [req[r] EXCEPT !.pc = "replace"])
    /\ UNCHANGED <<db, stale, used, process>>

\* ... filled, synced and renamed into the bucket's directory.
PublishFile(r) ==
    /\ req[r].pc = "fill"
    /\ tmp' = tmp \ {req[r].path}
    /\ files' = [files EXCEPT ![req[r].path] =
                    [dir |-> req[r].bucket, body |-> req[r].body]]
    /\ Go(r, [req[r] EXCEPT !.pc = "replace"])
    /\ UNCHANGED <<db, stale, used, process>>

\* ... or it fails and removes the temporary file, or the published one when
\* the sync of its directory fails, on a best-effort basis.
\* The bound: once every path is used, the disk is full.
WriteFails(r) ==
    /\ Faults \/ (req[r].pc = "create" /\ used = Paths)
    /\ \/ /\ req[r].pc \in {"create", "fill"}
          /\ tmp' \in {tmp, tmp \ {req[r].path}}
          /\ UNCHANGED files
       \/ /\ req[r].pc = "fill"
          /\ tmp' = tmp \ {req[r].path}
          /\ files' = [files EXCEPT ![req[r].path] =
                          [dir |-> req[r].bucket, body |-> req[r].body]]
    /\ Answer(r, "InternalError")
    /\ UNCHANGED <<db, stale, used, process>>

\* The body does not match the checksum the client sent.
BadDigest(r) ==
    /\ req[r].pc = "replace"
    /\ req[r].op = "put"
    /\ Go(r, [req[r] EXCEPT !.pc = "sweep", !.doomed = {req[r].path},
                            !.status = "BadDigest"])
    /\ UNCHANGED <<db, stale, disk, process>>

\* Mutant: the wildcard of If-None-Match is compared as an ETag.
CheckWritePreconditions_NoWildcard(existing, cond) ==
    IF existing = None
    THEN IF cond[1] # NoHeader THEN "NoSuchKey" ELSE "ok"
    ELSE IF \/ cond[1] \notin {NoHeader, AnyTag, existing.etag}
            \/ cond[2] = existing.etag
         THEN "PreconditionFailed"
         ELSE "ok"

CheckWritePreconditions(existing, cond) ==
    IF existing = None
    THEN IF cond[1] # NoHeader THEN "NoSuchKey" ELSE "ok"
    ELSE IF \/ cond[1] \notin {NoHeader, AnyTag, existing.etag}
            \/ cond[2] \in {AnyTag, existing.etag}
         THEN "PreconditionFailed"
         ELSE "ok"

\* Mutant: foreign keys are not enforced on this connection.
Replace_NoForeignKey(r) ==
    LET q == req[r] IN
    /\ q.pc = "replace"
    /\ CheckWritePreconditions(objects[q.loc], q.cond) = "ok"
    /\ objects' = [objects EXCEPT ![q.loc] = [path |-> q.path, etag |-> q.etag]]
    /\ stale' = Supersede({q.loc})
    /\ Finish(r, "ok", PathsOf({q.loc}))
    /\ UNCHANGED <<buckets, disk, process>>

\* Mutant: the empty replaced path of a first write is deleted too.
Replace_DeletesEmptyPath(r) ==
    LET q == req[r] IN
    /\ q.pc = "replace"
    /\ q.bucket \in buckets
    /\ CheckWritePreconditions(objects[q.loc], q.cond) = "ok"
    /\ objects' = [objects EXCEPT ![q.loc] = [path |-> q.path, etag |-> q.etag]]
    /\ stale' = Supersede({q.loc})
    /\ Finish(r, "ok", IF objects[q.loc] = None THEN {None} ELSE PathsOf({q.loc}))
    /\ UNCHANGED <<buckets, disk, process>>

\* objects.Replace: one write transaction checks the conditions, upserts the
\* row and returns the path it replaced.  A cancelled context is noticed
\* before COMMIT or not at all, so an error means nothing was written.
Replace(r) ==
    LET q == req[r] IN
    /\ q.pc = "replace"
    /\ q.bucket \in buckets
    /\ CheckWritePreconditions(objects[q.loc], q.cond) = "ok"
    /\ objects' = [objects EXCEPT ![q.loc] = [path |-> q.path, etag |-> q.etag]]
    /\ stale' = Supersede({q.loc})
    /\ Finish(r, "ok", PathsOf({q.loc}))
    /\ UNCHANGED <<buckets, disk, process>>

\* Mutant: a refused write leaves its file behind.
ReplaceRefused_KeepsFile(r) ==
    LET q == req[r]
        outcome == CheckWritePreconditions(objects[q.loc], q.cond)
    IN
    /\ q.pc = "replace"
    /\ outcome # "ok"
    /\ Finish(r, outcome, {})
    /\ UNCHANGED <<db, stale, disk, process>>

\* The transaction rolls back: a condition fails, the bucket is gone (foreign
\* key), or the database or the client's context fails.
ReplaceRefused(r) ==
    LET q == req[r]
        outcome == CheckWritePreconditions(objects[q.loc], q.cond)
    IN
    /\ q.pc = "replace"
    /\ \E s \in Statuses :
        /\ \/ outcome # "ok" /\ s = outcome
           \/ q.bucket \notin buckets /\ outcome = "ok" /\ s = "InternalError"
           \/ Faults /\ s = "InternalError"
        /\ Finish(r, s, {q.path})
    /\ UNCHANGED <<db, stale, disk, process>>

-----------------------------------------------------------------------------
(* After the transaction: evict, remove files, respond                     *)

\* Mutant: bulk deletions evict only a single key.
Evicted_OneKey(q) == {q.loc}

\* The deferred eviction of the cached repositories: of one key, or of the
\* whole bucket.
Evicted(q) == IF q.op \in {"put", "copy", "delete"} THEN {q.loc} ELSE In(q.bucket)

\* Mutant: the write returns without evicting.
Evict_Skipped(r) ==
    /\ req[r].pc = "evict"
    /\ Go(r, [req[r] EXCEPT !.pc = "sweep"])
    /\ UNCHANGED <<db, stale, disk, process>>

Evict(r) ==
    /\ req[r].pc = "evict"
    /\ stale' = [l \in Location |-> IF l \in Evicted(req[r]) THEN {} ELSE stale[l]]
    /\ Go(r, [req[r] EXCEPT !.pc = "sweep"])
    /\ UNCHANGED <<db, disk, process>>

\* Storage.Delete of one file; a missing file is no error.
SweepFile(r) ==
    /\ req[r].pc = "sweep"
    /\ \E p \in req[r].doomed :
        /\ files' = [files EXCEPT ![p] = None]
        /\ Go(r, [req[r] EXCEPT !.doomed = @ \ {p}])
    /\ UNCHANGED <<db, stale, tmp, used, process>>

\* A failed removal is only logged by writes; EmptyBucket and DeleteObject
\* stop at it and answer 500; the management DeleteBucket goes on and then
\* answers 500.
SweepFails(r) ==
    LET q == req[r] IN
    /\ Faults
    /\ q.pc = "sweep"
    /\ \E p \in q.doomed :
        Go(r, [q EXCEPT
                    !.doomed = IF q.op = "empty" THEN {} ELSE @ \ {p},
                    !.status = IF q.op \in {"delete", "empty", "force"}
                               THEN "InternalError" ELSE @])
    /\ UNCHANGED <<db, stale, disk, process>>

Swept(r) ==
    /\ req[r].pc = "sweep"
    /\ req[r].doomed = {}
    /\ IF req[r].op = "delete" /\ req[r].status = "ok"
       THEN Go(r, [req[r] EXCEPT !.pc = "next"])
       ELSE Answer(r, req[r].status)
    /\ UNCHANGED <<db, stale, disk, process>>

-----------------------------------------------------------------------------
(* Reading a row, then its file: GetObject, and the source of CopyObject   *)

StartGet(r) ==
    \E l \in Location :
        /\ l[1] \in buckets
        /\ Start(r, [Idle EXCEPT !.pc = "load", !.op = "get",
                        !.bucket = l[1], !.src = l])

\* GetByKey finds a row, in the cache or in the table.
Load(r) ==
    /\ req[r].pc = "load"
    /\ \E w \in Visible(req[r].src) :
        Go(r, [req[r] EXCEPT !.row = w,
                 !.pc = IF req[r].op = "delete" THEN "deleteRow" ELSE "open"])
    /\ UNCHANGED <<db, stale, disk, process>>

\* GetByKey reports ErrObjectNotFound, which DELETE treats as done.
LoadMissing(r) ==
    /\ req[r].pc = "load"
    /\ objects[req[r].src] = None
    /\ IF req[r].op = "delete"
       THEN Go(r, [req[r] EXCEPT !.pc = "next"])
       ELSE Answer(r, "NoSuchKey")
    /\ UNCHANGED <<db, stale, disk, process>>

LoadFails(r) ==
    /\ Faults
    /\ req[r].pc = "load"
    /\ Answer(r, "InternalError")
    /\ UNCHANGED <<db, stale, disk, process>>

\* Storage.Open; an open file stays readable after it is unlinked.  The copy
\* keeps the ETag of the source row.
Open(r) ==
    /\ req[r].pc = "open"
    /\ files[req[r].row.path] # None
    /\ IF req[r].op = "get"
       THEN Answer(r, "ok")
       ELSE Go(r, [req[r] EXCEPT !.pc = "create", !.etag = req[r].row.etag,
                                 !.body = files[req[r].row.path].body])
    /\ UNCHANGED <<db, stale, disk, process>>

OpenFails(r) ==
    /\ req[r].pc = "open"
    /\ Faults \/ files[req[r].row.path] = None
    /\ Answer(r, "InternalError")
    /\ UNCHANGED <<db, stale, disk, process>>

-----------------------------------------------------------------------------
(* DeleteObject (one key) and DeleteObjects (several, one after another)   *)

StartDelete(r) ==
    \E b \in buckets : \E S \in SUBSET In(b) :
        /\ S # {}
        /\ Start(r, [Idle EXCEPT !.pc = "next", !.op = "delete",
                        !.bucket = b, !.todo = S])

NextKey(r) ==
    /\ req[r].pc = "next"
    /\ \/ \E l \in req[r].todo :
            Go(r, [req[r] EXCEPT !.pc = "load", !.loc = l, !.src = l,
                                 !.todo = @ \ {l}])
       \/ req[r].todo = {} /\ Answer(r, "ok")
    /\ UNCHANGED <<db, stale, disk, process>>

\* repo.Delete removes whatever row the key has now; the file to remove is
\* the one of the row read before.
DeleteRow(r) ==
    LET q == req[r] IN
    /\ q.pc = "deleteRow"
    /\ objects[q.loc] # None
    /\ objects' = [objects EXCEPT ![q.loc] = None]
    /\ stale' = Supersede({q.loc})
    /\ Finish(r, "ok", {q.row.path})
    /\ UNCHANGED <<buckets, disk, process>>

\* Another request deleted the row first: ErrObjectNotFound becomes a 500.
DeleteRowMissing(r) ==
    /\ req[r].pc = "deleteRow"
    /\ objects[req[r].loc] = None
    /\ Finish(r, "InternalError", {})
    /\ UNCHANGED <<db, stale, disk, process>>

\* The autocommitted statement reports an error; with a cancelled context it
\* may nevertheless have taken effect.
DeleteRowFails(r) ==
    LET q == req[r] IN
    /\ Faults
    /\ q.pc = "deleteRow"
    /\ \/ UNCHANGED <<objects, stale>>
       \/ /\ objects' = [objects EXCEPT ![q.loc] = None]
          /\ stale' = Supersede({q.loc})
    /\ Finish(r, "InternalError", {})
    /\ UNCHANGED <<buckets, disk, process>>

-----------------------------------------------------------------------------
(* Management EmptyBucket                                                  *)

StartEmpty(r) ==
    \E b \in buckets :
        Start(r, [Idle EXCEPT !.pc = "list", !.op = "empty",
                     !.bucket = b, !.todo = In(b)])

\* ListAllObjects reads page after page; a page ends anywhere.
ListPage(r) ==
    /\ req[r].pc = "list"
    /\ \E page \in SUBSET req[r].todo \ {{}} :
        Go(r, [req[r] EXCEPT !.todo = @ \ page,
                             !.doomed = @ \cup PathsOf(page)])
    /\ UNCHANGED <<db, stale, disk, process>>

\* DeleteAllInBucket also removes rows that were not listed.
DeleteAll(r) ==
    LET q == req[r] IN
    /\ q.pc = "list"
    /\ q.todo = {}
    /\ objects' = [l \in Location |-> IF l \in In(q.bucket) THEN None ELSE objects[l]]
    /\ stale' = Supersede(In(q.bucket))
    /\ Finish(r, "ok", q.doomed)
    /\ UNCHANGED <<buckets, disk, process>>

\* A page cannot be read.
ListFails(r) ==
    /\ Faults
    /\ req[r].pc = "list"
    /\ req[r].todo # {}
    /\ Answer(r, "InternalError")
    /\ UNCHANGED <<db, stale, disk, process>>

\* The statement reports an error, whether or not it took effect.
DeleteAllFails(r) ==
    LET q == req[r] IN
    /\ Faults
    /\ q.pc = "list"
    /\ q.todo = {}
    /\ \/ UNCHANGED <<objects, stale>>
       \/ /\ objects' = [l \in Location |-> IF l \in In(q.bucket) THEN None
                                                                ELSE objects[l]]
          /\ stale' = Supersede(In(q.bucket))
    /\ Finish(r, "InternalError", {})
    /\ UNCHANGED <<buckets, disk, process>>

-----------------------------------------------------------------------------
(* Buckets: management DeleteBucket, S3 DeleteBucket, CreateBucket         *)

StartForce(r) ==
    \E b \in buckets :
        Start(r, [Idle EXCEPT !.pc = "force", !.op = "force", !.bucket = b])

\* DeleteWithObjects: rows and bucket go in one transaction, and exactly the
\* files of the removed rows are removed afterwards.
ForceDelete(r) ==
    LET q == req[r] IN
    /\ q.pc = "force"
    /\ q.bucket \in buckets
    /\ buckets' = buckets \ {q.bucket}
    /\ objects' = [l \in Location |-> IF l \in In(q.bucket) THEN None ELSE objects[l]]
    /\ stale' = Supersede(In(q.bucket))
    /\ Finish(r, "ok", PathsOf(In(q.bucket)))
    /\ UNCHANGED <<disk, process>>

\* Rolled back: no such bucket, pending multipart uploads, or an error.
ForceRefused(r) ==
    LET q == req[r] IN
    /\ q.pc = "force"
    /\ \E s \in Statuses :
        /\ \/ q.bucket \notin buckets /\ s = "NoSuchBucket"
           \/ s = "Conflict"
           \/ Faults /\ s = "InternalError"
        /\ Finish(r, s, {})
    /\ UNCHANGED <<db, stale, disk, process>>

StartDrop(r) ==
    \E b \in buckets :
        Start(r, [Idle EXCEPT !.pc = "check", !.op = "drop", !.bucket = b])

\* The emptiness check of the S3 DeleteBucket is a read of its own, which may
\* fail.
CheckEmpty(r) ==
    /\ req[r].pc = "check"
    /\ \/ PathsOf(In(req[r].bucket)) # {} /\ Answer(r, "Conflict")
       \/ PathsOf(In(req[r].bucket)) = {} /\ Go(r, [req[r] EXCEPT !.pc = "drop"])
       \/ Faults /\ Answer(r, "InternalError")
    /\ UNCHANGED <<db, stale, disk, process>>

\* buckets.Delete: the foreign keys refuse it while rows reference the bucket.
DropBucket(r) ==
    LET q == req[r] IN
    /\ q.pc = "drop"
    /\ q.bucket \in buckets
    /\ PathsOf(In(q.bucket)) = {}
    /\ buckets' = buckets \ {q.bucket}
    /\ \E s \in {"ok"} \cup (IF Faults THEN {"InternalError"} ELSE {}) :
        Finish(r, s, {})
    /\ UNCHANGED <<objects, stale, disk, process>>

\* Rows of objects or of multipart uploads remain, the bucket is gone, or an
\* error leaves everything as it was.
DropRefused(r) ==
    LET q == req[r] IN
    /\ q.pc = "drop"
    /\ \E s \in Statuses :
        /\ \/ q.bucket \notin buckets /\ s = "NoSuchBucket"
           \/ q.bucket \in buckets /\ s = "Conflict"
           \/ Faults /\ s = "InternalError"
        /\ Finish(r, s, {})
    /\ UNCHANGED <<db, stale, disk, process>>

StartCreate(r) ==
    \E b \in Buckets \ buckets :
        Start(r, [Idle EXCEPT !.pc = "insert", !.op = "create", !.bucket = b])

\* What CreateBucket answers when the insert reports an error: it looks the
\* bucket up, which by then may exist, have gone again, or not be readable.
InsertErrors == {"Conflict", "InternalError"}

\* The autocommitted insert; with a cancelled context it may report an error
\* although it took effect.
InsertBucket(r) ==
    LET q == req[r] IN
    /\ q.pc = "insert"
    /\ q.bucket \notin buckets
    /\ buckets' = buckets \cup {q.bucket}
    /\ \E s \in {"ok"} \cup (IF Faults THEN InsertErrors ELSE {}) :
        Finish(r, s, {})
    /\ UNCHANGED <<objects, stale, disk, process>>

\* The name is taken, or the statement fails.
InsertRefused(r) ==
    LET q == req[r] IN
    /\ q.pc = "insert"
    /\ q.bucket \in buckets \/ Faults
    /\ \E s \in InsertErrors : Finish(r, s, {})
    /\ UNCHANGED <<db, stale, disk, process>>

-----------------------------------------------------------------------------
(* Crash, reconciliation and restart                                       *)

\* Files on disk that no row of their own bucket references.
Orphan(p) ==
    /\ files[p] # None
    /\ p \notin PathsOf(In(files[p].dir))

\* The process dies; committed rows and the disk survive, requests and the
\* cache do not.
Crash ==
    /\ crashes < MaxCrashes
    /\ crashes' = crashes + 1
    /\ phase' = "starting"
    /\ req' = [r \in Requests |-> Idle]
    /\ stale' = [l \in Location |-> {}]
    /\ UNCHANGED <<db, disk>>

\* Reconcile removes temporary files and orphans, one os.Remove at a time.
ReconcileFile(p) ==
    /\ phase = "starting"
    /\ p \in tmp \/ Orphan(p)
    /\ tmp' = tmp \ {p}
    /\ files' = [files EXCEPT ![p] = None]
    /\ UNCHANGED <<db, stale, used, req, process>>

\* Reconciliation is complete and the server starts to listen.
Serve ==
    /\ phase = "starting"
    /\ tmp = {}
    /\ \A p \in Paths : ~Orphan(p)
    /\ phase' = "serving"
    /\ UNCHANGED <<db, stale, disk, req, crashes>>

-----------------------------------------------------------------------------

Step(r) ==
    \/ StartPut(r) \/ StartCopy(r) \/ CreateTemp(r) \/ PublishFile(r)
    \/ WriteFails(r) \/ BadDigest(r) \/ Replace(r) \/ ReplaceRefused(r)
    \/ Evict(r) \/ SweepFile(r) \/ SweepFails(r) \/ Swept(r) \/ Respond(r)
    \/ StartGet(r) \/ Load(r) \/ LoadMissing(r) \/ LoadFails(r)
    \/ Open(r) \/ OpenFails(r)
    \/ StartDelete(r) \/ NextKey(r) \/ DeleteRow(r) \/ DeleteRowMissing(r)
    \/ DeleteRowFails(r)
    \/ StartEmpty(r) \/ ListPage(r) \/ ListFails(r) \/ DeleteAll(r)
    \/ DeleteAllFails(r)
    \/ StartForce(r) \/ ForceDelete(r) \/ ForceRefused(r)
    \/ StartDrop(r) \/ CheckEmpty(r) \/ DropBucket(r) \/ DropRefused(r)
    \/ StartCreate(r) \/ InsertBucket(r) \/ InsertRefused(r)

Next ==
    \/ \E r \in Requests : Step(r)
    \/ \E p \in Paths : ReconcileFile(p)
    \/ Serve
    \/ Crash

Spec == Init /\ [][Next]_vars

-----------------------------------------------------------------------------
(* Properties                                                              *)

\* Every variable and every field of a request has the shape the code gives it.
TypeOK ==
    /\ buckets \subseteq Buckets
    /\ objects \in [Location -> Row \cup {None}]
    /\ stale \in [Location -> SUBSET Row]
    /\ files \in [Paths -> File \cup {None}]
    /\ tmp \subseteq Paths
    /\ used \subseteq Paths
    /\ req \in [Requests -> Request]
    /\ phase \in {"starting", "serving"}
    /\ crashes \in 0..MaxCrashes

\* "rows never point to missing files": whatever row GetByKey hands out, the
\* committed one or one still cached, its backing file is on disk, in the
\* directory of the row's own bucket (where Reconcile looks), and has the
\* content the ETag describes.
RowsHaveFiles ==
    \A l \in Location : \A w \in Visible(l) :
        /\ files[w.path] # None
        /\ files[w.path].dir = l[1]
        /\ files[w.path].body = w.etag

\* No two keys ever share a backing file, so replacing or deleting one object
\* cannot take the content of another.
PathsNotShared ==
    \A l, m \in Location : \A v \in Visible(l), w \in Visible(m) :
        v.path = w.path => l = m

\* Once a request starts removing files, no row that a reader can still be
\* given points at one of them: files go only after the commit that drops the
\* row and after the eviction of the cached copy.
SweepsOnlyDeadFiles ==
    \A r \in Requests : req[r].pc = "sweep" =>
        \A l \in Location : \A w \in Visible(l) : w.path \notin req[r].doomed

\* Objects exist only in existing buckets, whatever deletes the bucket while
\* a write is under way, so a bucket created anew starts empty.
RowsInBuckets ==
    \A l \in Location : objects[l] # None => l[1] \in buckets

\* Files a running request answers for: the one it has written and not yet
\* committed, and those it is about to remove.
Held(q) ==
    (IF q.pc \in {"fill", "replace"} THEN {q.path} ELSE {})
    \cup (IF q.pc \in {"evict", "sweep"} THEN q.doomed ELSE {})

\* While serving, every file on disk is referenced by a row or held by a
\* running request.  Claimed where no removal fails and where neither a
\* DELETE nor EmptyBucket, which name files read before their statement, runs.
NoLeak ==
    phase = "serving" =>
        \A p \in Paths : (p \in tmp \/ files[p] # None) =>
            \/ p \in Referenced
            \/ \E r \in Requests : p \in Held(req[r])

\* A write sent with If-None-Match: * never replaces a committed object, no
\* matter what is committed while its body is streamed to disk.
CreateNeverOverwrites ==
    [][\A r \in Requests, l \in Location :
        /\ req[r].pc = "replace"
        /\ req'[r].pc = "evict"
        /\ req[r].loc = l
        /\ req[r].cond[2] = AnyTag
        /\ objects[l] # None
        => objects'[l] = objects[l]]_vars

\* "Missing objects are treated as successful no-op deletes": without faults
\* a DELETE never answers with an error.
DeleteOfMissingIsNoOp ==
    \A r \in Requests :
        req[r].pc = "respond" /\ req[r].op = "delete" => req[r].status = "ok"

\* UUID paths remove races during overwrite: without faults a GET that found
\* a row serves its content.
GetNeverFails ==
    \A r \in Requests :
        req[r].pc = "respond" /\ req[r].op = "get"
            => req[r].status \in {"ok", "NoSuchKey"}

=============================================================================
