------------------------------- MODULE Access -------------------------------
(***************************************************************************)
(* Who may do what: users and their keys, first-start setup, resource      *)
(* grants, bucket ownership, share links, and the authorization of a       *)
(* request against them.                                                   *)
(*                                                                         *)
(* A request authenticates once and keeps the principal it was given.  It  *)
(* then reads and writes the users, buckets, grants and share_links tables *)
(* one statement (or one transaction) per step, so the rows it decided on  *)
(* may have changed by the time it acts.  Bucket rows are read through the *)
(* metadata cache, which may answer with a superseded owner until the      *)
(* writer has evicted (variable stale, the promise of Repository.tla).     *)
(* Object rows are not modelled here: that an object exists is a choice.   *)
(***************************************************************************)
EXTENDS Credentials, FiniteSets, Sequences

CONSTANTS
    Buckets,        \* bucket names
    GrantIds,       \* grant UUIDs
    Codes,          \* share link codes and aliases
    Keys,           \* object keys and list prefixes (sequences of characters)
    Prefixes,       \* grant prefixes (sequences, <<>> is the whole bucket)
    Actions,        \* S3 actions requests ask for
    Batches,        \* sets of actions that grants are created for
    TTLs,           \* requested share link lifetimes
    Sent,           \* the credentials requests carry
    Requests,       \* handler slots: how many requests run at once
    Operations,     \* the operations clients issue
    Seeds,          \* initial contents of the four tables
    MaxRequests,    \* bound on the requests that begin
    MaxClock        \* bound on time

Roles == {"admin", "member"}
User == [role : Roles, active : BOOLEAN]

\* The actions a grant may hold: bucket creation and deletion are not among them.
Grantable == {"ListBucket", "GetObject", "PutObject", "DeleteObject",
              "ListMultipartUploadParts", "AbortMultipartUpload"}

Grant == [bucket : Buckets, grantee : Users, action : Grantable,
          prefix : Prefixes, active : BOOLEAN]

Link == [bucket : Buckets, key : Keys, creator : Users,
         expires : Nat \cup {None}]

AllOperations ==
    {"setup", "createKey", "deleteKey", "patchKey", "createLink", "deleteLink",
     "createGrants", "patchGrant", "deleteGrant", "transfer", "createBucket",
     "deleteBucket", "forceDelete", "object", "deleteObjects", "readLink"}

ASSUME AccessAssumption ==
    /\ None \notin Buckets
    /\ None \notin GrantIds
    /\ None \notin Codes
    /\ None \notin Keys
    /\ None \notin Prefixes
    /\ None \notin User
    /\ None \notin Grant
    /\ None \notin Link
    /\ Actions \subseteq Grantable
    /\ Batches \subseteq (SUBSET Actions) \ {{}}
    /\ TTLs \subseteq (Nat \ {0}) \cup {None}
    /\ Sent \subseteq Credential
    /\ Operations \subseteq AllOperations
    /\ MaxRequests \in Nat
    /\ MaxClock \in Nat

\* The schema holds of the tables a run starts with: the columns, the unique
\* index on active grants and the foreign keys.
ASSUME SeedsAssumption ==
    \A s \in Seeds :
        /\ s.users \in [Users -> User \cup {None}]
        /\ s.owner \in [Buckets -> Users \cup {None}]
        /\ s.grants \in [GrantIds -> Grant \cup {None}]
        /\ s.links \in [Codes -> Link \cup {None}]
        /\ \A b \in Buckets : s.owner[b] # None => s.users[s.owner[b]] # None
        /\ \A g \in GrantIds : s.grants[g] # None =>
            /\ s.owner[s.grants[g].bucket] # None
            /\ s.users[s.grants[g].grantee] # None
            /\ \A h \in GrantIds \ {g} : s.grants[h] # None =>
                \/ ~s.grants[g].active \/ ~s.grants[h].active
                \/ \E col \in {"bucket", "grantee", "action", "prefix"} :
                    s.grants[g][col] # s.grants[h][col]
        /\ \A c \in Codes : s.links[c] # None =>
            s.owner[s.links[c].bucket] # None /\ s.users[s.links[c].creator] # None

VARIABLES
    users,      \* users table: Users -> User or None
    owner,      \* buckets table: Buckets -> owner or None
    grants,     \* grants table: GrantIds -> Grant or None
    links,      \* share_links table: Codes -> Link or None
    stale,      \* superseded owners the metadata cache may still serve
    issued,     \* user and grant UUIDs handed out so far
    clock,      \* time
    req,        \* the running requests
    begun,      \* requests begun so far
    first,      \* history: the users that first-start setup created
    held        \* history: what has been true since each request began

db == <<users, owner, grants, links>>
vars == <<db, stale, issued, clock, req, begun, first, held>>

-----------------------------------------------------------------------------
(* Requests                                                                *)

PCs == {"idle", "setup", "authed", "patchKey", "linkCreator", "insertLink",
        "grantee", "insertGrants", "loadGrant", "updateGrant", "deleteGrant",
        "newOwner", "updateOwner", "createBucket", "relationship", "authorize",
        "allowed", "dropBucket", "linkUser", "linkBucket", "evict"}

Request ==
    [pc     : PCs,
     op     : AllOperations \cup {"none"},
     who    : Users \cup {None},          \* the principal
     role   : Roles \cup {None},
     bucket : Buckets \cup {None},
     owner  : Users \cup {None},          \* the owner GetByName returned
     action : Grantable \cup {"DeleteBucket", None},
     key    : Keys \cup {None},
     user   : Users \cup {None},          \* user patched, grantee or new owner
     id     : GrantIds \cup {None},
     row    : User \cup Grant \cup {None},    \* the row read, as modified
     ask    : BOOLEAN \cup {None},         \* the is_active a patch asks for
     code   : Codes \cup {None}]

Idle ==
    [pc |-> "idle", op |-> "none", who |-> None, role |-> None, bucket |-> None,
     owner |-> None, action |-> None, key |-> None, user |-> None, id |-> None,
     row |-> None, ask |-> None, code |-> None]

Present == {u \in Users : users[u] # None}

\* GetByName: the committed owner, or one that a cached row still names.
OwnersSeen(b) == stale[b] \cup ({owner[b]} \ {None})

\* strings.HasPrefix
HasPrefix(s, p) == Len(p) <= Len(s) /\ SubSeq(s, 1, Len(p)) = p

\* The grants ListActiveForGranteeBucket returns.
ListActive(u, b) ==
    {g \in GrantIds : /\ grants[g] # None
                      /\ grants[g].grantee = u
                      /\ grants[g].bucket = b
                      /\ grants[g].active}

\* Evaluator.Allow for a bucket whose row names o as its owner: admins,
\* owners, then a matching active grant; deleting a bucket is not grantable.
Allow(who, role, action, b, o, key) ==
    \/ role = "admin"
    \/ o = who
    \/ /\ action # "DeleteBucket"
       /\ \E g \in ListActive(who, b) : /\ grants[g].action = action
                                        /\ HasPrefix(key, grants[g].prefix)

\* IsExpired: at the expiry the link is over.
Expired(link) == link.expires # None /\ clock >= link.expires

\* The row a unique index on active grants identifies g by.
Identity(g) == <<g.bucket, g.grantee, g.action, g.prefix>>
ActiveAs(g) == {h \in GrantIds : /\ grants[h] # None
                                 /\ grants[h].active
                                 /\ Identity(grants[h]) = Identity(g)}

\* What has been true at some moment since a request began: its principal was
\* an active user, the link it reads was there and current, a bucket's row, or
\* a superseded copy in the cache, named its principal as the owner, a grant
\* covered the key it is about.
Held == [user : BOOLEAN, link : BOOLEAN, owned : SUBSET Buckets, granted : BOOLEAN]
NothingHeld == [user |-> FALSE, link |-> FALSE, owned |-> {}, granted |-> FALSE]

Go(r, rec) == req' = [req EXCEPT ![r] = rec]
Respond(r) == Go(r, Idle)

TypeOK ==
    /\ users \in [Users -> User \cup {None}]
    /\ owner \in [Buckets -> Users \cup {None}]
    /\ grants \in [GrantIds -> Grant \cup {None}]
    /\ links \in [Codes -> Link \cup {None}]
    /\ stale \in [Buckets -> SUBSET Users]
    /\ issued \in SUBSET (Users \cup GrantIds)
    /\ clock \in 0..MaxClock
    /\ req \in [Requests -> Request]
    /\ begun \in 0..MaxRequests
    /\ first \in SUBSET Users
    /\ held \in [Requests -> Held]

\* What is true of request r now.
HeldNow(r) ==
    LET q == req[r]
    IN  [user    |-> q.who \in Present /\ users[q.who].active,
         link    |-> /\ q.code # None
                     /\ links[q.code] # None
                     /\ links[q.code].creator = q.who
                     /\ ~Expired(links[q.code]),
         owned   |-> {b \in Buckets : q.who \in OwnersSeen(b)},
         granted |-> /\ q.key # None
                     /\ Allow(q.who, None, q.action, q.bucket, None, q.key)]

\* History: facts accumulate while a request runs, the one about a key while
\* it is about that key.
Observe ==
    held' = [r \in Requests |->
                IF req'[r].who = None THEN NothingHeld
                ELSE LET now == HeldNow(r)'
                         old == held[r]
                     IN  [user    |-> old.user \/ now.user,
                          link    |-> old.link \/ now.link,
                          owned   |-> old.owned \cup now.owned,
                          granted |-> \/ old.granted /\ req'[r].key = req[r].key
                                      \/ now.granted]]

Init ==
    /\ \E s \in Seeds : /\ users = s.users
                        /\ owner = s.owner
                        /\ grants = s.grants
                        /\ links = s.links
    /\ stale = [b \in Buckets |-> {}]
    /\ issued = Present \cup {g \in GrantIds : grants[g] # None}
    /\ clock = 0
    /\ req = [r \in Requests |-> Idle]
    /\ begun = 0
    /\ first = {}
    /\ held = [r \in Requests |-> NothingHeld]

-----------------------------------------------------------------------------
(* Setup and authentication                                                *)

Begin(r, rec) ==
    /\ req[r] = Idle
    /\ begun < MaxRequests
    /\ begun' = begun + 1
    /\ Go(r, rec)

\* A setup request from loopback.
StartSetup(r) ==
    /\ "setup" \in Operations
    /\ Begin(r, [Idle EXCEPT !.pc = "setup", !.op = "setup"])
    /\ UNCHANGED <<db, stale, issued, clock, first>>
    /\ Observe

\* createUserCredentials: a fresh UUID, active from the start.
NewUser(role) == [role |-> role, active |-> TRUE]

InsertUser(u, user) ==
    /\ u \notin issued
    /\ users' = [users EXCEPT ![u] = user]
    /\ issued' = issued \cup {u}

\* Mutant: the users are counted before the transaction, not in it.
CreateFirstUser_NoCount(r, u) ==
    /\ req[r].pc = "setup"
    /\ InsertUser(u, NewUser("admin"))
    /\ first' = first \cup {u}
    /\ Respond(r)
    /\ UNCHANGED <<owner, grants, links, stale, clock, begun>>
    /\ Observe

\* CreateFirstUser: one immediate transaction counts the users and inserts
\* the administrator only into an empty table.
CreateFirstUser(r, u) ==
    /\ req[r].pc = "setup"
    /\ Present = {}
    /\ InsertUser(u, NewUser("admin"))
    /\ first' = first \cup {u}
    /\ Respond(r)
    /\ UNCHANGED <<owner, grants, links, stale, clock, begun>>
    /\ Observe

CreateFirstUserRefused(r) ==
    /\ req[r].pc = "setup"
    /\ Present # {}
    /\ Respond(r)
    /\ UNCHANGED <<db, stale, issued, clock, begun, first>>
    /\ Observe

\* RequireAuthentication: the row of the access key is read once; the
\* principal it yields is what the rest of the request goes by.
Authenticate(r, c) ==
    /\ ChainAuthenticate(c, users[c.user], clock, FALSE) = "ok"
    /\ Begin(r, [Idle EXCEPT !.pc = "authed", !.who = c.user,
                             !.role = users[c.user].role])
    /\ UNCHANGED <<db, stale, issued, clock, first>>
    /\ Observe

\* A query fails, a row it needs is gone, a constraint is violated or the
\* handler refuses: the request ends before it has written anything.
Refuse(r) ==
    /\ req[r].pc \notin {"idle", "setup", "allowed", "evict"}
    /\ Respond(r)
    /\ UNCHANGED <<db, stale, issued, clock, begun, first>>
    /\ Observe

\* The router dispatches the request; RequireRole guards the administration
\* routes.
Routed(r, op) == req[r].pc = "authed" /\ op \in Operations
AdminCalls(r, op) == Routed(r, op) /\ req[r].role = "admin"

-----------------------------------------------------------------------------
(* Keys (management/keys.go)                                               *)

CreateKey(r, u, role) ==
    /\ AdminCalls(r, "createKey")
    /\ InsertUser(u, NewUser(role))
    /\ Respond(r)
    /\ UNCHANGED <<owner, grants, links, stale, clock, begun, first>>
    /\ Observe

\* The row goes unless it owns a bucket (no cascade there); its grants and
\* share links go with it.
DeleteUserRow(u) ==
    /\ users[u] # None
    /\ \A b \in Buckets : owner[b] # u
    /\ users' = [users EXCEPT ![u] = None]
    /\ grants' = [g \in GrantIds |->
                    IF grants[g] # None /\ grants[g].grantee = u THEN None
                                                                 ELSE grants[g]]
    /\ links' = [c \in Codes |->
                    IF links[c] # None /\ links[c].creator = u THEN None
                                                               ELSE links[c]]

DeleteKey(r, u) ==
    /\ AdminCalls(r, "deleteKey")
    /\ DeleteUserRow(u)
    /\ Respond(r)
    /\ UNCHANGED <<owner, stale, issued, clock, begun, first>>
    /\ Observe

\* decodePatchKeyRequest: is_active, or None when only the name is patched.
KeyPatches == BOOLEAN \cup {None}

\* Mutant: a field that was not sent is written as NULL.
LoadKey_WritesAsk(r, u, ask) ==
    /\ AdminCalls(r, "patchKey")
    /\ users[u] # None
    /\ Go(r, [req[r] EXCEPT !.pc = "patchKey", !.user = u, !.ask = ask,
                            !.row = [users[u] EXCEPT !.active = ask]])
    /\ UNCHANGED <<db, stale, issued, clock, begun, first>>
    /\ Observe

\* PatchKey reads the row and modifies its copy.
LoadKey(r, u, ask) ==
    /\ AdminCalls(r, "patchKey")
    /\ users[u] # None
    /\ Go(r, [req[r] EXCEPT !.pc = "patchKey", !.user = u, !.ask = ask,
                            !.row = IF ask = None THEN users[u]
                                    ELSE [users[u] EXCEPT !.active = ask]])
    /\ UNCHANGED <<db, stale, issued, clock, begun, first>>
    /\ Observe

\* Update writes every column of the copy back.
UpdateKey(r) ==
    /\ req[r].pc = "patchKey"
    /\ users[req[r].user] # None
    /\ users' = [users EXCEPT ![req[r].user] = req[r].row]
    /\ Respond(r)
    /\ UNCHANGED <<owner, grants, links, stale, issued, clock, begun, first>>
    /\ Observe

-----------------------------------------------------------------------------
(* Share links (management/share_links.go, metadata/share_link.go)         *)

\* The bucket exists, and so does the object.
StartLink(r, b, k) ==
    /\ AdminCalls(r, "createLink")
    /\ OwnersSeen(b) # {}
    /\ Go(r, [req[r] EXCEPT !.pc = "linkCreator", !.bucket = b, !.key = k])
    /\ UNCHANGED <<db, stale, issued, clock, begun, first>>
    /\ Observe

\* shareLinkCreatorID: the principal has a row.
LinkCreator(r) ==
    /\ req[r].pc = "linkCreator"
    /\ users[req[r].who] # None
    /\ Go(r, [req[r] EXCEPT !.pc = "insertLink"])
    /\ UNCHANGED <<db, stale, issued, clock, begun, first>>
    /\ Observe

\* The link request r creates; one without a lifetime never expires.
NewLink(r, ttl) ==
    [bucket |-> req[r].bucket, key |-> req[r].key, creator |-> req[r].who,
     expires |-> IF ttl = None THEN None ELSE clock + ttl]

\* Mutant: without the foreign key on the creator.
InsertLink_NoForeignKey(r, c, ttl) ==
    /\ req[r].pc = "insertLink"
    /\ links[c] = None
    /\ owner[req[r].bucket] # None
    /\ links' = [links EXCEPT ![c] = NewLink(r, ttl)]
    /\ Respond(r)
    /\ UNCHANGED <<users, owner, grants, stale, issued, clock, begun, first>>
    /\ Observe

\* The insert: the code is free, bucket and creator still exist.  A taken
\* alias is a conflict, a taken random code is drawn again (three times).
InsertLink(r, c, ttl) ==
    /\ req[r].pc = "insertLink"
    /\ links[c] = None
    /\ owner[req[r].bucket] # None
    /\ users[req[r].who] # None
    /\ links' = [links EXCEPT ![c] = NewLink(r, ttl)]
    /\ Respond(r)
    /\ UNCHANGED <<users, owner, grants, stale, issued, clock, begun, first>>
    /\ Observe

DeleteShareLink(r, c) ==
    /\ AdminCalls(r, "deleteLink")
    /\ links[c] # None
    /\ links' = [links EXCEPT ![c] = None]
    /\ Respond(r)
    /\ UNCHANGED <<users, owner, grants, stale, issued, clock, begun, first>>
    /\ Observe

-----------------------------------------------------------------------------
(* Grants and ownership (management/grants.go, metadata/grant.go)          *)

GrantRoutes == {"createGrants", "patchGrant", "deleteGrant", "transfer"}

\* loadBucketForGrantAdmin: administrators and the bucket's owner go on.
LoadBucketForGrantAdmin(r, op, b) ==
    /\ Routed(r, op)
    /\ \E o \in OwnersSeen(b) :
        /\ req[r].role = "admin" \/ o = req[r].who
        /\ Go(r, [req[r] EXCEPT !.op = op, !.bucket = b, !.owner = o,
                                !.pc = CASE op = "createGrants" -> "grantee"
                                         [] op = "transfer"     -> "newOwner"
                                         [] OTHER               -> "loadGrant"])
    /\ UNCHANGED <<db, stale, issued, clock, begun, first>>
    /\ Observe

\* resolveGrantee: an active user, by ID or by access key.
ResolveGrantee(r, u) ==
    /\ req[r].pc = "grantee"
    /\ users[u] # None
    /\ users[u].active
    /\ Go(r, [req[r] EXCEPT !.pc = "insertGrants", !.user = u])
    /\ UNCHANGED <<db, stale, issued, clock, begun, first>>
    /\ Observe

\* The grant of action a that request r creates for prefix p.
NewGrant(r, a, p) ==
    [bucket |-> req[r].bucket, grantee |-> req[r].user, action |-> a,
     prefix |-> p, active |-> TRUE]

\* CreateIdempotentBatch: one transaction inserts a grant per action, except
\* where an active one exists; bucket, grantee and creator have to exist.
CreateIdempotentBatch(r, acts, p, id) ==
    LET fresh == {a \in acts : ActiveAs(NewGrant(r, a, p)) = {}}
    IN  /\ req[r].pc = "insertGrants"
        /\ owner[req[r].bucket] # None
        /\ users[req[r].user] # None
        /\ users[req[r].who] # None
        /\ \A a \in fresh : id[a] \notin issued
        /\ \A a1, a2 \in fresh : id[a1] = id[a2] => a1 = a2
        /\ grants' = [g \in GrantIds |->
                        IF \E a \in fresh : id[a] = g
                        THEN NewGrant(r, CHOOSE a \in fresh : id[a] = g, p)
                        ELSE grants[g]]
        /\ issued' = issued \cup {id[a] : a \in fresh}
        /\ Respond(r)
        /\ UNCHANGED <<users, owner, links, stale, clock, begun, first>>
        /\ Observe

\* decodePatchGrantRequest: the values asked for; None is a field not sent,
\* as in a patch of the note alone.
GrantPatches == [prefix : Prefixes \cup {None}, active : BOOLEAN \cup {None}]
NoPatch == [prefix |-> None, active |-> None]

\* PatchBucketGrant modifies the grant it has loaded.
PatchedGrant(g, patch) ==
    [g EXCEPT !.prefix = IF patch.prefix = None THEN @ ELSE patch.prefix,
              !.active = IF patch.active = None THEN @ ELSE patch.active]

\* Mutant: the bucket in the path is not compared with the grant's.
LoadGrantOnBucket_AnyBucket(r, g, patch) ==
    /\ req[r].pc = "loadGrant"
    /\ grants[g] # None
    /\ req[r].op = "deleteGrant" => patch = NoPatch
    /\ Go(r, [req[r] EXCEPT
                !.pc = IF req[r].op = "patchGrant" THEN "updateGrant" ELSE "deleteGrant",
                !.id = g, !.row = PatchedGrant(grants[g], patch)])
    /\ UNCHANGED <<db, stale, issued, clock, begun, first>>
    /\ Observe

\* loadGrantOnBucket: the grant exists and is one of the bucket in the path.
LoadGrantOnBucket(r, g, patch) ==
    /\ req[r].pc = "loadGrant"
    /\ grants[g] # None
    /\ grants[g].bucket = req[r].bucket
    /\ req[r].op = "deleteGrant" => patch = NoPatch
    /\ Go(r, [req[r] EXCEPT
                !.pc = IF req[r].op = "patchGrant" THEN "updateGrant" ELSE "deleteGrant",
                !.id = g, !.row = PatchedGrant(grants[g], patch)])
    /\ UNCHANGED <<db, stale, issued, clock, begun, first>>
    /\ Observe

\* Mutant: without the partial unique index.
UpdateGrant_NoIndex(r) ==
    /\ req[r].pc = "updateGrant"
    /\ grants[req[r].id] # None
    /\ grants' = [grants EXCEPT ![req[r].id].prefix = req[r].row.prefix,
                                ![req[r].id].active = req[r].row.active]
    /\ Respond(r)
    /\ UNCHANGED <<users, owner, links, stale, issued, clock, begun, first>>
    /\ Observe

\* Update writes prefix and activity of the copy, which must not make two
\* active grants the same.
UpdateGrant(r) ==
    /\ req[r].pc = "updateGrant"
    /\ grants[req[r].id] # None
    /\ req[r].row.active => ActiveAs(req[r].row) \subseteq {req[r].id}
    /\ grants' = [grants EXCEPT ![req[r].id].prefix = req[r].row.prefix,
                                ![req[r].id].active = req[r].row.active]
    /\ Respond(r)
    /\ UNCHANGED <<users, owner, links, stale, issued, clock, begun, first>>
    /\ Observe

DeleteGrant(r) ==
    /\ req[r].pc = "deleteGrant"
    /\ grants[req[r].id] # None
    /\ grants' = [grants EXCEPT ![req[r].id] = None]
    /\ Respond(r)
    /\ UNCHANGED <<users, owner, links, stale, issued, clock, begun, first>>
    /\ Observe

\* TransferBucketOwnership: the new owner is an active user.
LoadNewOwner(r, u) ==
    /\ req[r].pc = "newOwner"
    /\ users[u] # None
    /\ users[u].active
    /\ Go(r, [req[r] EXCEPT !.pc = "updateOwner", !.user = u])
    /\ UNCHANGED <<db, stale, issued, clock, begun, first>>
    /\ Observe

\* The repository's deferred eviction is still to come.
Evicting(r) == Go(r, [Idle EXCEPT !.pc = "evict", !.bucket = req[r].bucket])

\* Mutant: the update does not compare the owner.
UpdateOwner_NoCompare(r) ==
    LET b == req[r].bucket
    IN  /\ req[r].pc = "updateOwner"
        /\ owner[b] # None
        /\ users[req[r].user] # None
        /\ owner' = [owner EXCEPT ![b] = req[r].user]
        /\ stale' = [stale EXCEPT ![b] = @ \cup {owner[b]}]
        /\ Evicting(r)
        /\ UNCHANGED <<users, grants, links, issued, clock, begun, first>>
        /\ Observe

\* UpdateOwner: compare and swap on the owner that was loaded.
UpdateOwner(r) ==
    LET b == req[r].bucket
    IN  /\ req[r].pc = "updateOwner"
        /\ owner[b] = req[r].owner
        /\ users[req[r].user] # None
        /\ owner' = [owner EXCEPT ![b] = req[r].user]
        /\ stale' = [stale EXCEPT ![b] = @ \cup {owner[b]}]
        /\ Evicting(r)
        /\ UNCHANGED <<users, grants, links, issued, clock, begun, first>>
        /\ Observe

Evict(r) ==
    /\ req[r].pc = "evict"
    /\ stale' = [stale EXCEPT ![req[r].bucket] = {}]
    /\ Respond(r)
    /\ UNCHANGED <<db, issued, clock, begun, first>>
    /\ Observe

-----------------------------------------------------------------------------
(* Buckets and objects (s3/access.go, authz/evaluator.go)                  *)

\* CreateBucket: any principal may; it becomes the owner.
StartBucket(r, b) ==
    /\ Routed(r, "createBucket")
    /\ owner[b] = None
    /\ Go(r, [req[r] EXCEPT !.pc = "createBucket", !.bucket = b])
    /\ UNCHANGED <<db, stale, issued, clock, begun, first>>
    /\ Observe

InsertBucket(r) ==
    /\ req[r].pc = "createBucket"
    /\ owner[req[r].bucket] = None
    /\ users[req[r].who] # None
    /\ owner' = [owner EXCEPT ![req[r].bucket] = req[r].who]
    /\ Evicting(r)
    /\ UNCHANGED <<users, grants, links, stale, issued, clock, begun, first>>
    /\ Observe

\* loadBucket: the row is read once and serves every check of the request.
LoadBucket(r, op, b, action, key) ==
    /\ Routed(r, op)
    /\ \/ op = "object" /\ action \in Actions /\ key \in Keys
       \/ op = "deleteObjects" /\ action = "DeleteObject" /\ key \in Keys
       \/ op = "deleteBucket" /\ action = "DeleteBucket" /\ key = None
    /\ \E o \in OwnersSeen(b) :
        Go(r, [req[r] EXCEPT !.pc = IF op = "deleteObjects" THEN "relationship"
                                                           ELSE "authorize",
                             !.op = op, !.bucket = b, !.owner = o, !.action = action, !.key = key])
    /\ UNCHANGED <<db, stale, issued, clock, begun, first>>
    /\ Observe

\* authorizeBucketRelationship: administrator, owner, or any active grant.
Relationship(r) ==
    /\ req[r].pc = "relationship"
    /\ \/ req[r].role = "admin"
       \/ req[r].owner = req[r].who
       \/ ListActive(req[r].who, req[r].bucket) # {}
    /\ Go(r, [req[r] EXCEPT !.pc = "authorize"])
    /\ UNCHANGED <<db, stale, issued, clock, begun, first>>
    /\ Observe

\* The evaluator's decision on what the request has loaded.
Decision(r) == Allow(req[r].who, req[r].role, req[r].action, req[r].bucket,
                     req[r].owner, req[r].key)

Authorize(r) ==
    /\ req[r].pc = "authorize"
    /\ Decision(r)
    /\ Go(r, [req[r] EXCEPT !.pc = IF req[r].op = "deleteBucket" THEN "dropBucket"
                                                                 ELSE "allowed"])
    /\ UNCHANGED <<db, stale, issued, clock, begun, first>>
    /\ Observe

\* DeleteObjects goes on to its next key, also when one was denied.
NextKey(r, k) ==
    /\ req[r].op = "deleteObjects"
    /\ \/ req[r].pc = "allowed"
       \/ req[r].pc = "authorize" /\ ~Decision(r)
    /\ k # req[r].key
    /\ Go(r, [req[r] EXCEPT !.pc = "authorize", !.key = k])
    /\ UNCHANGED <<db, stale, issued, clock, begun, first>>
    /\ Observe

\* The operation is carried out and answered.
Served(r) ==
    /\ req[r].pc = "allowed"
    /\ Respond(r)
    /\ UNCHANGED <<db, stale, issued, clock, begun, first>>
    /\ Observe

\* The management DeleteBucket goes straight to its transaction.
StartForce(r, b) ==
    /\ AdminCalls(r, "forceDelete")
    /\ owner[b] # None
    /\ Go(r, [req[r] EXCEPT !.pc = "dropBucket", !.bucket = b])
    /\ UNCHANGED <<db, stale, issued, clock, begun, first>>
    /\ Observe

\* The bucket's row goes, and its grants and share links with it.
DeleteBucketRow(b) ==
    /\ owner[b] # None
    /\ owner' = [owner EXCEPT ![b] = None]
    /\ grants' = [g \in GrantIds |->
                    IF grants[g] # None /\ grants[g].bucket = b THEN None
                                                                ELSE grants[g]]
    /\ links' = [c \in Codes |->
                    IF links[c] # None /\ links[c].bucket = b THEN None
                                                              ELSE links[c]]

DropBucket(r) ==
    LET b == req[r].bucket
    IN  /\ req[r].pc = "dropBucket"
        /\ DeleteBucketRow(b)
        /\ stale' = [stale EXCEPT ![b] = @ \cup {owner[b]}]
        /\ Evicting(r)
        /\ UNCHANGED <<users, issued, clock, begun, first>>
        /\ Observe

-----------------------------------------------------------------------------
(* Reading a share link (s3/share_link_read.go)                            *)

\* loadActiveShareLink: the link exists and has not expired.
StartLinkRead(r, c) ==
    /\ links[c] # None
    /\ ~Expired(links[c])
    /\ "readLink" \in Operations
    /\ Begin(r, [Idle EXCEPT !.pc = "linkUser", !.op = "readLink",
                             !.who = links[c].creator, !.bucket = links[c].bucket,
                             !.key = links[c].key, !.action = "GetObject", !.code = c])
    /\ UNCHANGED <<db, stale, issued, clock, first>>
    /\ Observe

\* Mutant: the creator is loaded without looking at its activity.
LinkUser_AnyUser(r) ==
    /\ req[r].pc = "linkUser"
    /\ users[req[r].who] # None
    /\ Go(r, [req[r] EXCEPT !.pc = "linkBucket", !.role = users[req[r].who].role])
    /\ UNCHANGED <<db, stale, issued, clock, begun, first>>
    /\ Observe

\* creatorCanRead: the creator is an active user ...
LinkUser(r) ==
    /\ req[r].pc = "linkUser"
    /\ users[req[r].who] # None
    /\ users[req[r].who].active
    /\ Go(r, [req[r] EXCEPT !.pc = "linkBucket", !.role = users[req[r].who].role])
    /\ UNCHANGED <<db, stale, issued, clock, begun, first>>
    /\ Observe

\* ... who may read the object, by the bucket's row and its grants.
LinkBucket(r) ==
    /\ req[r].pc = "linkBucket"
    /\ \E o \in OwnersSeen(req[r].bucket) :
        Go(r, [req[r] EXCEPT !.pc = "authorize", !.owner = o])
    /\ UNCHANGED <<db, stale, issued, clock, begun, first>>
    /\ Observe

-----------------------------------------------------------------------------

Tick ==
    /\ clock < MaxClock
    /\ clock' = clock + 1
    /\ UNCHANGED <<db, stale, issued, req, begun, first>>
    /\ Observe

Step(r) ==
    \/ StartSetup(r)
    \/ \E u \in Users : CreateFirstUser(r, u)
    \/ CreateFirstUserRefused(r)
    \/ \E c \in Sent : Authenticate(r, c)
    \/ Refuse(r)
    \/ \E u \in Users, role \in Roles : CreateKey(r, u, role)
    \/ \E u \in Users : DeleteKey(r, u)
    \/ \E u \in Users, ask \in KeyPatches : LoadKey(r, u, ask)
    \/ UpdateKey(r)
    \/ \E b \in Buckets, k \in Keys : StartLink(r, b, k)
    \/ LinkCreator(r)
    \/ \E c \in Codes, ttl \in TTLs : InsertLink(r, c, ttl)
    \/ \E c \in Codes : DeleteShareLink(r, c)
    \/ \E op \in GrantRoutes, b \in Buckets : LoadBucketForGrantAdmin(r, op, b)
    \/ \E u \in Users : ResolveGrantee(r, u)
    \/ \E acts \in Batches, p \in Prefixes :
        \E id \in [acts -> GrantIds] : CreateIdempotentBatch(r, acts, p, id)
    \/ \E g \in GrantIds, patch \in GrantPatches : LoadGrantOnBucket(r, g, patch)
    \/ UpdateGrant(r)
    \/ DeleteGrant(r)
    \/ \E u \in Users : LoadNewOwner(r, u)
    \/ UpdateOwner(r)
    \/ Evict(r)
    \/ \E b \in Buckets : StartBucket(r, b)
    \/ InsertBucket(r)
    \/ \E op \in {"object", "deleteObjects", "deleteBucket"}, b \in Buckets,
         a \in Actions \cup {"DeleteBucket"}, k \in Keys \cup {None} : LoadBucket(r, op, b, a, k)
    \/ Relationship(r)
    \/ Authorize(r)
    \/ \E k \in Keys : NextKey(r, k)
    \/ Served(r)
    \/ \E b \in Buckets : StartForce(r, b)
    \/ DropBucket(r)
    \/ \E c \in Codes : StartLinkRead(r, c)
    \/ LinkUser(r)
    \/ LinkBucket(r)

Next == Tick \/ \E r \in Requests : Step(r)

Spec == Init /\ [][Next]_vars

-----------------------------------------------------------------------------
(* Properties                                                              *)

\* First-start setup (setup/handlers.go) never adds an administrator beside
\* another one it created: two of them never exist together.
OneFirstAdmin == Cardinality(first \cap Present) <= 1

\* What is served was allowed while the request ran: its principal, or the
\* creator of the link it reads, was active, the link was there and current,
\* and the principal was an administrator, was named as the owner by the
\* bucket's row or by a copy still cached, or had a grant for that very key.
\* What was revoked, and evicted, before a request began does not serve it
\* (share_link_read.go: "revoking a user's access also disables every link").
ServedOnlyWhileAllowed ==
    \A r \in Requests :
        req[r].pc = "allowed" \/ (req[r].pc = "dropBucket" /\ req[r].op = "deleteBucket") =>
            /\ held[r].user
            /\ req[r].op = "readLink" => held[r].link
            /\ \/ req[r].role = "admin"
               \/ req[r].bucket \in held[r].owned
               \/ held[r].granted /\ req[r].pc # "dropBucket"

\* The partial unique index: one active grant per bucket, grantee, action and
\* prefix, also through patches that reactivate or move a grant.
GrantsUnique ==
    \A g, h \in GrantIds :
        /\ grants[g] # None /\ grants[g].active
        /\ grants[h] # None /\ grants[h].active
        /\ Identity(grants[g]) = Identity(grants[h])
        => g = h

\* Foreign keys and cascades: whatever is deleted between the checks of a
\* request and its write, no row names a user or a bucket that is gone.
NoOrphans ==
    /\ \A b \in Buckets : owner[b] \in Present \cup {None}
    /\ \A g \in GrantIds : grants[g] # None =>
        owner[grants[g].bucket] # None /\ users[grants[g].grantee] # None
    /\ \A c \in Codes : links[c] # None =>
        owner[links[c].bucket] # None /\ users[links[c].creator] # None

\* A bucket changes hands only at the wish of an administrator or of the
\* user who owns it at that moment (UpdateOwner's compare and swap).
TransferByOwner ==
    [][\A b \in Buckets :
        owner[b] # None /\ owner'[b] # None /\ owner'[b] # owner[b] =>
            \E r \in Requests : /\ req[r].pc = "updateOwner"
                                /\ req[r].bucket = b
                                /\ req[r].role = "admin" \/ req[r].who = owner[b]]_vars

\* The bucket of a grant that a step creates, changes or removes, that a
\* cascade removes it, and that request r is the one that writes it.
WrittenIn(g) == IF grants[g] # None THEN grants[g].bucket ELSE grants'[g].bucket
Cascades(g) ==
    /\ grants'[g] = None
    /\ owner'[WrittenIn(g)] = None \/ users'[grants[g].grantee] = None
WritesGrant(r) ==
    /\ req[r].pc \in {"insertGrants", "updateGrant", "deleteGrant"}
    /\ req'[r] # req[r]

\* The grant routes stay in their bucket, and a former owner's next request is
\* too late: apart from cascades a grant is written only by a request on the
\* grant's own bucket (loadGrantOnBucket), of an administrator or of a user
\* whom that bucket's row, or a copy still cached, has named as its owner
\* since the request began (loadBucketForGrantAdmin).  The owner at the
\* moment of the write is another matter: see GrantsWrittenByOwner.
GrantWritesInBucket ==
    [][\A g \in GrantIds : grants'[g] # grants[g] =>
        \/ Cascades(g)
        \/ \E r \in Requests :
            /\ WritesGrant(r)
            /\ req[r].bucket = WrittenIn(g)
            /\ req[r].role = "admin" \/ WrittenIn(g) \in held[r].owned]_vars

\* What the repository says of the grant routes ("grant CRUD CAS on ownership",
\* docs/security-audit-2026-08-06.md:282): apart from cascades a grant is
\* written only for an administrator or for the user who owns the grant's
\* bucket at that moment.
GrantsWrittenByOwner ==
    [][\A g \in GrantIds : grants'[g] # grants[g] =>
        \/ Cascades(g)
        \/ \E r \in Requests :
            /\ WritesGrant(r)
            /\ req[r].role = "admin" \/ req[r].who = owner[WrittenIn(g)]]_vars

\* What the repository says of deactivation (docs/management-api.md:335):
\* an inactive user becomes active again only by a patch that asks for it.
DeactivationHolds ==
    [][\A u \in Users :
        users[u] # None /\ users'[u] # None /\ ~users[u].active /\ users'[u].active =>
            \E r \in Requests : req[r].pc = "patchKey" /\ req[r].user = u /\ req[r].ask = TRUE]_vars

=============================================================================
