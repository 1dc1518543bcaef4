---------------------------- MODULE AccessProofs ----------------------------
(***************************************************************************)
(* Proofs about Access, for any number of users, buckets, grants, links    *)
(* and running requests.  The argument: a request carries its authority    *)
(* with it.  At every point of a handler the history records why it got    *)
(* there, and what it wrote down about a row (its bucket, its grantee) is  *)
(* what the row still says if it is still there, since UUIDs are not used  *)
(* again and only prefix and activity of a grant ever change.              *)
(***************************************************************************)
EXTENDS Access, FiniteSetTheorems, TLAPS

-----------------------------------------------------------------------------
(* The inductive invariant                                                 *)

\* Points of a handler by what the request has by then.
NoPrincipal == {"idle", "setup", "evict"}
GrantAdminPCs == {"grantee", "insertGrants", "loadGrant", "updateGrant",
                  "deleteGrant", "newOwner", "updateOwner"}
CheckPCs == {"relationship", "authorize", "allowed"}
BucketPCs == GrantAdminPCs \cup CheckPCs \cup
             {"linkCreator", "insertLink", "createBucket", "dropBucket",
              "linkUser", "linkBucket", "evict"}

\* The fields a request has filled in.
ShapeOK(q) ==
    /\ q.pc \notin NoPrincipal => q.who \in Users
    /\ q.pc \in NoPrincipal => q.op # "readLink"
    /\ q.pc \in BucketPCs => q.bucket \in Buckets
    /\ q.pc \in {"linkCreator", "insertLink", "linkUser", "linkBucket"} => q.key \in Keys
    /\ q.pc \in {"patchKey", "insertGrants", "updateOwner"} => q.user \in Users
    /\ q.pc = "patchKey" => q.row \in User
    /\ q.pc \in {"updateGrant", "deleteGrant"} => q.id \in GrantIds /\ q.row \in Grant
    /\ q.pc \in {"newOwner", "updateOwner"} => q.owner \in Users
    /\ q.pc \in {"linkUser", "linkBucket"} => q.op = "readLink" /\ q.action = "GetObject"
    /\ q.pc \in CheckPCs =>
        /\ q.op = "deleteBucket" => q.action = "DeleteBucket"
        /\ q.action # "DeleteBucket" => q.key \in Keys

\* Why a request is where it is: h is what has been true since it began.
AuthorityOK(q, h) ==
    /\ q.pc \notin NoPrincipal \cup {"linkUser"} => h.user
    /\ q.op = "readLink" => h.link
    /\ q.pc \in GrantAdminPCs => q.role = "admin" \/ (q.owner = q.who /\ q.bucket \in h.owned)
    /\ q.pc \in CheckPCs => (q.owner = q.who => q.bucket \in h.owned)
    /\ q.pc = "allowed" => q.role = "admin" \/ q.bucket \in h.owned \/ h.granted
    /\ q.pc = "dropBucket" => q.role = "admin" \/ q.bucket \in h.owned

\* The grant a request has loaded, if it is still there, is still one of the
\* same bucket, grantee and action; its UUID is not handed out again.
GrantRowOK(q, table, ids) ==
    q.pc \in {"updateGrant", "deleteGrant"} =>
        /\ q.id \in ids
        /\ q.row.bucket = q.bucket
        /\ table[q.id] # None => /\ table[q.id].bucket = q.row.bucket
                                 /\ table[q.id].grantee = q.row.grantee
                                 /\ table[q.id].action = q.row.action

RequestsOK ==
    \A r \in Requests :
        /\ ShapeOK(req[r])
        /\ AuthorityOK(req[r], held[r])
        /\ GrantRowOK(req[r], grants, issued)

\* UUIDs in use have been handed out.
IssuedOK ==
    /\ first \subseteq issued
    /\ Present \subseteq issued
    /\ \A g \in GrantIds : grants[g] # None => g \in issued

AtMostOneFirst == \A u, v \in first \cap Present : u = v

AInv == TypeOK /\ RequestsOK /\ IssuedOK /\ AtMostOneFirst /\ GrantsUnique /\ NoOrphans

-----------------------------------------------------------------------------
(* Requests as records of opaque columns                                   *)

Opt(S) == S \cup {None}
OpName == AllOperations \cup {"none"}
ActionName == Grantable \cup {"DeleteBucket", None}
RowCopy == User \cup Grant \cup {None}

LEMMA RequestFields ==
    Request = [pc : PCs, op : OpName, who : Opt(Users), role : Opt(Roles),
               bucket : Opt(Buckets), owner : Opt(Users), action : ActionName,
               key : Opt(Keys), user : Opt(Users), id : Opt(GrantIds), row : RowCopy,
               ask : Opt(BOOLEAN), code : Opt(Codes)]
  BY DEF Request, Opt, OpName, ActionName, RowCopy

-----------------------------------------------------------------------------
(* The history                                                             *)

\* While a request has a principal, its history only grows.
LEMMA HeldGrows ==
    ASSUME TypeOK, Observe, req' \in [Requests -> Request]
    PROVE  /\ held' \in [Requests -> Held]
           /\ \A s \in Requests : req'[s].who # None =>
                /\ held[s].user => held'[s].user
                /\ held[s].link => held'[s].link
                /\ held[s].owned \subseteq held'[s].owned
                /\ held[s].granted /\ req'[s].key = req[s].key => held'[s].granted
<1> DEFINE u(s) == held[s].user \/ HeldNow(s)'.user
           l(s) == held[s].link \/ HeldNow(s)'.link
           o(s) == held[s].owned \cup HeldNow(s)'.owned
           g(s) == (held[s].granted /\ req'[s].key = req[s].key) \/ HeldNow(s)'.granted
           rec(s) == [user |-> u(s), link |-> l(s), owned |-> o(s), granted |-> g(s)]
<1>1. held' = [s \in Requests |-> IF req'[s].who = None THEN NothingHeld ELSE rec(s)]
  BY DEF Observe
<1>2. ASSUME NEW s \in Requests
      PROVE  /\ u(s) \in BOOLEAN /\ l(s) \in BOOLEAN /\ g(s) \in BOOLEAN
             /\ o(s) \subseteq Buckets
             /\ held[s].user => u(s)
             /\ held[s].link => l(s)
             /\ held[s].owned \subseteq o(s)
             /\ held[s].granted /\ req'[s].key = req[s].key => g(s)
  <2>1. HeldNow(s)'.owned \subseteq Buckets
    BY DEF HeldNow
  <2>2. held[s].owned \subseteq Buckets
    BY DEF TypeOK, Held
  <2> QED BY <2>1, <2>2
<1> HIDE DEF u, l, o, g
<1>3. NothingHeld \in Held
  BY DEF NothingHeld, Held
<1>4. held' \in [Requests -> Held]
  <2>1. \A s \in Requests : rec(s) \in Held
    BY <1>2 DEF Held
  <2> HIDE DEF rec
  <2> QED BY <1>1, <1>3, <2>1
<1>5. ASSUME NEW s \in Requests, req'[s].who # None
      PROVE  /\ held[s].user => held'[s].user
             /\ held[s].link => held'[s].link
             /\ held[s].owned \subseteq held'[s].owned
             /\ held[s].granted /\ req'[s].key = req[s].key => held'[s].granted
  <2>1. held'[s] = rec(s)
    BY <1>1, <1>5
  <2>2. /\ held'[s].user = u(s) /\ held'[s].link = l(s)
        /\ held'[s].owned = o(s) /\ held'[s].granted = g(s)
    BY <2>1
  <2> QED BY <1>2, <2>2
<1> QED BY <1>4, <1>5

\* It records what is true of the request now.
LEMMA HeldSees ==
    ASSUME Observe, NEW s \in Requests, req'[s].who # None
    PROVE  /\ req'[s].who \in Present' /\ users'[req'[s].who].active => held'[s].user
           /\ /\ req'[s].code # None
              /\ links'[req'[s].code] # None
              /\ links'[req'[s].code].creator = req'[s].who
              /\ ~Expired(links[req[s].code])'
              => held'[s].link
           /\ \A b \in Buckets : req'[s].who \in OwnersSeen(b)' => b \in held'[s].owned
           /\ /\ req'[s].key # None
              /\ Allow(req[s].who, None, req[s].action, req[s].bucket, None, req[s].key)'
              => held'[s].granted
<1> DEFINE u == req'[s].who \in Present' /\ users'[req'[s].who].active
           l == /\ req'[s].code # None
                /\ links'[req'[s].code] # None
                /\ links'[req'[s].code].creator = req'[s].who
                /\ ~Expired(links[req[s].code])'
           o == {b \in Buckets : req'[s].who \in OwnersSeen(b)'}
           g == /\ req'[s].key # None
                /\ Allow(req[s].who, None, req[s].action, req[s].bucket, None, req[s].key)'
           hu == held[s].user \/ u
           hl == held[s].link \/ l
           hg == (held[s].granted /\ req'[s].key = req[s].key) \/ g
<1>1. /\ HeldNow(s)'.user = u /\ HeldNow(s)'.link = l
      /\ HeldNow(s)'.owned = o /\ HeldNow(s)'.granted = g
  BY DEF HeldNow
<1>2. /\ u \in BOOLEAN /\ l \in BOOLEAN /\ g \in BOOLEAN
      /\ hu \in BOOLEAN /\ hl \in BOOLEAN /\ hg \in BOOLEAN
  OBVIOUS
<1> HIDE DEF u, l, o, g
<1>3. (u => hu) /\ (l => hl) /\ (g => hg)
  OBVIOUS
<1>4. held'[s] = [user |-> hu, link |-> hl, owned |-> held[s].owned \cup o, granted |-> hg]
  BY <1>1 DEF Observe
<1> HIDE DEF hu, hl, hg
<1>5. /\ held'[s].user = hu /\ held'[s].link = hl /\ held'[s].granted = hg
      /\ held'[s].owned = held[s].owned \cup o
  BY <1>4
<1>6. (u => held'[s].user) /\ (l => held'[s].link) /\ (g => held'[s].granted)
  BY <1>2, <1>3, <1>5
<1>7. o \subseteq held'[s].owned
  BY <1>5
<1> QED BY <1>6, <1>7 DEF u, l, o, g

-----------------------------------------------------------------------------
(* What a step of one request does to the others                           *)

\* The types of what a request writes to.
TablesOK ==
    /\ users \in [Users -> User \cup {None}]
    /\ owner \in [Buckets -> Users \cup {None}]
    /\ grants \in [GrantIds -> Grant \cup {None}]
    /\ links \in [Codes -> Link \cup {None}]
    /\ stale \in [Buckets -> SUBSET Users]
    /\ issued \in SUBSET (Users \cup GrantIds)
    /\ clock \in 0..MaxClock
    /\ begun \in 0..MaxRequests
    /\ first \in SUBSET Users

\* A grant that has been handed out keeps its bucket, grantee and action while
\* it is there, and once gone does not come back.
GrantsKept ==
    /\ issued \subseteq issued'
    /\ \A g \in issued \cap GrantIds : grants'[g] # None =>
        /\ grants[g] # None
        /\ grants'[g].bucket = grants[g].bucket
        /\ grants'[g].grantee = grants[g].grantee
        /\ grants'[g].action = grants[g].action

\* A request that does not move stays in order.
LEMMA OthersOK ==
    ASSUME TypeOK, RequestsOK, Observe, req' \in [Requests -> Request], GrantsKept,
           NEW s \in Requests, req'[s] = req[s]
    PROVE  /\ ShapeOK(req'[s])
           /\ AuthorityOK(req'[s], held'[s])
           /\ GrantRowOK(req'[s], grants', issued')
<1> DEFINE q == req[s]
<1>1. /\ ShapeOK(q) /\ AuthorityOK(q, held[s]) /\ GrantRowOK(q, grants, issued)
      /\ q \in Request
  BY DEF RequestsOK, TypeOK
<1>2. AuthorityOK(q, held'[s])
  <2>1. CASE q.who # None
    <3>1. /\ held[s].user => held'[s].user
          /\ held[s].link => held'[s].link
          /\ held[s].owned \subseteq held'[s].owned
          /\ held[s].granted => held'[s].granted
      BY <2>1, HeldGrows
    <3> QED BY <1>1, <3>1 DEF AuthorityOK
  <2>2. CASE q.who = None
    <3>1. q.pc \in NoPrincipal
      BY <1>1, <2>2, CredentialsAssumption DEF ShapeOK
    <3> QED BY <1>1, <3>1 DEF ShapeOK, AuthorityOK, NoPrincipal, GrantAdminPCs, CheckPCs
  <2> QED BY <2>1, <2>2
<1>3. GrantRowOK(q, grants', issued')
  <2> SUFFICES ASSUME q.pc \in {"updateGrant", "deleteGrant"}
               PROVE  /\ q.id \in issued'
                      /\ q.row.bucket = q.bucket
                      /\ grants'[q.id] # None => /\ grants'[q.id].bucket = q.row.bucket
                                                 /\ grants'[q.id].grantee = q.row.grantee
                                                 /\ grants'[q.id].action = q.row.action
    BY DEF GrantRowOK
  <2>1. q.id \in issued \cap GrantIds
    BY <1>1 DEF GrantRowOK, ShapeOK
  <2> QED BY <1>1, <2>1 DEF GrantRowOK, GrantsKept
<1> QED BY <1>1, <1>2, <1>3

\* A step that puts r at f keeps every request in order if f is.
LEMMA StepOK ==
    ASSUME AInv, NEW r \in Requests, NEW f \in Request, Go(r, f), Observe,
           TablesOK', GrantsKept, ShapeOK(f), AuthorityOK(f, held'[r]),
           GrantRowOK(f, grants', issued')
    PROVE  TypeOK' /\ RequestsOK'
<1>1. req' \in [Requests -> Request] /\ req'[r] = f
      /\ \A s \in Requests : s # r => req'[s] = req[s]
  BY DEF Go, AInv, TypeOK
<1>2. held' \in [Requests -> Held]
  BY <1>1, HeldGrows DEF AInv
<1>3. TypeOK'
  BY <1>1, <1>2 DEF TypeOK, TablesOK
<1>4. ASSUME NEW s \in Requests
      PROVE  /\ ShapeOK(req'[s])
             /\ AuthorityOK(req'[s], held'[s])
             /\ GrantRowOK(req'[s], grants', issued')
  <2>1. CASE s = r
    BY <1>1, <2>1
  <2>2. CASE s # r
    BY <1>1, <2>2, OthersOK DEF AInv
  <2> QED BY <2>1, <2>2
<1>5. RequestsOK'
  BY <1>4 DEF RequestsOK, ShapeOK, AuthorityOK, GrantRowOK
<1> QED BY <1>3, <1>5

\* A step that writes nothing keeps the invariant.
LEMMA MoveOK ==
    ASSUME AInv, NEW r \in Requests, NEW f \in Request, Go(r, f), Observe,
           UNCHANGED <<db, stale, issued, clock, first>>, begun' \in 0..MaxRequests,
           ShapeOK(f), AuthorityOK(f, held'[r]), GrantRowOK(f, grants, issued)
    PROVE  AInv'
<1>1. UNCHANGED <<users, owner, grants, links, stale, issued, clock, first>>
  BY DEF db
<1>2. TablesOK' /\ GrantsKept
  BY <1>1 DEF TablesOK, GrantsKept, AInv, TypeOK
<1>3. TypeOK' /\ RequestsOK'
  BY <1>1, <1>2, StepOK
<1>4. IssuedOK' /\ AtMostOneFirst'
  BY <1>1 DEF AInv, IssuedOK, AtMostOneFirst, Present
<1>5. GrantsUnique' /\ NoOrphans'
  BY <1>1 DEF AInv, GrantsUnique, NoOrphans, Present, Identity
<1> QED BY <1>3, <1>4, <1>5 DEF AInv

\* A request that has ended, or has only its eviction left.
LEMMA EndedOK ==
    ASSUME NEW f, NEW h, NEW table, NEW ids,
           f = Idle \/ \E b \in Buckets : f = [Idle EXCEPT !.pc = "evict", !.bucket = b]
    PROVE  f \in Request /\ ShapeOK(f) /\ AuthorityOK(f, h) /\ GrantRowOK(f, table, ids)
<1>1. /\ f \in Request
      /\ f.pc = "idle" \/ (f.pc = "evict" /\ f.bucket \in Buckets)
      /\ f.op = "none"
  <2>1. CASE f = Idle
    BY <2>1 DEF Idle, Request, PCs
  <2>2. CASE f # Idle
    <3>1. PICK b \in Buckets : f = [Idle EXCEPT !.pc = "evict", !.bucket = b]
      BY <2>2
    <3> QED BY <3>1 DEF Idle, Request, PCs
  <2> QED BY <2>1, <2>2
<1> QED BY <1>1 DEF ShapeOK, AuthorityOK, GrantRowOK, NoPrincipal, BucketPCs,
                    GrantAdminPCs, CheckPCs

\* What the history of r holds when it has moved to f without writing.
LEMMA Carried ==
    ASSUME TypeOK, NEW r \in Requests, NEW f \in Request, Go(r, f), Observe,
           UNCHANGED <<db, stale, issued, clock, first>>, f.who # None
    PROVE  /\ held[r].user \/ (f.who \in Present /\ users[f.who].active) => held'[r].user
           /\ held[r].link => held'[r].link
           /\ /\ f.code # None
              /\ links[f.code] # None
              /\ links[f.code].creator = f.who
              /\ ~Expired(links[f.code])
              => held'[r].link
           /\ held[r].owned \subseteq held'[r].owned
           /\ \A b \in Buckets : f.who \in OwnersSeen(b) => b \in held'[r].owned
           /\ held[r].granted /\ f.key = req[r].key => held'[r].granted
           /\ f.key # None /\ Allow(f.who, None, f.action, f.bucket, None, f.key)
              => held'[r].granted
<1>1. req' \in [Requests -> Request] /\ req'[r] = f
  BY DEF Go, TypeOK
<1>2. UNCHANGED <<users, owner, grants, links, stale, clock>>
  BY DEF db
<1>3. /\ held[r].user => held'[r].user
      /\ held[r].link => held'[r].link
      /\ held[r].owned \subseteq held'[r].owned
      /\ held[r].granted /\ f.key = req[r].key => held'[r].granted
  BY <1>1, HeldGrows
<1>4. /\ f.who \in Present' /\ users'[f.who].active => held'[r].user
      /\ /\ f.code # None
         /\ links'[f.code] # None
         /\ links'[f.code].creator = f.who
         /\ ~Expired(links[req[r].code])'
         => held'[r].link
      /\ \A b \in Buckets : f.who \in OwnersSeen(b)' => b \in held'[r].owned
      /\ /\ f.key # None
         /\ Allow(req[r].who, None, req[r].action, req[r].bucket, None, req[r].key)'
         => held'[r].granted
  BY <1>1, HeldSees
<1>5. Present' = Present /\ \A b \in Buckets : OwnersSeen(b)' = OwnersSeen(b)
  BY <1>2 DEF Present, OwnersSeen
<1>6. Expired(links[req[r].code])' = Expired(links[f.code])
  BY <1>1, <1>2 DEF Expired
<1>7. Allow(req[r].who, None, req[r].action, req[r].bucket, None, req[r].key)'
        <=> Allow(f.who, None, f.action, f.bucket, None, f.key)
  BY <1>1, <1>2 DEF Allow, ListActive
<1> QED BY <1>2, <1>3, <1>4, <1>5, <1>6, <1>7

-----------------------------------------------------------------------------
(* Steps that write nothing                                                *)

\* Requests begin.
LEMMA BeginSteps ==
    ASSUME AInv, NEW r \in Requests,
           \/ StartSetup(r)
           \/ \E c \in Sent : Authenticate(r, c)
           \/ \E c \in Codes : StartLinkRead(r, c)
    PROVE  AInv'
<1> USE AccessAssumption, CredentialsAssumption
<1>a. begun' \in 0..MaxRequests /\ Observe /\ UNCHANGED <<db, stale, issued, clock, first>>
  <2>1. begun < MaxRequests /\ begun' = begun + 1
    BY DEF StartSetup, Authenticate, StartLinkRead, Begin
  <2>2. begun \in 0..MaxRequests /\ MaxRequests \in Nat
    BY DEF AInv, TypeOK
  <2>3. Observe /\ UNCHANGED <<db, stale, issued, clock, first>>
    BY DEF StartSetup, Authenticate, StartLinkRead
  <2> QED BY <2>1, <2>2, <2>3
<1>1. CASE StartSetup(r)
  <2> DEFINE f == [Idle EXCEPT !.pc = "setup", !.op = "setup"]
  <2>1. Go(r, f)
    BY <1>1 DEF StartSetup, Begin
  <2>2. f \in Request /\ f.pc = "setup" /\ f.op = "setup"
    BY DEF Idle, Request, PCs, AllOperations
  <2> HIDE DEF f
  <2>3. ShapeOK(f) /\ AuthorityOK(f, held'[r]) /\ GrantRowOK(f, grants, issued)
    BY <2>2 DEF ShapeOK, AuthorityOK, GrantRowOK, NoPrincipal, BucketPCs, GrantAdminPCs,
                CheckPCs
  <2> QED BY <1>a, <2>1, <2>2, <2>3, MoveOK
<1>2. ASSUME NEW c \in Sent, Authenticate(r, c) PROVE AInv'
  <2> DEFINE f == [Idle EXCEPT !.pc = "authed", !.who = c.user, !.role = users[c.user].role]
  <2>1. Go(r, f) /\ ChainAuthenticate(c, users[c.user], clock, FALSE) = "ok"
    BY <1>2 DEF Authenticate, Begin
  <2>2. c.user \in Users /\ c.user \in Present /\ users[c.user].active
    <3>1. c \in Credential
      OBVIOUS
    <3>2. c.user \in Users
      BY <3>1 DEF Credential
    <3>3. users[c.user] # None /\ users[c.user].active
      BY <2>1 DEF ChainAuthenticate, BearerAuthenticate, SigV4Authenticate,
                  AuthenticateHeader, AuthenticateQuery, CheckSecretFirst, CheckActiveFirst
    <3> QED BY <3>2, <3>3 DEF Present
  <2>3. users[c.user].role \in Roles
    BY <2>2 DEF AInv, TypeOK, Present, User
  <2>4. f \in Request /\ f.pc = "authed" /\ f.op = "none" /\ f.who = c.user
    BY <2>2, <2>3 DEF Idle, Request, PCs
  <2> HIDE DEF f
  <2>5. held'[r].user
    BY <1>a, <2>1, <2>2, <2>4, Carried DEF AInv
  <2>6. ShapeOK(f) /\ AuthorityOK(f, held'[r]) /\ GrantRowOK(f, grants, issued)
    BY <2>2, <2>4, <2>5 DEF ShapeOK, AuthorityOK, GrantRowOK, NoPrincipal, BucketPCs,
                            GrantAdminPCs, CheckPCs
  <2> QED BY <1>a, <2>1, <2>4, <2>6, MoveOK
<1>3. ASSUME NEW c \in Codes, StartLinkRead(r, c) PROVE AInv'
  <2> DEFINE f == [Idle EXCEPT !.pc = "linkUser", !.op = "readLink",
                               !.who = links[c].creator, !.bucket = links[c].bucket,
                               !.key = links[c].key, !.action = "GetObject", !.code = c]
  <2>1. Go(r, f) /\ links[c] # None /\ ~Expired(links[c])
    BY <1>3 DEF StartLinkRead, Begin
  <2>2. links[c].creator \in Users /\ links[c].bucket \in Buckets /\ links[c].key \in Keys
    BY <2>1 DEF AInv, TypeOK, Link
  <2>3. /\ f \in Request /\ f.pc = "linkUser" /\ f.op = "readLink" /\ f.who = links[c].creator
        /\ f.bucket = links[c].bucket /\ f.key = links[c].key /\ f.action = "GetObject"
        /\ f.code = c
    BY <2>2 DEF Idle, Request, PCs, AllOperations, Grantable
  <2> HIDE DEF f
  <2>4. held'[r].link
    BY <1>a, <2>1, <2>2, <2>3, Carried DEF AInv
  <2>5. ShapeOK(f) /\ AuthorityOK(f, held'[r]) /\ GrantRowOK(f, grants, issued)
    BY <2>2, <2>3, <2>4 DEF ShapeOK, AuthorityOK, GrantRowOK, NoPrincipal, BucketPCs,
                            GrantAdminPCs, CheckPCs
  <2> QED BY <1>a, <2>1, <2>3, <2>5, MoveOK
<1> QED BY <1>1, <1>2, <1>3

\* Requests end without having written.
LEMMA EndSteps ==
    ASSUME AInv, NEW r \in Requests,
           CreateFirstUserRefused(r) \/ Refuse(r) \/ Served(r)
    PROVE  AInv'
<1>1. /\ Go(r, Idle) /\ Observe /\ UNCHANGED <<db, stale, issued, clock, first>>
      /\ begun' \in 0..MaxRequests
  BY DEF CreateFirstUserRefused, Refuse, Served, Respond, AInv, TypeOK
<1>2. /\ Idle \in Request /\ ShapeOK(Idle) /\ AuthorityOK(Idle, held'[r])
      /\ GrantRowOK(Idle, grants, issued)
  BY EndedOK
<1> QED BY <1>1, <1>2, MoveOK

\* Requests read what their route asks for.
LEMMA RouteSteps ==
    ASSUME AInv, NEW r \in Requests,
           \/ \E u \in Users, ask \in KeyPatches : LoadKey(r, u, ask)
           \/ \E b \in Buckets, k \in Keys : StartLink(r, b, k)
           \/ \E op \in GrantRoutes, b \in Buckets : LoadBucketForGrantAdmin(r, op, b)
           \/ \E b \in Buckets : StartBucket(r, b)
           \/ \E op \in {"object", "deleteObjects", "deleteBucket"}, b \in Buckets,
                a \in Actions \cup {"DeleteBucket"}, k \in Keys \cup {None} :
                    LoadBucket(r, op, b, a, k)
           \/ \E b \in Buckets : StartForce(r, b)
    PROVE  AInv'
<1> USE AccessAssumption, CredentialsAssumption
<1> DEFINE q == req[r]
<1>a. /\ begun' \in 0..MaxRequests /\ Observe /\ UNCHANGED <<db, stale, issued, clock, first>>
      /\ q.pc = "authed"
  BY DEF LoadKey, StartLink, LoadBucketForGrantAdmin, StartBucket, LoadBucket, StartForce,
         AdminCalls, Routed, AInv, TypeOK
<1>b. q \in Request /\ ShapeOK(q) /\ AuthorityOK(q, held[r]) /\ TypeOK
  BY DEF AInv, RequestsOK, TypeOK
<1>c. q.who \in Users /\ held[r].user /\ (q.op = "readLink" => held[r].link)
  BY <1>a, <1>b DEF ShapeOK, AuthorityOK, NoPrincipal
<1> HIDE DEF q
<1>d. ASSUME NEW f \in Request, Go(r, f), f.who = q.who
      PROVE  /\ held'[r].user /\ (q.op = "readLink" => held'[r].link)
             /\ \A b \in Buckets : q.who \in OwnersSeen(b) => b \in held'[r].owned
  BY <1>a, <1>b, <1>c, <1>d, Carried
<1>1. ASSUME NEW u \in Users, NEW ask \in KeyPatches, LoadKey(r, u, ask) PROVE AInv'
  <2> DEFINE row == IF ask = None THEN users[u] ELSE [users[u] EXCEPT !.active = ask]
             f == [q EXCEPT !.pc = "patchKey", !.user = u, !.ask = ask, !.row = row]
  <2>1. Go(r, f) /\ users[u] # None
    BY <1>1 DEF LoadKey, q
  <2>2. row \in User
    <3>1. users[u] \in User /\ (ask # None => ask \in BOOLEAN)
      BY <1>b, <2>1 DEF TypeOK, KeyPatches
    <3> QED BY <3>1 DEF User
  <2> HIDE DEF row
  <2>3. /\ f \in Request /\ f.pc = "patchKey" /\ f.user = u /\ f.row = row
        /\ f.who = q.who /\ f.op = q.op
    <3>1. "patchKey" \in PCs /\ u \in Opt(Users) /\ ask \in Opt(BOOLEAN) /\ row \in RowCopy
      BY <2>2 DEF PCs, Opt, RowCopy, KeyPatches
    <3> QED BY <1>b, <3>1, RequestFields
  <2> HIDE DEF f
  <2>4. held'[r].user /\ (q.op = "readLink" => held'[r].link)
    BY <1>d, <2>1, <2>3
  <2>5. ShapeOK(f) /\ AuthorityOK(f, held'[r]) /\ GrantRowOK(f, grants, issued)
    BY <1>c, <2>2, <2>3, <2>4 DEF ShapeOK, AuthorityOK, GrantRowOK, NoPrincipal, BucketPCs,
                                  GrantAdminPCs,
                CheckPCs
  <2> QED BY <1>a, <2>1, <2>3, <2>5, MoveOK
<1>2. ASSUME NEW b \in Buckets, NEW k \in Keys, StartLink(r, b, k) PROVE AInv'
  <2> DEFINE f == [q EXCEPT !.pc = "linkCreator", !.bucket = b, !.key = k]
  <2>1. Go(r, f)
    BY <1>2 DEF StartLink, q
  <2>2. /\ f \in Request /\ f.pc = "linkCreator" /\ f.bucket = b /\ f.key = k
        /\ f.who = q.who /\ f.op = q.op
    <3>1. "linkCreator" \in PCs /\ b \in Opt(Buckets) /\ k \in Opt(Keys)
      BY DEF PCs, Opt
    <3> QED BY <1>b, <3>1, RequestFields
  <2> HIDE DEF f
  <2>3. held'[r].user /\ (q.op = "readLink" => held'[r].link)
    BY <1>d, <2>1, <2>2
  <2>4. ShapeOK(f) /\ AuthorityOK(f, held'[r]) /\ GrantRowOK(f, grants, issued)
    BY <1>c, <2>2, <2>3 DEF ShapeOK, AuthorityOK, GrantRowOK, NoPrincipal, BucketPCs, GrantAdminPCs,
                CheckPCs
  <2> QED BY <1>a, <2>1, <2>2, <2>4, MoveOK
<1>3. ASSUME NEW op \in GrantRoutes, NEW b \in Buckets, LoadBucketForGrantAdmin(r, op, b)
      PROVE  AInv'
  <2> DEFINE pc == CASE op = "createGrants" -> "grantee"
                     [] op = "transfer"     -> "newOwner"
                     [] OTHER               -> "loadGrant"
             F(o) == [q EXCEPT !.op = op, !.bucket = b, !.owner = o, !.pc = pc]
  <2>1. PICK o \in OwnersSeen(b) : (q.role = "admin" \/ o = q.who) /\ Go(r, F(o))
    BY <1>3 DEF LoadBucketForGrantAdmin, q
  <2>2. o \in Users
    BY <1>b DEF OwnersSeen, TypeOK
  <2>3. pc \in {"grantee", "newOwner", "loadGrant"} /\ op \in AllOperations /\ op # "readLink"
    BY DEF GrantRoutes, AllOperations
  <2> DEFINE f == F(o)
  <2>4. /\ f \in Request /\ f.pc = pc /\ f.op = op /\ f.bucket = b /\ f.owner = o
        /\ f.who = q.who /\ f.role = q.role
    <3>1. pc \in PCs /\ op \in OpName /\ b \in Opt(Buckets) /\ o \in Opt(Users)
      <4> HIDE DEF pc
      <4> QED BY <2>2, <2>3 DEF PCs, Opt, OpName
    <3> HIDE DEF pc
    <3> QED BY <1>b, <3>1, RequestFields
  <2> HIDE DEF f, pc
  <2>5. held'[r].user /\ (o = q.who => b \in held'[r].owned)
    BY <1>d, <2>1, <2>4 DEF f
  <2>6. ShapeOK(f) /\ AuthorityOK(f, held'[r]) /\ GrantRowOK(f, grants, issued)
    BY <1>c, <2>1, <2>2, <2>3, <2>4, <2>5 DEF ShapeOK, AuthorityOK, GrantRowOK, NoPrincipal,
                                              BucketPCs, GrantAdminPCs,
                CheckPCs
  <2> QED BY <1>a, <2>1, <2>4, <2>6, MoveOK DEF f
<1>4. ASSUME NEW b \in Buckets, StartBucket(r, b) PROVE AInv'
  <2> DEFINE f == [q EXCEPT !.pc = "createBucket", !.bucket = b]
  <2>1. Go(r, f)
    BY <1>4 DEF StartBucket, q
  <2>2. /\ f \in Request /\ f.pc = "createBucket" /\ f.bucket = b
        /\ f.who = q.who /\ f.op = q.op
    <3>1. "createBucket" \in PCs /\ b \in Opt(Buckets)
      BY DEF PCs, Opt
    <3> QED BY <1>b, <3>1, RequestFields
  <2> HIDE DEF f
  <2>3. held'[r].user /\ (q.op = "readLink" => held'[r].link)
    BY <1>d, <2>1, <2>2
  <2>4. ShapeOK(f) /\ AuthorityOK(f, held'[r]) /\ GrantRowOK(f, grants, issued)
    BY <1>c, <2>2, <2>3 DEF ShapeOK, AuthorityOK, GrantRowOK, NoPrincipal, BucketPCs, GrantAdminPCs,
                CheckPCs
  <2> QED BY <1>a, <2>1, <2>2, <2>4, MoveOK
<1>5. ASSUME NEW op \in {"object", "deleteObjects", "deleteBucket"}, NEW b \in Buckets,
             NEW a \in Actions \cup {"DeleteBucket"}, NEW k \in Keys \cup {None},
             LoadBucket(r, op, b, a, k)
      PROVE  AInv'
  <2> DEFINE pc == IF op = "deleteObjects" THEN "relationship" ELSE "authorize"
             F(o) == [q EXCEPT !.pc = pc, !.op = op, !.bucket = b, !.owner = o,
                               !.action = a, !.key = k]
  <2>1. PICK o \in OwnersSeen(b) : Go(r, F(o))
    BY <1>5 DEF LoadBucket, q
  <2>2. o \in Users /\ pc \in {"relationship", "authorize"}
    BY <1>b DEF OwnersSeen, TypeOK
  <2>3. /\ op = "deleteBucket" => a = "DeleteBucket"
        /\ a # "DeleteBucket" => k \in Keys
    BY <1>5 DEF LoadBucket
  <2>4. a \in Grantable \cup {"DeleteBucket"} /\ op \in AllOperations /\ op # "readLink"
    BY DEF AllOperations
  <2> DEFINE f == F(o)
  <2>5. /\ f \in Request /\ f.pc = pc /\ f.op = op /\ f.bucket = b /\ f.owner = o
        /\ f.action = a /\ f.key = k /\ f.who = q.who /\ f.role = q.role
    <3>1. /\ pc \in PCs /\ op \in OpName /\ b \in Opt(Buckets) /\ o \in Opt(Users)
          /\ a \in ActionName /\ k \in Opt(Keys)
      <4> HIDE DEF pc
      <4> QED BY <2>2, <2>4 DEF PCs, Opt, OpName, ActionName
    <3> HIDE DEF pc
    <3> QED BY <1>b, <3>1, RequestFields
  <2> HIDE DEF f, pc
  <2>6. held'[r].user /\ (o = q.who => b \in held'[r].owned)
    BY <1>d, <2>1, <2>5 DEF f
  <2>7. ShapeOK(f) /\ AuthorityOK(f, held'[r]) /\ GrantRowOK(f, grants, issued)
    BY <1>c, <2>2, <2>3, <2>4, <2>5, <2>6 DEF ShapeOK, AuthorityOK, GrantRowOK, NoPrincipal,
                                              BucketPCs, GrantAdminPCs,
                CheckPCs
  <2> QED BY <1>a, <2>1, <2>5, <2>7, MoveOK DEF f
<1>6. ASSUME NEW b \in Buckets, StartForce(r, b) PROVE AInv'
  <2> DEFINE f == [q EXCEPT !.pc = "dropBucket", !.bucket = b]
  <2>1. Go(r, f) /\ q.role = "admin"
    BY <1>6 DEF StartForce, AdminCalls, q
  <2>2. /\ f \in Request /\ f.pc = "dropBucket" /\ f.bucket = b
        /\ f.who = q.who /\ f.op = q.op /\ f.role = q.role
    <3>1. "dropBucket" \in PCs /\ b \in Opt(Buckets)
      BY DEF PCs, Opt
    <3> QED BY <1>b, <3>1, RequestFields
  <2> HIDE DEF f
  <2>3. held'[r].user /\ (q.op = "readLink" => held'[r].link)
    BY <1>d, <2>1, <2>2
  <2>4. ShapeOK(f) /\ AuthorityOK(f, held'[r]) /\ GrantRowOK(f, grants, issued)
    BY <1>c, <2>1, <2>2, <2>3 DEF ShapeOK, AuthorityOK, GrantRowOK, NoPrincipal, BucketPCs,
                                  GrantAdminPCs,
                CheckPCs
  <2> QED BY <1>a, <2>1, <2>2, <2>4, MoveOK
<1> QED BY <1>1, <1>2, <1>3, <1>4, <1>5, <1>6, SMTT(30)

\* Handlers read on.
LEMMA HandlerSteps ==
    ASSUME AInv, NEW r \in Requests,
           \/ LinkCreator(r)
           \/ \E u \in Users : ResolveGrantee(r, u)
           \/ \E g \in GrantIds, patch \in GrantPatches : LoadGrantOnBucket(r, g, patch)
           \/ \E u \in Users : LoadNewOwner(r, u)
           \/ Relationship(r)
           \/ Authorize(r)
           \/ \E k \in Keys : NextKey(r, k)
           \/ LinkUser(r)
           \/ LinkBucket(r)
    PROVE  AInv'
<1> USE AccessAssumption, CredentialsAssumption
<1> DEFINE q == req[r]
<1>a. begun' \in 0..MaxRequests /\ Observe /\ UNCHANGED <<db, stale, issued, clock, first>>
  BY ZenonT(60) DEF LinkCreator, ResolveGrantee, LoadGrantOnBucket, LoadNewOwner, Relationship,
         Authorize, NextKey, LinkUser, LinkBucket, AInv, TypeOK
<1>b. q \in Request /\ ShapeOK(q) /\ AuthorityOK(q, held[r]) /\ TypeOK
  BY SMTT(30) DEF AInv, RequestsOK, TypeOK
<1>c. q.pc \in {"linkCreator", "grantee", "loadGrant", "newOwner", "relationship",
               "authorize", "allowed", "linkUser", "linkBucket"}
  BY DEF LinkCreator, ResolveGrantee, LoadGrantOnBucket, LoadNewOwner, Relationship,
         Authorize, NextKey, LinkUser, LinkBucket
<1>d. q.who \in Users /\ q.bucket \in Buckets
  BY <1>b, <1>c DEF ShapeOK, NoPrincipal, BucketPCs, GrantAdminPCs, CheckPCs
<1>e. (q.pc # "linkUser" => held[r].user) /\ (q.op = "readLink" => held[r].link)
  BY <1>b, <1>c DEF AuthorityOK, NoPrincipal
<1> HIDE DEF q
<1>f. ASSUME NEW f \in Request, Go(r, f), f.who = q.who
      PROVE  /\ q.pc # "linkUser" => held'[r].user
             /\ q.who \in Present /\ users[q.who].active => held'[r].user
             /\ q.op = "readLink" => held'[r].link
             /\ held[r].owned \subseteq held'[r].owned
             /\ \A b \in Buckets : q.who \in OwnersSeen(b) => b \in held'[r].owned
             /\ f.key # None /\ Allow(f.who, None, f.action, f.bucket, None, f.key)
                => held'[r].granted
  BY <1>a, <1>b, <1>d, <1>e, <1>f, Carried
<1>1. CASE LinkCreator(r)
  <2> DEFINE f == [q EXCEPT !.pc = "insertLink"]
  <2>1. Go(r, f) /\ q.pc = "linkCreator"
    BY <1>1 DEF LinkCreator, q
  <2>2. /\ f \in Request /\ f.pc = "insertLink" /\ f.key = q.key
        /\ f.who = q.who /\ f.op = q.op /\ f.role = q.role /\ f.bucket = q.bucket
    <3>1. "insertLink" \in PCs
      BY DEF PCs
    <3> QED BY <1>b, <3>1, RequestFields
  <2> HIDE DEF f
  <2>3. held'[r].user /\ (q.op = "readLink" => held'[r].link)
    BY <1>f, <2>1, <2>2
  <2>4. ShapeOK(f) /\ AuthorityOK(f, held'[r]) /\ GrantRowOK(f, grants, issued)
    BY <1>b, <1>d, <2>1, <2>2, <2>3 DEF ShapeOK, AuthorityOK, GrantRowOK, NoPrincipal, BucketPCs,
                                        GrantAdminPCs,
                CheckPCs
  <2> QED BY <1>a, <2>1, <2>2, <2>4, MoveOK
<1>2. ASSUME NEW u \in Users, ResolveGrantee(r, u) PROVE AInv'
  <2> DEFINE f == [q EXCEPT !.pc = "insertGrants", !.user = u]
  <2>1. Go(r, f) /\ q.pc = "grantee"
    BY <1>2 DEF ResolveGrantee, q
  <2>2. /\ f \in Request /\ f.pc = "insertGrants" /\ f.user = u /\ f.owner = q.owner
        /\ f.who = q.who /\ f.op = q.op /\ f.role = q.role /\ f.bucket = q.bucket
    <3>1. "insertGrants" \in PCs /\ u \in Opt(Users)
      BY DEF PCs, Opt
    <3> QED BY <1>b, <3>1, RequestFields
  <2> HIDE DEF f
  <2>3. /\ held'[r].user /\ (q.op = "readLink" => held'[r].link)
        /\ held[r].owned \subseteq held'[r].owned
    BY <1>f, <2>1, <2>2
  <2>4. ShapeOK(f) /\ AuthorityOK(f, held'[r]) /\ GrantRowOK(f, grants, issued)
    BY <1>b, <1>d, <2>1, <2>2, <2>3 DEF ShapeOK, AuthorityOK, GrantRowOK, NoPrincipal, BucketPCs,
                                        GrantAdminPCs,
                CheckPCs
  <2> QED BY <1>a, <2>1, <2>2, <2>4, MoveOK
<1>3. ASSUME NEW g \in GrantIds, NEW patch \in GrantPatches, LoadGrantOnBucket(r, g, patch)
      PROVE  AInv'
  <2> DEFINE pc == IF q.op = "patchGrant" THEN "updateGrant" ELSE "deleteGrant"
             row == PatchedGrant(grants[g], patch)
             f == [q EXCEPT !.pc = pc, !.id = g, !.row = row]
  <2>1. /\ Go(r, f) /\ q.pc = "loadGrant" /\ grants[g] # None
        /\ grants[g].bucket = q.bucket
    BY <1>3 DEF LoadGrantOnBucket, q
  <2>2. /\ row \in Grant /\ row.bucket = grants[g].bucket
        /\ row.grantee = grants[g].grantee /\ row.action = grants[g].action
    <3>1. grants[g] \in Grant
      BY <1>b, <2>1 DEF TypeOK
    <3>2. patch.prefix \in Prefixes \cup {None} /\ patch.active \in BOOLEAN \cup {None}
      BY DEF GrantPatches
    <3> QED BY <3>1, <3>2 DEF PatchedGrant, Grant
  <2>3. pc \in {"updateGrant", "deleteGrant"}
    OBVIOUS
  <2> HIDE DEF pc, row
  <2>4. /\ f \in Request /\ f.pc = pc /\ f.id = g /\ f.row = row /\ f.owner = q.owner
        /\ f.who = q.who /\ f.op = q.op /\ f.role = q.role /\ f.bucket = q.bucket
    <3>1. pc \in PCs /\ g \in Opt(GrantIds) /\ row \in RowCopy
      BY <2>2, <2>3 DEF PCs, Opt, RowCopy
    <3> QED BY <1>b, <3>1, RequestFields
  <2> HIDE DEF f
  <2>5. /\ held'[r].user /\ (q.op = "readLink" => held'[r].link)
        /\ held[r].owned \subseteq held'[r].owned
    BY <1>f, <2>1, <2>4
  <2>6. g \in issued
    BY <2>1 DEF AInv, IssuedOK
  <2>7. ShapeOK(f) /\ AuthorityOK(f, held'[r]) /\ GrantRowOK(f, grants, issued)
    BY <1>b, <1>d, <2>1, <2>2, <2>3, <2>4, <2>5, <2>6 DEF ShapeOK, AuthorityOK, GrantRowOK,
                                                          NoPrincipal, BucketPCs, GrantAdminPCs,
                CheckPCs
  <2> QED BY <1>a, <2>1, <2>4, <2>7, MoveOK
<1>4. ASSUME NEW u \in Users, LoadNewOwner(r, u) PROVE AInv'
  <2> DEFINE f == [q EXCEPT !.pc = "updateOwner", !.user = u]
  <2>1. Go(r, f) /\ q.pc = "newOwner"
    BY <1>4 DEF LoadNewOwner, q
  <2>2. /\ f \in Request /\ f.pc = "updateOwner" /\ f.user = u /\ f.owner = q.owner
        /\ f.who = q.who /\ f.op = q.op /\ f.role = q.role /\ f.bucket = q.bucket
    <3>1. "updateOwner" \in PCs /\ u \in Opt(Users)
      BY DEF PCs, Opt
    <3> QED BY <1>b, <3>1, RequestFields
  <2> HIDE DEF f
  <2>3. /\ held'[r].user /\ (q.op = "readLink" => held'[r].link)
        /\ held[r].owned \subseteq held'[r].owned
    BY <1>f, <2>1, <2>2
  <2>4. ShapeOK(f) /\ AuthorityOK(f, held'[r]) /\ GrantRowOK(f, grants, issued)
    BY <1>b, <1>d, <2>1, <2>2, <2>3 DEF ShapeOK, AuthorityOK, GrantRowOK, NoPrincipal, BucketPCs,
                                        GrantAdminPCs,
                CheckPCs
  <2> QED BY <1>a, <2>1, <2>2, <2>4, MoveOK
<1>5. CASE Relationship(r)
  <2> DEFINE f == [q EXCEPT !.pc = "authorize"]
  <2>1. Go(r, f) /\ q.pc = "relationship"
    BY <1>5 DEF Relationship, q
  <2>2. /\ f \in Request /\ f.pc = "authorize" /\ f.owner = q.owner
        /\ f.action = q.action /\ f.key = q.key
        /\ f.who = q.who /\ f.op = q.op /\ f.role = q.role /\ f.bucket = q.bucket
    <3>1. "authorize" \in PCs
      BY DEF PCs
    <3> QED BY <1>b, <3>1, RequestFields
  <2> HIDE DEF f
  <2>3. /\ held'[r].user /\ (q.op = "readLink" => held'[r].link)
        /\ held[r].owned \subseteq held'[r].owned
    BY <1>f, <2>1, <2>2
  <2>4. ShapeOK(f) /\ AuthorityOK(f, held'[r]) /\ GrantRowOK(f, grants, issued)
    BY <1>b, <1>d, <2>1, <2>2, <2>3 DEF ShapeOK, AuthorityOK, GrantRowOK, NoPrincipal, BucketPCs,
                                        GrantAdminPCs,
                CheckPCs
  <2> QED BY <1>a, <2>1, <2>2, <2>4, MoveOK
<1>6. CASE Authorize(r)
  <2> DEFINE pc == IF q.op = "deleteBucket" THEN "dropBucket" ELSE "allowed"
             f == [q EXCEPT !.pc = pc]
  <2>1. /\ Go(r, f) /\ q.pc = "authorize"
        /\ Allow(q.who, q.role, q.action, q.bucket, q.owner, q.key)
    BY <1>6 DEF Authorize, Decision, q
  <2>2. /\ pc \in {"dropBucket", "allowed"}
        /\ pc = "dropBucket" => q.op = "deleteBucket"
    OBVIOUS
  <2> HIDE DEF pc
  <2>3. /\ f \in Request /\ f.pc = pc /\ f.owner = q.owner
        /\ f.action = q.action /\ f.key = q.key
        /\ f.who = q.who /\ f.op = q.op /\ f.role = q.role /\ f.bucket = q.bucket
    <3>1. pc \in PCs
      BY <2>2 DEF PCs
    <3> QED BY <1>b, <3>1, RequestFields
  <2> HIDE DEF f
  <2>4. /\ held'[r].user /\ (q.op = "readLink" => held'[r].link)
        /\ held[r].owned \subseteq held'[r].owned
        /\ f.key # None /\ Allow(f.who, None, f.action, f.bucket, None, f.key)
           => held'[r].granted
    BY <1>f, <2>1, <2>3
  <2>5. /\ q.owner = q.who => q.bucket \in held'[r].owned
        /\ q.op = "deleteBucket" => q.action = "DeleteBucket"
        /\ q.action # "DeleteBucket" => q.key \in Keys
    BY <1>b, <2>1, <2>4 DEF ShapeOK, AuthorityOK, CheckPCs
  <2>6. \/ q.role = "admin"
        \/ q.bucket \in held'[r].owned
        \/ held'[r].granted /\ q.action # "DeleteBucket"
    <3>1. CASE q.role # "admin" /\ q.owner # q.who
      <4>1. q.action # "DeleteBucket" /\ Allow(q.who, None, q.action, q.bucket, None, q.key)
        BY <2>1, <3>1 DEF Allow
      <4> QED BY <2>3, <2>4, <2>5, <4>1
    <3> QED BY <2>5, <3>1
  <2>7. ShapeOK(f) /\ AuthorityOK(f, held'[r]) /\ GrantRowOK(f, grants, issued)
    BY <1>b, <1>d, <2>2, <2>3, <2>4, <2>5, <2>6 DEF ShapeOK, AuthorityOK, GrantRowOK,
                                                    NoPrincipal, BucketPCs, GrantAdminPCs,
                CheckPCs
  <2> QED BY <1>a, <2>1, <2>3, <2>7, MoveOK
<1>7. ASSUME NEW k \in Keys, NextKey(r, k) PROVE AInv'
  <2> DEFINE f == [q EXCEPT !.pc = "authorize", !.key = k]
  <2>1. Go(r, f) /\ q.pc \in {"allowed", "authorize"} /\ q.op = "deleteObjects"
    BY <1>7 DEF NextKey, q
  <2>2. /\ f \in Request /\ f.pc = "authorize" /\ f.owner = q.owner
        /\ f.action = q.action /\ f.key = k
        /\ f.who = q.who /\ f.op = q.op /\ f.role = q.role /\ f.bucket = q.bucket
    <3>1. "authorize" \in PCs /\ k \in Opt(Keys)
      BY DEF PCs, Opt
    <3> QED BY <1>b, <3>1, RequestFields
  <2> HIDE DEF f
  <2>3. held'[r].user /\ held[r].owned \subseteq held'[r].owned
    BY <1>f, <2>1, <2>2
  <2>4. ShapeOK(f) /\ AuthorityOK(f, held'[r]) /\ GrantRowOK(f, grants, issued)
    BY <1>b, <1>d, <2>1, <2>2, <2>3 DEF ShapeOK, AuthorityOK, GrantRowOK, NoPrincipal, BucketPCs,
                                        GrantAdminPCs,
                CheckPCs
  <2> QED BY <1>a, <2>1, <2>2, <2>4, MoveOK
<1>8. CASE LinkUser(r)
  <2> DEFINE role == users[q.who].role
             f == [q EXCEPT !.pc = "linkBucket", !.role = role]
  <2>1. /\ Go(r, f) /\ q.pc = "linkUser"
        /\ users[q.who] # None /\ users[q.who].active
    BY <1>8 DEF LinkUser, q
  <2>2. role \in Roles /\ q.who \in Present
    BY <1>b, <1>d, <2>1 DEF TypeOK, User, Present
  <2> HIDE DEF role
  <2>3. /\ f \in Request /\ f.pc = "linkBucket" /\ f.action = q.action /\ f.key = q.key
        /\ f.who = q.who /\ f.op = q.op /\ f.bucket = q.bucket
    <3>1. "linkBucket" \in PCs /\ role \in Opt(Roles)
      BY <2>2 DEF PCs, Opt
    <3> QED BY <1>b, <3>1, RequestFields
  <2> HIDE DEF f
  <2>4. held'[r].user /\ (q.op = "readLink" => held'[r].link)
    BY <1>f, <2>1, <2>2, <2>3
  <2>5. ShapeOK(f) /\ AuthorityOK(f, held'[r]) /\ GrantRowOK(f, grants, issued)
    BY <1>b, <1>d, <2>1, <2>3, <2>4 DEF ShapeOK, AuthorityOK, GrantRowOK, NoPrincipal, BucketPCs,
                                        GrantAdminPCs,
                CheckPCs
  <2> QED BY <1>a, <2>1, <2>3, <2>5, MoveOK
<1>9. CASE LinkBucket(r)
  <2> DEFINE F(o) == [q EXCEPT !.pc = "authorize", !.owner = o]
  <2>1. PICK o \in OwnersSeen(q.bucket) : Go(r, F(o)) /\ q.pc = "linkBucket"
    BY <1>9 DEF LinkBucket, q
  <2>2. o \in Users
    BY <1>b, <1>d DEF OwnersSeen, TypeOK
  <2> DEFINE f == F(o)
  <2>3. /\ f \in Request /\ f.pc = "authorize" /\ f.owner = o
        /\ f.action = q.action /\ f.key = q.key
        /\ f.who = q.who /\ f.op = q.op /\ f.role = q.role /\ f.bucket = q.bucket
    <3>1. "authorize" \in PCs /\ o \in Opt(Users)
      BY <2>2 DEF PCs, Opt
    <3> QED BY <1>b, <3>1, RequestFields
  <2> HIDE DEF f
  <2>4. /\ held'[r].user /\ (q.op = "readLink" => held'[r].link)
        /\ o = q.who => q.bucket \in held'[r].owned
    BY <1>d, <1>f, <2>1, <2>3 DEF f
  <2>5. ShapeOK(f) /\ AuthorityOK(f, held'[r]) /\ GrantRowOK(f, grants, issued)
    BY <1>b, <1>d, <2>1, <2>3, <2>4 DEF ShapeOK, AuthorityOK, GrantRowOK, NoPrincipal, BucketPCs,
                                        GrantAdminPCs,
                CheckPCs
  <2> QED BY <1>a, <2>1, <2>3, <2>5, MoveOK DEF f
<1> QED BY <1>1, <1>2, <1>3, <1>4, <1>5, <1>6, <1>7, <1>8, <1>9

-----------------------------------------------------------------------------
(* Steps that write, with which requests end                               *)

\* r has answered, or has only its eviction left.
Ends(r) == Respond(r) \/ \E b \in Buckets : Go(r, [Idle EXCEPT !.pc = "evict", !.bucket = b])

LEMMA WriteOK ==
    ASSUME AInv, NEW r \in Requests, Ends(r), Observe, TablesOK', GrantsKept
    PROVE  TypeOK' /\ RequestsOK'
<1>1. CASE Respond(r)
  BY <1>1, EndedOK, StepOK DEF Respond
<1>2. CASE ~Respond(r)
  <2>1. PICK b \in Buckets : Go(r, [Idle EXCEPT !.pc = "evict", !.bucket = b])
    BY <1>2 DEF Ends
  <2> DEFINE f == [Idle EXCEPT !.pc = "evict", !.bucket = b]
  <2>2. /\ f \in Request /\ ShapeOK(f) /\ AuthorityOK(f, held'[r])
        /\ GrantRowOK(f, grants', issued')
    BY EndedOK
  <2> QED BY <2>1, <2>2, StepOK
<1> QED BY <1>1, <1>2

\* New users have fresh UUIDs, so none of them is one that setup created.
LEMMA UserSteps ==
    ASSUME AInv, NEW r \in Requests,
           \/ \E u \in Users : CreateFirstUser(r, u)
           \/ \E u \in Users, role \in Roles : CreateKey(r, u, role)
           \/ UpdateKey(r)
    PROVE  AInv'
<1> USE AccessAssumption
<1>t. /\ TablesOK
      /\ users \in [Users -> User \cup {None}]
      /\ Present \subseteq issued /\ first \subseteq issued
  BY DEF AInv, TypeOK, TablesOK, IssuedOK
<1>a. /\ Ends(r) /\ Observe /\ UNCHANGED <<owner, grants, links, stale, clock, begun>>
      /\ issued \subseteq issued'
  BY DEF CreateFirstUser, CreateKey, UpdateKey, InsertUser, Ends
<1>b. ASSUME users' \in [Users -> User \cup {None}], issued' \subseteq Users \cup GrantIds,
             first' \subseteq issued', Present' \subseteq issued', first' \subseteq Users,
             Present \subseteq Present', AtMostOneFirst'
      PROVE  AInv'
  <2>1. TablesOK' /\ GrantsKept
    BY <1>a, <1>b, <1>t DEF TablesOK, GrantsKept
  <2>2. TypeOK' /\ RequestsOK'
    BY <1>a, <2>1, WriteOK
  <2>3. IssuedOK'
    BY <1>a, <1>b DEF AInv, IssuedOK
  <2>4. GrantsUnique'
    BY <1>a DEF AInv, GrantsUnique, Identity
  <2>5. NoOrphans'
    <3>1. \A u \in Users : users[u] # None => users'[u] # None
      BY <1>b DEF Present
    <3>2. \A g \in GrantIds : grants[g] # None => grants[g].grantee \in Users
      BY <1>t DEF TablesOK, Grant
    <3>3. \A c \in Codes : links[c] # None => links[c].creator \in Users
      BY <1>t DEF TablesOK, Link
    <3> QED BY <1>a, <1>b, <3>1, <3>2, <3>3 DEF AInv, NoOrphans
  <2> QED BY <1>b, <2>2, <2>3, <2>4, <2>5 DEF AInv
<1>1. ASSUME NEW u \in Users, CreateFirstUser(r, u) PROVE AInv'
  <2>1. /\ Present = {} /\ u \notin issued /\ issued' = issued \cup {u}
        /\ users' = [users EXCEPT ![u] = NewUser("admin")] /\ first' = first \cup {u}
    BY <1>1 DEF CreateFirstUser, InsertUser
  <2>2. NewUser("admin") \in User
    BY DEF NewUser, User, Roles
  <2>3. users' \in [Users -> User \cup {None}] /\ Present' = {u}
    BY <1>t, <2>1, <2>2 DEF Present
  <2>4. AtMostOneFirst'
    BY <2>3 DEF AtMostOneFirst
  <2>5. first' \subseteq Users
    BY <1>t, <2>1 DEF TablesOK
  <2> QED BY <1>b, <1>t, <2>1, <2>3, <2>4, <2>5 DEF TablesOK
<1>2. ASSUME NEW u \in Users, NEW role \in Roles, CreateKey(r, u, role) PROVE AInv'
  <2>1. /\ u \notin issued /\ issued' = issued \cup {u} /\ first' = first
        /\ users' = [users EXCEPT ![u] = NewUser(role)]
    BY <1>2 DEF CreateKey, InsertUser
  <2>2. NewUser(role) \in User
    BY DEF NewUser, User, Roles
  <2>3. users' \in [Users -> User \cup {None}] /\ Present' = Present \cup {u}
    BY <1>t, <2>1, <2>2 DEF Present
  <2>4. AtMostOneFirst'
    BY <1>t, <2>1, <2>3 DEF AInv, AtMostOneFirst
  <2>5. first' \subseteq Users
    BY <1>t, <2>1 DEF TablesOK
  <2> QED BY <1>b, <1>t, <2>1, <2>3, <2>4, <2>5 DEF TablesOK
<1>3. CASE UpdateKey(r)
  <2> DEFINE q == req[r]
  <2>1. /\ q.pc = "patchKey" /\ users[q.user] # None
        /\ users' = [users EXCEPT ![q.user] = q.row]
        /\ issued' = issued /\ first' = first
    BY <1>3 DEF UpdateKey
  <2>2. q.user \in Users /\ q.row \in User
    BY <2>1 DEF AInv, RequestsOK, ShapeOK
  <2> HIDE DEF q
  <2>3. users' \in [Users -> User \cup {None}] /\ Present' = Present
    BY <1>t, <2>1, <2>2 DEF Present
  <2>4. AtMostOneFirst'
    BY <2>1, <2>3 DEF AInv, AtMostOneFirst
  <2>5. first' \subseteq Users
    BY <1>t, <2>1 DEF TablesOK
  <2> QED BY <1>b, <1>t, <2>1, <2>3, <2>4, <2>5 DEF TablesOK
<1> QED BY <1>1, <1>2, <1>3

\* Removing rows, with what a cascade takes along.
LEMMA RemovalSteps ==
    ASSUME AInv, NEW r \in Requests,
           \/ \E u \in Users : DeleteKey(r, u)
           \/ \E c \in Codes : DeleteShareLink(r, c)
           \/ DeleteGrant(r)
           \/ DropBucket(r)
           \/ Evict(r)
    PROVE  AInv'
<1> USE AccessAssumption, CredentialsAssumption
<1>t. TablesOK /\ IssuedOK /\ NoOrphans /\ GrantsUnique /\ AtMostOneFirst
  BY DEF AInv, TypeOK, TablesOK
<1>a. /\ Observe /\ UNCHANGED <<issued, clock, begun, first>>
  BY DEF DeleteKey, DeleteShareLink, DeleteGrant, DropBucket, Evict
<1>b. ASSUME Ends(r),
             users' \in [Users -> User \cup {None}], owner' \in [Buckets -> Users \cup {None}],
             stale' \in [Buckets -> SUBSET Users],
             grants' \in [GrantIds -> Grant \cup {None}],
             links' \in [Codes -> Link \cup {None}],
             \A u \in Users : users'[u] \in {users[u], None},
             \A g \in GrantIds : grants'[g] \in {grants[g], None},
             NoOrphans'
      PROVE  AInv'
  <2>1. TablesOK' /\ GrantsKept
    BY <1>a, <1>b, <1>t DEF TablesOK, GrantsKept
  <2>2. TypeOK' /\ RequestsOK'
    BY <1>a, <1>b, <2>1, WriteOK
  <2>3. Present' \subseteq Present
    BY <1>b DEF Present
  <2>4. IssuedOK' /\ AtMostOneFirst'
    BY <1>a, <1>b, <1>t, <2>3 DEF IssuedOK, AtMostOneFirst
  <2>5. GrantsUnique'
    BY <1>b, <1>t DEF GrantsUnique, Identity
  <2> QED BY <1>b, <2>2, <2>4, <2>5 DEF AInv
<1>1. ASSUME NEW u \in Users, DeleteKey(r, u) PROVE AInv'
  <2>1. /\ Ends(r) /\ UNCHANGED <<owner, stale>> /\ \A b \in Buckets : owner[b] # u
        /\ users' = [users EXCEPT ![u] = None]
        /\ grants' = [g \in GrantIds |->
                        IF grants[g] # None /\ grants[g].grantee = u THEN None ELSE grants[g]]
        /\ links' = [c \in Codes |->
                        IF links[c] # None /\ links[c].creator = u THEN None ELSE links[c]]
    BY <1>1 DEF DeleteKey, DeleteUserRow, Ends
  <2>2. /\ users' \in [Users -> User \cup {None}] /\ grants' \in [GrantIds -> Grant \cup {None}]
        /\ links' \in [Codes -> Link \cup {None}]
    BY <1>t, <2>1 DEF TablesOK
  <2>3. \A v \in Users : users'[v] = IF v = u THEN None ELSE users[v]
    BY <1>t, <2>1 DEF TablesOK
  <2>4. \A g \in GrantIds : grants'[g] # None => grants'[g] = grants[g] /\ grants[g].grantee # u
    BY <2>1
  <2>5. \A c \in Codes : links'[c] # None => links'[c] = links[c] /\ links[c].creator # u
    BY <2>1
  <2>6. NoOrphans'
    <3>1. \A b \in Buckets : owner'[b] \in Present' \cup {None}
      BY <1>t, <2>1, <2>3 DEF NoOrphans, Present
    <3>2. ASSUME NEW g \in GrantIds, grants'[g] # None
          PROVE  owner'[grants'[g].bucket] # None /\ users'[grants'[g].grantee] # None
      <4>1. grants'[g] = grants[g] /\ grants[g] # None /\ grants[g].grantee # u
        BY <2>4, <3>2
      <4>2. grants[g].grantee \in Users
        BY <1>t, <4>1 DEF TablesOK, Grant
      <4> QED BY <1>t, <2>1, <2>3, <4>1, <4>2 DEF NoOrphans
    <3>3. ASSUME NEW c \in Codes, links'[c] # None
          PROVE  owner'[links'[c].bucket] # None /\ users'[links'[c].creator] # None
      <4>1. links'[c] = links[c] /\ links[c] # None /\ links[c].creator # u
        BY <2>5, <3>3
      <4>2. links[c].creator \in Users
        BY <1>t, <4>1 DEF TablesOK, Link
      <4> QED BY <1>t, <2>1, <2>3, <4>1, <4>2 DEF NoOrphans
    <3> QED BY <3>1, <3>2, <3>3 DEF NoOrphans
  <2> QED BY <1>b, <1>t, <2>1, <2>2, <2>3, <2>4, <2>6 DEF TablesOK
<1>2. ASSUME NEW c \in Codes, DeleteShareLink(r, c) PROVE AInv'
  <2>1. /\ Ends(r) /\ UNCHANGED <<users, owner, grants, stale>>
        /\ links' = [links EXCEPT ![c] = None]
    BY <1>2 DEF DeleteShareLink, Ends
  <2>2. NoOrphans'
    BY <1>t, <2>1 DEF NoOrphans, Present, TablesOK
  <2> QED BY <1>b, <1>t, <2>1, <2>2 DEF TablesOK
<1>3. CASE DeleteGrant(r)
  <2> DEFINE id == req[r].id
  <2>1. /\ Ends(r) /\ UNCHANGED <<users, owner, links, stale>>
        /\ grants' = [grants EXCEPT ![id] = None]
    BY <1>3 DEF DeleteGrant, Ends
  <2> HIDE DEF id
  <2>2. NoOrphans'
    BY <1>t, <2>1 DEF NoOrphans, Present, TablesOK
  <2> QED BY <1>b, <1>t, <2>1, <2>2 DEF TablesOK
<1>4. CASE DropBucket(r)
  <2> DEFINE b == req[r].bucket
  <2>1. b \in Buckets
    BY <1>4 DEF DropBucket, AInv, RequestsOK, ShapeOK, BucketPCs
  <2>2. /\ Ends(r) /\ users' = users /\ owner[b] # None
        /\ owner' = [owner EXCEPT ![b] = None]
        /\ stale' = [stale EXCEPT ![b] = @ \cup {owner[b]}]
        /\ grants' = [g \in GrantIds |->
                        IF grants[g] # None /\ grants[g].bucket = b THEN None ELSE grants[g]]
        /\ links' = [c \in Codes |->
                        IF links[c] # None /\ links[c].bucket = b THEN None ELSE links[c]]
    BY <1>4, <2>1 DEF DropBucket, DeleteBucketRow, Evicting, Ends
  <2> HIDE DEF b
  <2>3. /\ owner' \in [Buckets -> Users \cup {None}]
        /\ grants' \in [GrantIds -> Grant \cup {None}]
        /\ links' \in [Codes -> Link \cup {None}]
        /\ stale' \in [Buckets -> SUBSET Users]
    BY <1>t, <2>1, <2>2 DEF TablesOK
  <2>4. \A d \in Buckets : owner'[d] = IF d = b THEN None ELSE owner[d]
    BY <1>t, <2>2 DEF TablesOK
  <2>5. \A g \in GrantIds : grants'[g] # None => grants'[g] = grants[g] /\ grants[g].bucket # b
    BY <2>2
  <2>6. \A c \in Codes : links'[c] # None => links'[c] = links[c] /\ links[c].bucket # b
    BY <2>2
  <2>7. NoOrphans'
    <3>1. \A d \in Buckets : owner'[d] \in Present' \cup {None}
      BY <1>t, <2>2, <2>4 DEF NoOrphans, Present
    <3>2. ASSUME NEW g \in GrantIds, grants'[g] # None
          PROVE  owner'[grants'[g].bucket] # None /\ users'[grants'[g].grantee] # None
      <4>1. grants'[g] = grants[g] /\ grants[g] # None /\ grants[g].bucket # b
        BY <2>5, <3>2
      <4>2. grants[g].bucket \in Buckets
        BY <1>t, <4>1 DEF TablesOK, Grant
      <4> QED BY <1>t, <2>2, <2>4, <4>1, <4>2 DEF NoOrphans
    <3>3. ASSUME NEW c \in Codes, links'[c] # None
          PROVE  owner'[links'[c].bucket] # None /\ users'[links'[c].creator] # None
      <4>1. links'[c] = links[c] /\ links[c] # None /\ links[c].bucket # b
        BY <2>6, <3>3
      <4>2. links[c].bucket \in Buckets
        BY <1>t, <4>1 DEF TablesOK, Link
      <4> QED BY <1>t, <2>2, <2>4, <4>1, <4>2 DEF NoOrphans
    <3> QED BY <3>1, <3>2, <3>3 DEF NoOrphans
  <2> QED BY <1>b, <1>t, <2>2, <2>3, <2>5, <2>7 DEF TablesOK
<1>5. CASE Evict(r)
  <2> DEFINE b == req[r].bucket
  <2>1. /\ Ends(r) /\ UNCHANGED <<users, owner, grants, links>>
        /\ stale' = [stale EXCEPT ![b] = {}]
    BY <1>5 DEF Evict, Ends, db
  <2> HIDE DEF b
  <2>2. NoOrphans'
    BY <1>t, <2>1 DEF NoOrphans, Present
  <2> QED BY <1>b, <1>t, <2>1, <2>2 DEF TablesOK
<1> QED BY <1>1, <1>2, <1>3, <1>4, <1>5

\* A share link is inserted while its bucket and its creator are there.
LEMMA LinkSteps ==
    ASSUME AInv, NEW r \in Requests, NEW c \in Codes, NEW ttl \in TTLs, InsertLink(r, c, ttl)
    PROVE  AInv'
<1> USE AccessAssumption
<1> DEFINE q == req[r]
           new == NewLink(r, ttl)
<1>1. /\ q.pc = "insertLink" /\ owner[q.bucket] # None /\ users[q.who] # None
      /\ links' = [links EXCEPT ![c] = new] /\ Ends(r) /\ Observe
      /\ UNCHANGED <<users, owner, grants, stale, issued, clock, begun, first>>
  BY DEF InsertLink, Ends
<1>2. q.bucket \in Buckets /\ q.key \in Keys /\ q.who \in Users
  BY <1>1 DEF AInv, RequestsOK, ShapeOK, NoPrincipal, BucketPCs
<1>3. TablesOK
  BY DEF AInv, TypeOK, TablesOK
<1>4. new \in Link /\ new.bucket = q.bucket /\ new.creator = q.who
  <2>1. clock \in Nat /\ (ttl # None => ttl \in Nat)
    BY <1>3 DEF TablesOK
  <2>2. (IF ttl = None THEN None ELSE clock + ttl) \in Nat \cup {None}
    BY <2>1
  <2> QED BY <1>2, <2>2 DEF NewLink, Link
<1> HIDE DEF q, new
<1>5. TablesOK' /\ GrantsKept
  BY <1>1, <1>3, <1>4 DEF TablesOK, GrantsKept
<1>6. TypeOK' /\ RequestsOK'
  BY <1>1, <1>5, WriteOK
<1>7. \A d \in Codes : links'[d] = IF d = c THEN new ELSE links[d]
  BY <1>1, <1>3 DEF TablesOK
<1>8. NoOrphans'
  BY <1>1, <1>4, <1>7 DEF AInv, NoOrphans, Present
<1>9. IssuedOK' /\ AtMostOneFirst' /\ GrantsUnique'
  BY <1>1 DEF AInv, IssuedOK, AtMostOneFirst, GrantsUnique, Present, Identity
<1> QED BY <1>6, <1>8, <1>9 DEF AInv

\* A batch inserts grants that no active one is the same as, under UUIDs that
\* no grant has had.
LEMMA BatchSteps ==
    ASSUME AInv, NEW r \in Requests, NEW acts \in Batches, NEW p \in Prefixes,
           NEW id \in [acts -> GrantIds], CreateIdempotentBatch(r, acts, p, id)
    PROVE  AInv'
<1> USE AccessAssumption
<1> DEFINE q == req[r]
           fresh == {a \in acts : ActiveAs(NewGrant(r, a, p)) = {}}
           new(g) == CHOOSE a \in fresh : id[a] = g
<1>1. /\ q.pc = "insertGrants" /\ owner[q.bucket] # None /\ users[q.user] # None
      /\ \A a \in fresh : id[a] \notin issued
      /\ grants' = [g \in GrantIds |-> IF \E a \in fresh : id[a] = g
                                       THEN NewGrant(r, new(g), p) ELSE grants[g]]
      /\ issued' = issued \cup {id[a] : a \in fresh}
      /\ Ends(r) /\ Observe
      /\ UNCHANGED <<users, owner, links, stale, clock, begun, first>>
  BY DEF CreateIdempotentBatch, Ends
<1>2. q.bucket \in Buckets /\ q.user \in Users
  BY <1>1 DEF AInv, RequestsOK, ShapeOK, BucketPCs, GrantAdminPCs
<1>3. TablesOK /\ IssuedOK /\ GrantsUnique /\ NoOrphans
  BY DEF AInv, TypeOK, TablesOK
<1>4. fresh \subseteq acts /\ acts \subseteq Grantable
  OBVIOUS
<1>5. ASSUME NEW a \in fresh
      PROVE  /\ id[a] \in GrantIds
             /\ NewGrant(r, a, p) \in Grant
             /\ NewGrant(r, a, p).bucket = q.bucket /\ NewGrant(r, a, p).grantee = q.user
             /\ NewGrant(r, a, p).action = a
             /\ ActiveAs(NewGrant(r, a, p)) = {}
  BY <1>2, <1>4 DEF NewGrant, Grant
<1> HIDE DEF q, fresh
<1>6. ASSUME NEW g \in GrantIds, \E a \in fresh : id[a] = g
      PROVE  new(g) \in fresh /\ id[new(g)] = g /\ g \notin issued
             /\ grants'[g] = NewGrant(r, new(g), p)
  BY <1>1, <1>6
<1> HIDE DEF new
<1>7. ASSUME NEW g \in GrantIds
      PROVE  \/ grants'[g] = grants[g]
             \/ /\ g \notin issued /\ g \in issued' /\ grants[g] = None
                /\ \E a \in fresh : id[a] = g /\ grants'[g] = NewGrant(r, a, p)
  <2>1. CASE \E a \in fresh : id[a] = g
    BY <1>1, <1>3, <1>6, <2>1 DEF IssuedOK
  <2>2. CASE ~\E a \in fresh : id[a] = g
    BY <1>1, <2>2
  <2> QED BY <2>1, <2>2
<1>8. grants' \in [GrantIds -> Grant \cup {None}]
  <2>1. \A g \in GrantIds : grants'[g] \in Grant \cup {None}
    BY <1>3, <1>5, <1>7 DEF TablesOK
  <2>2. grants' = [g \in GrantIds |-> grants'[g]]
    BY <1>1
  <2> QED BY <2>1, <2>2
<1>9. TablesOK' /\ GrantsKept
  <2>1. issued' \subseteq Users \cup GrantIds
    BY <1>1, <1>3, <1>5 DEF TablesOK
  <2>2. TablesOK'
    BY <1>1, <1>3, <1>8, <2>1 DEF TablesOK
  <2>3. GrantsKept
    BY <1>1, <1>7 DEF GrantsKept
  <2> QED BY <2>2, <2>3
<1>10. TypeOK' /\ RequestsOK'
  BY <1>1, <1>9, WriteOK
<1>11. IssuedOK' /\ AtMostOneFirst'
  BY <1>1, <1>3, <1>7 DEF AInv, IssuedOK, AtMostOneFirst, Present
<1>12. NoOrphans'
  <2>1. \A g \in GrantIds : grants'[g] # None =>
          owner[grants'[g].bucket] # None /\ users[grants'[g].grantee] # None
    BY <1>1, <1>3, <1>5, <1>7 DEF NoOrphans
  <2> QED BY <1>1, <1>3, <2>1 DEF NoOrphans, Present
<1>13. GrantsUnique'
  <2> SUFFICES ASSUME NEW g \in GrantIds, NEW h \in GrantIds,
                      grants'[g] # None, grants'[g].active,
                      grants'[h] # None, grants'[h].active,
                      Identity(grants'[g]) = Identity(grants'[h]), g # h
               PROVE  FALSE
    BY DEF GrantsUnique, Identity
  \* An old grant is active and the same as a new one: it was in ActiveAs.
  <2>1. ASSUME NEW x \in GrantIds, NEW a \in fresh, grants[x] # None, grants[x].active,
               Identity(grants[x]) = Identity(NewGrant(r, a, p))
        PROVE  FALSE
    BY <1>5, <2>1 DEF ActiveAs
  <2>2. CASE grants'[g] = grants[g] /\ grants'[h] = grants[h]
    BY <1>3, <2>2 DEF GrantsUnique
  <2>3. CASE grants'[g] = grants[g] /\ grants'[h] # grants[h]
    <3>1. PICK a \in fresh : grants'[h] = NewGrant(r, a, p)
      BY <1>7, <2>3
    <3> QED BY <2>1, <2>3, <3>1
  <2>4. CASE grants'[g] # grants[g] /\ grants'[h] = grants[h]
    <3>1. PICK a \in fresh : grants'[g] = NewGrant(r, a, p)
      BY <1>7, <2>4
    <3> QED BY <2>1, <2>4, <3>1
  <2>5. CASE grants'[g] # grants[g] /\ grants'[h] # grants[h]
    <3>1. PICK a \in fresh : id[a] = g /\ grants'[g] = NewGrant(r, a, p)
      BY <1>7, <2>5
    <3>2. PICK b \in fresh : id[b] = h /\ grants'[h] = NewGrant(r, b, p)
      BY <1>7, <2>5
    <3>3. a = b
      BY <1>5, <3>1, <3>2 DEF Identity
    <3> QED BY <3>1, <3>2, <3>3
  <2> QED BY <2>2, <2>3, <2>4, <2>5
<1> QED BY <1>10, <1>11, <1>12, <1>13 DEF AInv

\* A patch changes prefix and activity of the grant that was loaded; the index
\* compares the copy, which has the row's bucket, grantee and action.
LEMMA PatchSteps ==
    ASSUME AInv, NEW r \in Requests, UpdateGrant(r)
    PROVE  AInv'
<1> USE AccessAssumption
<1> DEFINE q == req[r]
           old == grants[q.id]
           new == [old EXCEPT !.prefix = q.row.prefix, !.active = q.row.active]
<1>1. /\ q.pc = "updateGrant" /\ old # None
      /\ q.row.active => ActiveAs(q.row) \subseteq {q.id}
      /\ grants' = [grants EXCEPT ![q.id].prefix = q.row.prefix,
                                  ![q.id].active = q.row.active]
      /\ Ends(r) /\ Observe
      /\ UNCHANGED <<users, owner, links, stale, issued, clock, begun, first>>
  BY DEF UpdateGrant, Ends
<1>2. /\ q.id \in GrantIds /\ q.row \in Grant
      /\ old.bucket = q.row.bucket /\ old.grantee = q.row.grantee /\ old.action = q.row.action
  BY <1>1 DEF AInv, RequestsOK, ShapeOK, GrantRowOK
<1>3. TablesOK /\ IssuedOK /\ GrantsUnique /\ NoOrphans
  BY DEF AInv, TypeOK, TablesOK
<1>4. old \in Grant
  BY <1>1, <1>2, <1>3 DEF TablesOK
<1>5. /\ new \in Grant /\ new.bucket = old.bucket /\ new.grantee = old.grantee
      /\ new.action = old.action /\ new.prefix = q.row.prefix /\ new.active = q.row.active
  BY <1>2, <1>4 DEF Grant
<1>6. grants' \in [GrantIds -> Grant \cup {None}]
      /\ \A g \in GrantIds : grants'[g] = IF g = q.id THEN new ELSE grants[g]
  <2>1. grants' = [grants EXCEPT ![q.id] = new]
    BY <1>1, <1>2, <1>3, <1>4 DEF TablesOK, Grant
  <2> HIDE DEF new, old, q
  <2> QED BY <1>2, <1>3, <1>5, <2>1 DEF TablesOK
<1> HIDE DEF new
<1>7. TablesOK' /\ GrantsKept
  BY <1>1, <1>3, <1>5, <1>6, ZenonT(60) DEF TablesOK, GrantsKept
<1>8. TypeOK' /\ RequestsOK'
  BY <1>1, <1>7, WriteOK
<1>9. IssuedOK' /\ AtMostOneFirst' /\ NoOrphans'
  <2>1. \A g \in GrantIds : grants'[g] # None =>
          /\ grants[g] # None /\ grants'[g].bucket = grants[g].bucket
          /\ grants'[g].grantee = grants[g].grantee
    BY <1>1, <1>2, <1>5, <1>6
  <2>2. IssuedOK' /\ AtMostOneFirst'
    BY <1>1, <1>3, <2>1 DEF AInv, IssuedOK, AtMostOneFirst, Present
  <2>3. NoOrphans'
    BY <1>1, <1>3, <2>1 DEF NoOrphans, Present
  <2> QED BY <2>2, <2>3
<1>10. GrantsUnique'
  <2>1. Identity(new) = Identity(q.row)
    BY <1>2, <1>5 DEF Identity
  <2>2. ASSUME NEW h \in GrantIds \ {q.id}, new.active, grants[h] # None, grants[h].active
        PROVE  Identity(grants[h]) # Identity(new)
    BY <1>1, <1>5, <2>1, <2>2 DEF ActiveAs
  <2> HIDE DEF q, old
  <2>3. ASSUME NEW g \in GrantIds, NEW h \in GrantIds,
               grants'[g] # None, grants'[g].active, grants'[h] # None, grants'[h].active,
               Identity(grants'[g]) = Identity(grants'[h])
        PROVE  g = h
    <3>1. CASE g = q.id /\ h # q.id
      BY <1>6, <2>2, <2>3, <3>1
    <3>2. CASE g # q.id /\ h = q.id
      BY <1>6, <2>2, <2>3, <3>2
    <3>3. CASE g # q.id /\ h # q.id
      BY <1>3, <1>6, <2>3, <3>3 DEF GrantsUnique
    <3> QED BY <3>1, <3>2, <3>3
  <2> QED BY <2>3 DEF GrantsUnique, Identity
<1> QED BY <1>8, <1>9, <1>10 DEF AInv

\* A bucket gets an owner that exists.
LEMMA OwnerSteps ==
    ASSUME AInv, NEW r \in Requests, UpdateOwner(r) \/ InsertBucket(r)
    PROVE  AInv'
<1> USE AccessAssumption, CredentialsAssumption
<1> DEFINE q == req[r]
           u == IF q.pc = "updateOwner" THEN q.user ELSE q.who
<1>1. /\ q.pc \in {"updateOwner", "createBucket"}
      /\ users[u] # None
      /\ owner' = [owner EXCEPT ![q.bucket] = u]
      /\ Evicting(r) /\ Observe
      /\ UNCHANGED <<users, grants, links, issued, clock, begun, first>>
      /\ stale' = stale \/ (/\ q.pc = "updateOwner" /\ owner[q.bucket] = q.owner
                            /\ stale' = [stale EXCEPT ![q.bucket] = @ \cup {owner[q.bucket]}])
  BY DEF UpdateOwner, InsertBucket
<1>2. q.bucket \in Buckets /\ u \in Users /\ (q.pc = "updateOwner" => q.owner \in Users)
  BY <1>1 DEF AInv, RequestsOK, ShapeOK, BucketPCs, GrantAdminPCs, NoPrincipal
<1>3. Ends(r)
  BY <1>1, <1>2 DEF Ends, Evicting
<1> HIDE DEF q, u
<1>4. TablesOK /\ NoOrphans
  BY DEF AInv, TypeOK, TablesOK
<1>5. /\ owner' \in [Buckets -> Users \cup {None}]
      /\ \A b \in Buckets : owner'[b] = IF b = q.bucket THEN u ELSE owner[b]
  BY <1>1, <1>2, <1>4 DEF TablesOK
<1>6. stale' \in [Buckets -> SUBSET Users]
  BY <1>1, <1>2, <1>4 DEF TablesOK
<1>7. TablesOK' /\ GrantsKept
  BY <1>1, <1>4, <1>5, <1>6 DEF TablesOK, GrantsKept
<1>8. TypeOK' /\ RequestsOK'
  BY <1>1, <1>3, <1>7, WriteOK
<1>9. NoOrphans'
  <2>1. \A b \in Buckets : owner'[b] \in Present' \cup {None}
    BY <1>1, <1>2, <1>4, <1>5 DEF NoOrphans, Present
  <2>2. \A b \in Buckets : owner[b] # None => owner'[b] # None
    BY <1>2, <1>5
  <2>3. \A g \in GrantIds : grants[g] # None => grants[g].bucket \in Buckets
    BY <1>4 DEF TablesOK, Grant
  <2>4. \A c \in Codes : links[c] # None => links[c].bucket \in Buckets
    BY <1>4 DEF TablesOK, Link
  <2> QED BY <1>1, <1>4, <2>1, <2>2, <2>3, <2>4 DEF NoOrphans
<1>10. IssuedOK' /\ AtMostOneFirst' /\ GrantsUnique'
  BY <1>1 DEF AInv, IssuedOK, AtMostOneFirst, GrantsUnique, Present, Identity
<1> QED BY <1>8, <1>9, <1>10 DEF AInv

\* Time passes.
LEMMA TickStep ==
    ASSUME AInv, Tick
    PROVE  AInv'
<1>1. /\ clock' = clock + 1 /\ clock < MaxClock /\ Observe
      /\ UNCHANGED <<users, owner, grants, links, stale, issued, req, begun, first>>
  BY DEF Tick, db
<1>2. clock' \in 0..MaxClock
  BY <1>1, AccessAssumption DEF AInv, TypeOK
<1>3. held' \in [Requests -> Held]
  BY <1>1, HeldGrows DEF AInv, TypeOK
<1>4. TypeOK'
  BY <1>1, <1>2, <1>3 DEF AInv, TypeOK
<1>5. GrantsKept
  BY <1>1 DEF GrantsKept
<1>6. \A s \in Requests : /\ ShapeOK(req'[s])
                          /\ AuthorityOK(req'[s], held'[s])
                          /\ GrantRowOK(req'[s], grants', issued')
  BY <1>1, <1>5, OthersOK DEF AInv, TypeOK
<1>7. RequestsOK'
  BY <1>6 DEF RequestsOK, ShapeOK, AuthorityOK, GrantRowOK
<1>8. IssuedOK' /\ AtMostOneFirst' /\ GrantsUnique' /\ NoOrphans'
  BY <1>1 DEF AInv, IssuedOK, AtMostOneFirst, GrantsUnique, NoOrphans, Present, Identity
<1> QED BY <1>4, <1>7, <1>8 DEF AInv

-----------------------------------------------------------------------------
(* The theorems                                                            *)

LEMMA AInit == Init => AInv
<1> SUFFICES ASSUME Init PROVE AInv
  OBVIOUS
<1> USE AccessAssumption, CredentialsAssumption
<1>1. PICK s \in Seeds : users = s.users /\ owner = s.owner /\ grants = s.grants /\ links = s.links
  BY DEF Init
<1>2. /\ users \in [Users -> User \cup {None}] /\ owner \in [Buckets -> Users \cup {None}]
      /\ grants \in [GrantIds -> Grant \cup {None}] /\ links \in [Codes -> Link \cup {None}]
      /\ \A b \in Buckets : owner[b] # None => users[owner[b]] # None
      /\ \A g \in GrantIds : grants[g] # None =>
            /\ owner[grants[g].bucket] # None
            /\ users[grants[g].grantee] # None
            /\ \A h \in GrantIds \ {g} : grants[h] # None =>
                \/ ~grants[g].active \/ ~grants[h].active
                \/ \E col \in {"bucket", "grantee", "action", "prefix"} :
                    grants[g][col] # grants[h][col]
      /\ \A c \in Codes : links[c] # None =>
            owner[links[c].bucket] # None /\ users[links[c].creator] # None
  BY <1>1, SeedsAssumption
<1>3. Idle \in Request /\ Idle.pc = "idle" /\ Idle.op = "none"
  BY EndedOK DEF Idle
<1>4. NothingHeld \in Held
  BY DEF NothingHeld, Held
<1>5. /\ stale = [b \in Buckets |-> {}] /\ clock = 0 /\ begun = 0 /\ first = {}
      /\ issued = Present \cup {g \in GrantIds : grants[g] # None}
      /\ req = [r \in Requests |-> Idle] /\ held = [r \in Requests |-> NothingHeld]
  BY DEF Init
<1>6. TypeOK
  BY <1>2, <1>3, <1>4, <1>5 DEF TypeOK, Present
<1>7. RequestsOK
  <2> SUFFICES ASSUME NEW r \in Requests
               PROVE  /\ ShapeOK(req[r])
                      /\ AuthorityOK(req[r], held[r])
                      /\ GrantRowOK(req[r], grants, issued)
    BY DEF RequestsOK
  <2>1. req[r] = Idle
    BY <1>5
  <2> QED BY <2>1, EndedOK
<1>8. IssuedOK /\ AtMostOneFirst
  BY <1>5 DEF IssuedOK, AtMostOneFirst
<1>9. GrantsUnique
  <2> SUFFICES ASSUME NEW g \in GrantIds, NEW h \in GrantIds,
                      grants[g] # None, grants[g].active, grants[h] # None, grants[h].active,
                      Identity(grants[g]) = Identity(grants[h]), g # h
               PROVE  FALSE
    BY DEF GrantsUnique
  <2>1. PICK col \in {"bucket", "grantee", "action", "prefix"} : grants[g][col] # grants[h][col]
    BY <1>2
  <2> QED BY <2>1 DEF Identity
<1>10. NoOrphans
  BY <1>2 DEF NoOrphans, Present
<1> QED BY <1>6, <1>7, <1>8, <1>9, <1>10 DEF AInv

LEMMA ANext == AInv /\ [Next]_vars => AInv'
<1> SUFFICES ASSUME AInv, [Next]_vars PROVE AInv'
  OBVIOUS
<1>1. CASE Tick
  BY <1>1, TickStep
<1>2. ASSUME NEW r \in Requests, Step(r) PROVE AInv'
  BY <1>2, BeginSteps, EndSteps, RouteSteps, HandlerSteps, UserSteps, RemovalSteps,
     LinkSteps, BatchSteps, PatchSteps, OwnerSteps DEF Step
<1>3. CASE UNCHANGED vars
  <2>1. UNCHANGED <<users, owner, grants, links, stale, issued, clock, req, begun, first, held>>
    BY <1>3 DEF vars, db
  <2>2. TypeOK' /\ RequestsOK'
    BY <2>1 DEF AInv, TypeOK, RequestsOK, ShapeOK, AuthorityOK, GrantRowOK
  <2>3. IssuedOK' /\ AtMostOneFirst' /\ GrantsUnique' /\ NoOrphans'
    BY <2>1 DEF AInv, IssuedOK, AtMostOneFirst, GrantsUnique, NoOrphans, Present, Identity
  <2> QED BY <2>2, <2>3 DEF AInv
<1> QED BY <1>1, <1>2, <1>3 DEF Next

\* The inductive invariant holds in every reachable state.
THEOREM AccessInvariant == Spec => []AInv
<1> QED BY AInit, ANext, PTL DEF Spec

\* Every table keeps the types of its columns, every request those of its
\* fields, for any number of requests.
THEOREM AccessTypes == Spec => []TypeOK
<1>1. AInv => TypeOK
  BY DEF AInv
<1> QED BY <1>1, AccessInvariant, PTL

\* Setup never adds an administrator beside another one it created
\* (CreateFirstUser's transaction), however many setup requests race.
THEOREM OneFirstAdminHolds == Spec => []OneFirstAdmin
<1>1. AInv => OneFirstAdmin
  <2> SUFFICES ASSUME AInv PROVE OneFirstAdmin
    OBVIOUS
  <2> DEFINE S == first \cap Present
  <2>1. CASE S = {}
    BY <2>1, FS_EmptySet DEF OneFirstAdmin
  <2>2. CASE S # {}
    <3>1. PICK u \in S : TRUE
      BY <2>2
    <3>2. S = {u}
      BY <3>1 DEF AInv, AtMostOneFirst
    <3>3. Cardinality({u}) = 1
      BY FS_Singleton
    <3> QED BY <3>2, <3>3 DEF OneFirstAdmin
  <2> QED BY <2>1, <2>2
<1> QED BY <1>1, AccessInvariant, PTL

\* What is served was allowed at some moment of the request (requireAction,
\* creatorCanRead): an active principal that was administrator, owner (named
\* so by the bucket's row or by a copy still cached) or grantee for that key,
\* and a link that was current.
THEOREM ServedHolds == Spec => []ServedOnlyWhileAllowed
<1>1. AInv => ServedOnlyWhileAllowed
  BY DEF AInv, RequestsOK, ShapeOK, AuthorityOK, ServedOnlyWhileAllowed, NoPrincipal, CheckPCs
<1> QED BY <1>1, AccessInvariant, PTL

\* No two active grants are the same (idx_grants_unique_active), through batches and
\* patches of any number of requests.
THEOREM GrantsUniqueHolds == Spec => []GrantsUnique
<1>1. AInv => GrantsUnique
  BY DEF AInv
<1> QED BY <1>1, AccessInvariant, PTL

\* No row names a user or a bucket that is gone (the foreign keys and their
\* cascades), whatever is deleted between a request's checks and its write.
THEOREM NoOrphansHolds == Spec => []NoOrphans
<1>1. AInv => NoOrphans
  BY DEF AInv
<1> QED BY <1>1, AccessInvariant, PTL

-----------------------------------------------------------------------------
(* Who changes what                                                        *)

\* The steps that write a bucket's owner and those that write a grant.
LEMMA Writers ==
    ASSUME Next
    PROVE  /\ \/ owner' = owner
              \/ \E r \in Requests : UpdateOwner(r) \/ InsertBucket(r) \/ DropBucket(r)
           /\ \/ grants' = grants
              \/ \E r \in Requests :
                    \/ \E u \in Users : DeleteKey(r, u)
                    \/ \E acts \in Batches, p \in Prefixes :
                        \E id \in [acts -> GrantIds] : CreateIdempotentBatch(r, acts, p, id)
                    \/ UpdateGrant(r) \/ DeleteGrant(r) \/ DropBucket(r)
<1>1. CASE Tick
  BY <1>1 DEF Tick, db
<1>2. ASSUME NEW r \in Requests, Step(r)
      PROVE  /\ \/ UNCHANGED owner
                \/ UpdateOwner(r) \/ InsertBucket(r) \/ DropBucket(r)
             /\ \/ UNCHANGED grants
                \/ \E u \in Users : DeleteKey(r, u)
                \/ \E acts \in Batches, p \in Prefixes :
                    \E id \in [acts -> GrantIds] : CreateIdempotentBatch(r, acts, p, id)
                \/ UpdateGrant(r) \/ DeleteGrant(r) \/ DropBucket(r)
  <2>1. CASE \/ StartSetup(r)
             \/ \E u \in Users : CreateFirstUser(r, u)
             \/ CreateFirstUserRefused(r)
             \/ \E c \in Sent : Authenticate(r, c)
             \/ Refuse(r)
             \/ \E u \in Users, role \in Roles : CreateKey(r, u, role)
             \/ \E u \in Users, ask \in KeyPatches : LoadKey(r, u, ask)
             \/ UpdateKey(r)
    BY <2>1, ZenonT(60) DEF db, StartSetup, CreateFirstUser, CreateFirstUserRefused,
                            Authenticate, Refuse,
                CreateKey, LoadKey, UpdateKey
  <2>2. CASE \/ \E b \in Buckets, k \in Keys : StartLink(r, b, k)
             \/ LinkCreator(r)
             \/ \E c \in Codes, ttl \in TTLs : InsertLink(r, c, ttl)
             \/ \E c \in Codes : DeleteShareLink(r, c)
             \/ \E op \in GrantRoutes, b \in Buckets : LoadBucketForGrantAdmin(r, op, b)
             \/ \E u \in Users : ResolveGrantee(r, u)
             \/ \E g \in GrantIds, patch \in GrantPatches : LoadGrantOnBucket(r, g, patch)
             \/ \E u \in Users : LoadNewOwner(r, u)
    BY <2>2, ZenonT(60) DEF db, StartLink, LinkCreator, InsertLink, DeleteShareLink,
                LoadBucketForGrantAdmin, ResolveGrantee, LoadGrantOnBucket, LoadNewOwner
  <2>3. CASE \/ Evict(r)
             \/ \E b \in Buckets : StartBucket(r, b)
             \/ \E op \in {"object", "deleteObjects", "deleteBucket"}, b \in Buckets,
                  a \in Actions \cup {"DeleteBucket"}, k \in Keys \cup {None} :
                    LoadBucket(r, op, b, a, k)
             \/ Relationship(r) \/ Authorize(r) \/ \E k \in Keys : NextKey(r, k)
             \/ Served(r) \/ \E b \in Buckets : StartForce(r, b)
             \/ \E c \in Codes : StartLinkRead(r, c)
             \/ LinkUser(r) \/ LinkBucket(r)
    BY <2>3 DEF db, Evict, StartBucket, LoadBucket, Relationship, Authorize, NextKey, Served,
                StartForce, StartLinkRead, LinkUser, LinkBucket
  <2>4. CASE \/ \E u \in Users : DeleteKey(r, u)
             \/ \E acts \in Batches, p \in Prefixes :
                 \E id \in [acts -> GrantIds] : CreateIdempotentBatch(r, acts, p, id)
             \/ UpdateGrant(r) \/ DeleteGrant(r)
    BY <2>4 DEF DeleteKey, CreateIdempotentBatch, UpdateGrant, DeleteGrant
  <2>5. CASE UpdateOwner(r) \/ InsertBucket(r)
    BY <2>5 DEF UpdateOwner, InsertBucket
  <2> QED BY <1>2, <2>1, <2>2, <2>3, <2>4, <2>5 DEF Step
<1> QED BY <1>1, <1>2 DEF Next

\* A bucket changes hands only at the wish of an administrator or of its owner
\* of that moment (UpdateOwner's compare and swap), though the owner the
\* request was admitted by came from a cache.
THEOREM TransferByOwnerHolds == Spec => TransferByOwner
<1> DEFINE A == \A b \in Buckets :
        owner[b] # None /\ owner'[b] # None /\ owner'[b] # owner[b] =>
            \E r \in Requests : /\ req[r].pc = "updateOwner"
                                /\ req[r].bucket = b
                                /\ req[r].role = "admin" \/ req[r].who = owner[b]
<1>1. AInv /\ [Next]_vars => [A]_vars
  <2> SUFFICES ASSUME AInv, Next, NEW b \in Buckets,
                      owner[b] # None, owner'[b] # None, owner'[b] # owner[b]
               PROVE  \E r \in Requests : /\ req[r].pc = "updateOwner"
                                          /\ req[r].bucket = b
                                          /\ req[r].role = "admin" \/ req[r].who = owner[b]
    OBVIOUS
  <2>1. PICK r \in Requests : UpdateOwner(r) \/ InsertBucket(r) \/ DropBucket(r)
    BY Writers
  <2>2. owner \in [Buckets -> Users \cup {None}]
    BY DEF AInv, TypeOK
  <2>3. CASE UpdateOwner(r)
    <3>1. /\ req[r].pc = "updateOwner" /\ owner[req[r].bucket] = req[r].owner
          /\ owner' = [owner EXCEPT ![req[r].bucket] = req[r].user]
      BY <2>3 DEF UpdateOwner
    <3>2. req[r].role = "admin" \/ req[r].owner = req[r].who
      BY <3>1 DEF AInv, RequestsOK, AuthorityOK, GrantAdminPCs
    <3>3. req[r].bucket = b
      BY <2>2, <3>1
    <3> QED BY <3>1, <3>2, <3>3
  <2>4. CASE InsertBucket(r)
    BY <2>2, <2>4 DEF InsertBucket
  <2>5. CASE DropBucket(r)
    BY <2>2, <2>5 DEF DropBucket, DeleteBucketRow
  <2> QED BY <2>1, <2>3, <2>4, <2>5
<1> QED BY <1>1, AccessInvariant, PTL DEF Spec, TransferByOwner

\* Apart from cascades a grant is created, changed or removed only by a request
\* on the grant's own bucket (loadGrantOnBucket), of an administrator or of a
\* user whom that bucket's row, or a cached copy of it, has named as its owner
\* since the request began (loadBucketForGrantAdmin).
THEOREM GrantWritesInBucketHolds == Spec => GrantWritesInBucket
<1> DEFINE A == \A g \in GrantIds : grants'[g] # grants[g] =>
                    \/ Cascades(g)
                    \/ \E r \in Requests :
                        /\ WritesGrant(r)
                        /\ req[r].bucket = WrittenIn(g)
                        /\ req[r].role = "admin" \/ WrittenIn(g) \in held[r].owned
<1>1. AInv /\ [Next]_vars => [A]_vars
  <2> SUFFICES ASSUME AInv, Next, NEW g \in GrantIds, grants'[g] # grants[g]
               PROVE  \/ Cascades(g)
                      \/ \E r \in Requests :
                          /\ WritesGrant(r)
                          /\ req[r].bucket = WrittenIn(g)
                          /\ req[r].role = "admin" \/ WrittenIn(g) \in held[r].owned
    OBVIOUS
  <2>1. PICK r \in Requests :
          \/ \E u \in Users : DeleteKey(r, u)
          \/ \E acts \in Batches, p \in Prefixes :
              \E id \in [acts -> GrantIds] : CreateIdempotentBatch(r, acts, p, id)
          \/ UpdateGrant(r) \/ DeleteGrant(r) \/ DropBucket(r)
    BY Writers
  <2>2. TablesOK /\ req \in [Requests -> Request]
    BY DEF AInv, TypeOK, TablesOK
  <2>3. ASSUME req[r].pc \in {"insertGrants", "updateGrant", "deleteGrant"}, Respond(r),
               WrittenIn(g) = req[r].bucket
        PROVE  \E s \in Requests :
                 /\ WritesGrant(s)
                 /\ req[s].bucket = WrittenIn(g)
                 /\ req[s].role = "admin" \/ WrittenIn(g) \in held[s].owned
    <3>1. req'[r].pc = "idle"
      BY <2>2, <2>3 DEF Respond, Go, Idle
    <3>2. req[r].role = "admin" \/ req[r].bucket \in held[r].owned
      BY <2>3 DEF AInv, RequestsOK, AuthorityOK, GrantAdminPCs
    <3>3. WritesGrant(r)
      BY <2>3, <3>1 DEF WritesGrant
    <3> QED BY <2>3, <3>2, <3>3
  <2>4. ASSUME NEW u \in Users, DeleteKey(r, u)
        PROVE  Cascades(g)
    <3>1. grants'[g] = None /\ grants[g].grantee = u /\ users' = [users EXCEPT ![u] = None]
      BY <2>4 DEF DeleteKey, DeleteUserRow
    <3>2. users'[grants[g].grantee] = None
      BY <2>2, <3>1 DEF TablesOK
    <3> QED BY <3>1, <3>2 DEF Cascades
  <2>5. CASE DropBucket(r)
    <3>1. /\ grants'[g] = None /\ grants[g] # None /\ grants[g].bucket = req[r].bucket
          /\ owner' = [owner EXCEPT ![req[r].bucket] = None]
      BY <2>5 DEF DropBucket, DeleteBucketRow
    <3>2. grants[g].bucket \in Buckets
      BY <2>2, <3>1 DEF TablesOK, Grant
    <3>3. owner'[WrittenIn(g)] = None
      BY <2>2, <3>1, <3>2 DEF TablesOK, WrittenIn
    <3> QED BY <3>1, <3>3 DEF Cascades
  <2>6. ASSUME NEW acts \in Batches, NEW p \in Prefixes, NEW id \in [acts -> GrantIds],
               CreateIdempotentBatch(r, acts, p, id)
        PROVE  req[r].pc = "insertGrants" /\ Respond(r) /\ WrittenIn(g) = req[r].bucket
    <3> DEFINE fresh == {a \in acts : ActiveAs(NewGrant(r, a, p)) = {}}
    <3>1. /\ req[r].pc = "insertGrants" /\ Respond(r)
          /\ \A a \in fresh : id[a] \notin issued
          /\ grants' = [h \in GrantIds |-> IF \E a \in fresh : id[a] = h
                                THEN NewGrant(r, CHOOSE a \in fresh : id[a] = h, p)
                                ELSE grants[h]]
      BY <2>6 DEF CreateIdempotentBatch
    <3> HIDE DEF fresh
    <3>2. \E a \in fresh : id[a] = g
      BY <3>1
    <3>3. grants[g] = None
      BY <3>1, <3>2 DEF AInv, IssuedOK
    <3>4. grants'[g].bucket = req[r].bucket
      BY <3>1, <3>2, SMTT(30) DEF NewGrant
    <3> QED BY <3>1, <3>3, <3>4 DEF WrittenIn
  <2>7. CASE UpdateGrant(r)
    <3>1. /\ req[r].pc = "updateGrant" /\ Respond(r) /\ grants[req[r].id] # None
          /\ grants' = [grants EXCEPT ![req[r].id].prefix = req[r].row.prefix,
                                      ![req[r].id].active = req[r].row.active]
      BY <2>7 DEF UpdateGrant
    <3>2. g = req[r].id
      BY <2>2, <3>1 DEF TablesOK
    <3>3. grants[req[r].id].bucket = req[r].bucket
      BY <3>1 DEF AInv, RequestsOK, GrantRowOK
    <3>4. WrittenIn(g) = req[r].bucket
      BY <3>1, <3>2, <3>3 DEF WrittenIn
    <3> QED BY <2>3, <3>1, <3>4
  <2>8. CASE DeleteGrant(r)
    <3>1. /\ req[r].pc = "deleteGrant" /\ Respond(r) /\ grants[req[r].id] # None
          /\ grants' = [grants EXCEPT ![req[r].id] = None]
      BY <2>8 DEF DeleteGrant
    <3>2. g = req[r].id
      BY <2>2, <3>1 DEF TablesOK
    <3>3. grants[req[r].id].bucket = req[r].bucket
      BY <3>1 DEF AInv, RequestsOK, GrantRowOK
    <3>4. WrittenIn(g) = req[r].bucket
      BY <3>1, <3>2, <3>3 DEF WrittenIn
    <3> QED BY <2>3, <3>1, <3>4
  <2> QED BY <2>1, <2>3, <2>4, <2>5, <2>6, <2>7, <2>8
<1> QED BY <1>1, AccessInvariant, PTL DEF Spec, GrantWritesInBucket

=============================================================================
