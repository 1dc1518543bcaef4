---------------------------- MODULE MCComponents ----------------------------
(***************************************************************************)
(* The components that share no state with the others, in one state space: *)
(* each behaviour is one of a single component, and the variables of the   *)
(* rest stay where they are.  Authentication and the part list of a        *)
(* completion are functions: their states are their arguments.             *)
(***************************************************************************)
EXTENDS UploadLocks, WriteTimeout, Migrations, Listing, CompletedParts, Credentials

CONSTANT u1     \* a user

\* A part can be too small.
ASSUME ComponentsAssumption == u1 \in Users /\ MinPartSize > 0

VARIABLES
    component,      \* whose behaviour it is
    attempt,        \* an authentication: credentials, account, time
    completion      \* a completion: its list of parts, and the stored ones

functionVars == <<attempt, completion>>

vars == <<component, lockVars, sendVars, migrateVars, listVars, functionVars>>

Components == {"locks", "send", "migrate", "list", "authenticate", "complete"}

\* Keys over '-' < '/' < 'a', with the characters' order as numbers: a group
\* "a/", and keys on both sides of it.
MCObjectRows == {<<3>>, <<3, 1>>, <<3, 2>>, <<3, 2, 1>>, <<3, 2, 3>>, <<3, 3>>}
MCUploadRows == {<<1, 1>>, <<1, 2>>, <<1, 3>>, <<2, 1>>}
MCPartRows == {<<1>>, <<2>>, <<3>>}
MCListPrefixes == {<<>>, <<3>>}

\* Requests signed at time 2, and the accounts they may meet.
Attempts ==
    [credential : [scheme : Schemes, wellFormed : BOOLEAN, user : Users, genuine : BOOLEAN,
                   dated : BOOLEAN, at : {2}, expires : 0..(MaxAge + 1)],
     row : {None} \cup [active : BOOLEAN],
     now : 0..(MaxAge + 4),
     fails : BOOLEAN]

AnAttempt ==
    [credential |-> [scheme |-> "none", wellFormed |-> TRUE, user |-> u1, genuine |-> TRUE,
                     dated |-> TRUE, at |-> 2, expires |-> 1],
     row |-> None, now |-> 0, fails |-> FALSE]

\* Lists of up to three entries against every state of the stored parts.
Completions ==
    [list : UNION {[1..n -> CompletePart] : n \in 0..3},
     stored : [PartNumbers -> {NotStored} \cup [etag : PartETags, size : {MinPartSize - 1, MinPartSize}]]]

ACompletion == [list |-> <<>>, stored |-> [n \in PartNumbers |-> NotStored]]

-----------------------------------------------------------------------------
\* A component that is not the one of this behaviour.
LocksRest == LockInit /\ caller \in [Callers -> {[pc |-> "out", upload |-> 1, lock |-> NoLock]}]

MigrateRest == schema = {} /\ recorded = {} /\ MigrateInit

ListRest ==
    /\ query = [api |-> "parts", prefix |-> <<>>, delimited |-> FALSE, limit |-> 1]
    /\ rows = {}
    /\ ListInit

Init ==
    /\ component \in Components
    /\ IF component = "locks" THEN LockInit ELSE LocksRest
    /\ SendInit
    /\ IF component = "migrate" THEN MigrateInit ELSE MigrateRest
    /\ IF component = "list" THEN ListInit ELSE ListRest
    /\ attempt \in IF component = "authenticate" THEN Attempts ELSE {AnAttempt}
    /\ completion \in IF component = "complete" THEN Completions ELSE {ACompletion}

FunctionsRest == UNCHANGED <<component, functionVars>>

Locking ==
    /\ component = "locks"
    /\ LockNext
    /\ UNCHANGED <<sendVars, migrateVars, listVars>>
    /\ FunctionsRest

Sending ==
    /\ component = "send"
    /\ SendNext
    /\ UNCHANGED <<lockVars, migrateVars, listVars>>
    /\ FunctionsRest

Migrating ==
    /\ component = "migrate"
    /\ MigrateNext
    /\ UNCHANGED <<lockVars, sendVars, listVars>>
    /\ FunctionsRest

Paging ==
    /\ component = "list"
    /\ ListNext
    /\ UNCHANGED <<lockVars, sendVars, migrateVars>>
    /\ FunctionsRest

Next == Locking \/ Sending \/ Migrating \/ Paging

\* Each attempt to send returns by its deadline; servers are started again.
Fairness ==
    /\ LockFairness
    /\ WF_sendVars(Send)
    /\ \A p \in Servers : WF_migrateVars(component = "migrate" /\ OpenStep(p))

Spec == Init /\ [][Next]_vars /\ Fairness

-----------------------------------------------------------------------------
\* Every component's variables have their types.
TypeOK == LockTypeOK /\ SendTypeOK /\ MigrateTypeOK /\ ListTypeOK

\* BearerAuthenticator, SigV4Authenticator and ChainAuthenticator together
\* admit exactly the requests with current credentials of an active account,
\* for every instant around the bounds of the clock skew, of the requested
\* lifetime and of the seven days.
AuthenticationIsExact ==
    AuthenticatesExactly(attempt.credential, attempt.row, attempt.now, attempt.fails)

\* normalizeCompletedParts and matchStoredParts accept exactly the lists that
\* name stored parts in order, and make the object of the parts named last.
CompletionIsExact == CompletesExactly(completion.list, completion.stored)

=============================================================================
