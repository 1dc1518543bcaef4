-------------------------- MODULE MigrationsProofs --------------------------
(***************************************************************************)
(* Proofs about Migrations, for any number of servers and of failures.     *)
(* The argument: versions are recorded without gaps, each together with    *)
(* what it makes, and a server has passed a version only once that version *)
(* is recorded, by itself or by another server.                            *)
(***************************************************************************)
EXTENDS Migrations, TLAPS

\* No version is recorded before the ones it builds on.
NoGaps == \A v \in recorded : \A w \in Versions : w <= v => w \in recorded

\* A recorded version has left what it makes; what only the first migration
\* of today makes is left to the versions 4 to 7.
Built ==
    /\ \A v \in recorded : v > 1 => Makes(v) \subseteq schema
    /\ 1 \in recorded => "tables" \in schema

\* A server has passed recorded versions only.
PassedRecorded ==
    \A p \in Servers :
        /\ server[p].pc \in {"run", "open"} =>
              \A v \in Versions : v < server[p].next => v \in recorded
        /\ server[p].pc = "open" => server[p].next > LastVersion

MigrateInv == MigrateTypeOK /\ NoGaps /\ Built /\ PassedRecorded

-----------------------------------------------------------------------------

LEMMA MakesSchema == \A v \in Versions : Makes(v) \subseteq Schema
BY DEF Schema

LEMMA MigrateInitInv == MigrateInit => MigrateInv
<1>. SUFFICES ASSUME MigrateInit PROVE MigrateInv
  OBVIOUS
<1>1. server = [p \in Servers |-> Down] /\ failures = 0
  BY DEF MigrateInit
<1>2. PassedRecorded /\ server \in [Servers -> Server] /\ failures \in 0..MaxFailures
  BY <1>1, MigrationsAssumption DEF PassedRecorded, Server, Down, LastVersion
<1>3. CASE schema \in {{}, Makes(1)} /\ recorded = {} /\ tracked = FALSE
  <2>1. schema \subseteq Schema
    BY <1>3, MakesSchema DEF Versions
  <2>2. MigrateTypeOK
    BY <1>2, <1>3, <2>1 DEF MigrateTypeOK
  <2>. QED
    BY <1>2, <1>3, <2>2 DEF MigrateInv, NoGaps, Built
<1>4. CASE (\E k \in Versions, old \in BOOLEAN : schema = LeftBy(k, old) /\ recorded = 1..k) /\ tracked = TRUE
  <2>1. PICK k \in Versions, old \in BOOLEAN : schema = LeftBy(k, old) /\ recorded = 1..k
    BY <1>4
  <2>2. k \in 1..12
    BY DEF Versions
  <2>3. 1..k \subseteq Versions
    BY <2>2 DEF Versions
  <2>4. schema \subseteq Schema
    <3>. SUFFICES ASSUME NEW x \in schema PROVE x \in Schema
      OBVIOUS
    <3>1. PICK v \in 1..k : x \in (IF v = 1 /\ old THEN {"tables"} ELSE Makes(v))
      BY <2>1 DEF LeftBy
    <3>2. "tables" \in Makes(1)
      BY DEF Makes
    <3>. QED
      BY <3>1, <3>2, <2>3, MakesSchema
  <2>5. MigrateTypeOK
    BY <1>2, <1>4, <2>1, <2>3, <2>4 DEF MigrateTypeOK
  <2>6. NoGaps
    BY <2>1, <2>2 DEF NoGaps, Versions
  <2>7. Built
    <3>1. \A v \in recorded : v > 1 => Makes(v) \subseteq schema
      BY <2>1, <2>2 DEF LeftBy
    <3>2. "tables" \in Makes(1)
      BY DEF Makes
    <3>3. "tables" \in schema
      BY <2>1, <2>2, <3>2 DEF LeftBy
    <3>. QED
      BY <3>1, <3>3 DEF Built
  <2>. QED
    BY <1>2, <2>5, <2>6, <2>7 DEF MigrateInv
<1>. QED
  BY <1>3, <1>4 DEF MigrateInit

\* Steps that change no version and no schema, and move p on.
LEMMA MoveServerInv ==
    ASSUME MigrateInv, NEW p \in Servers, NEW s \in Server,
           server' = [server EXCEPT ![p] = s],
           UNCHANGED <<schema, recorded>>,
           tracked' \in BOOLEAN, failures' \in 0..MaxFailures,
           s.pc \in {"run", "open"} => \A v \in Versions : v < s.next => v \in recorded,
           s.pc = "open" => s.next > LastVersion
    PROVE  MigrateInv'
<1>1. MigrateTypeOK
  BY DEF MigrateInv
<1>2. MigrateTypeOK'
  BY <1>1 DEF MigrateTypeOK
<1>3. \A q \in Servers : server'[q] = IF q = p THEN s ELSE server[q]
  BY <1>1 DEF MigrateTypeOK
<1>4. PassedRecorded'
  BY <1>3 DEF MigrateInv, PassedRecorded
<1>. QED
  BY <1>2, <1>4 DEF MigrateInv, NoGaps, Built

\* A migration that commits: everything before it is recorded already.
LEMMA CommitInv ==
    ASSUME MigrateInv, NEW p \in Servers, NEW v, v = server[p].next,
           server[p].pc = "run", v <= LastVersion, Execs(v), v \notin recorded,
           schema' = schema \cup Makes(v),
           recorded' = recorded \cup {v},
           server' = [server EXCEPT ![p].next = v + 1],
           UNCHANGED <<tracked, failures>>
    PROVE  MigrateInv'
<1>1. MigrateTypeOK /\ server[p] \in Server
  BY DEF MigrateInv, MigrateTypeOK
<1>2. v \in Versions /\ v \in Nat /\ v + 1 \in 1..(LastVersion + 1)
  BY <1>1 DEF Server, Versions, LastVersion
<1>3. Makes(v) \subseteq Schema
  BY <1>2, MakesSchema
<1>4. [server[p] EXCEPT !.next = v + 1] \in Server
  BY <1>1, <1>2 DEF Server
<1>5. MigrateTypeOK'
  BY <1>1, <1>2, <1>3, <1>4 DEF MigrateTypeOK
<1>6. \A w \in Versions : w < v => w \in recorded
  BY DEF MigrateInv, PassedRecorded
<1>7. NoGaps'
  BY <1>2, <1>6 DEF MigrateInv, NoGaps, Versions
<1>8. Built'
  <2>1. "tables" \in Makes(1)
    BY DEF Makes
  <2>. QED
    BY <1>2, <2>1 DEF MigrateInv, Built
<1>9. PassedRecorded'
  <2>1. \A q \in Servers : server'[q] = IF q = p THEN [server[p] EXCEPT !.next = v + 1] ELSE server[q]
    BY <1>1 DEF MigrateTypeOK
  <2>2. server'[p].pc = "run" /\ server'[p].next = v + 1
    BY <1>1, <2>1 DEF Server
  <2>3. \A w \in Versions : w < v + 1 => w \in recorded'
    BY <1>2, <1>6 DEF Versions
  <2>. QED
    BY <2>1, <2>2, <2>3 DEF MigrateInv, PassedRecorded
<1>. QED
  BY <1>5, <1>7, <1>8, <1>9 DEF MigrateInv

LEMMA MigrateStepInv ==
    ASSUME MigrateInv, NEW p \in Servers, OpenStep(p) \/ ServerFails(p)
    PROVE  MigrateInv'
<1>1. /\ MigrateTypeOK
      /\ server[p] \in Server
      /\ server = [server EXCEPT ![p] = server[p]]
  BY DEF MigrateInv, MigrateTypeOK
<1>2. Down \in Server /\ Down.pc = "down"
  BY DEF Down, Server, LastVersion
<1>3. CASE StartServer(p)
  <2>. DEFINE s == [server[p] EXCEPT !.pc = "ensure"]
  <2>1. s \in Server /\ s.pc = "ensure" /\ server' = [server EXCEPT ![p] = s]
    BY <1>1, <1>3 DEF StartServer, Server, MigrateTypeOK
  <2>. HIDE DEF s
  <2>. QED
    BY <2>1, <1>1, <1>3, MoveServerInv DEF StartServer, MigrateTypeOK
<1>4. CASE EnsureMigrationsTable(p)
  <2>. DEFINE s == [server[p] EXCEPT !.pc = "read"]
  <2>1. s \in Server /\ s.pc = "read" /\ server' = [server EXCEPT ![p] = s]
    BY <1>1, <1>4 DEF EnsureMigrationsTable, Server, MigrateTypeOK
  <2>. HIDE DEF s
  <2>. QED
    BY <2>1, <1>1, <1>4, MoveServerInv DEF EnsureMigrationsTable, MigrateTypeOK
<1>5. CASE GetAppliedVersion(p)
  <2>1. PICK a \in recorded \cup {0} :
            /\ \A v \in recorded : v <= a
            /\ server' = [server EXCEPT ![p] = [pc |-> "run", applied |-> a, next |-> a + 1]]
    BY <1>5 DEF GetAppliedVersion
  <2>. DEFINE s == [pc |-> "run", applied |-> a, next |-> a + 1]
  <2>2. a \in 0..LastVersion
    BY <1>1 DEF MigrateTypeOK, Versions, LastVersion
  <2>3. s \in Server /\ s.pc = "run" /\ s.next = a + 1
    BY <2>2 DEF Server, LastVersion
  <2>4. \A v \in Versions : v < s.next => v \in recorded
    BY <2>2, <2>3 DEF MigrateInv, NoGaps, Versions
  <2>. HIDE DEF s
  <2>5. server' = [server EXCEPT ![p] = s]
    BY <2>1 DEF s
  <2>. QED
    BY <2>3, <2>4, <2>5, <1>1, <1>5, MoveServerInv DEF GetAppliedVersion, MigrateTypeOK
<1>6. CASE RunMigration(p)
  <2>1. CASE Execs(server[p].next) /\ server[p].next \notin recorded
    BY <1>6, <2>1, CommitInv DEF RunMigration
  <2>2. CASE ~(Execs(server[p].next) /\ server[p].next \notin recorded)
    BY <1>1, <1>2, <1>6, <2>2, MoveServerInv DEF RunMigration, MigrateTypeOK
  <2>. QED
    BY <2>1, <2>2
<1>7. CASE OpenReturns(p)
  <2>. DEFINE s == [server[p] EXCEPT !.pc = "open"]
  <2>1. s \in Server /\ s.next = server[p].next /\ server' = [server EXCEPT ![p] = s]
    BY <1>1, <1>7 DEF OpenReturns, Server, MigrateTypeOK
  <2>2. \A v \in Versions : v < s.next => v \in recorded
    BY <1>7, <2>1 DEF OpenReturns, MigrateInv, PassedRecorded
  <2>. HIDE DEF s
  <2>. QED
    BY <2>1, <2>2, <1>1, <1>7, MoveServerInv DEF OpenReturns, MigrateTypeOK
<1>8. CASE ServerFails(p)
  <2>1. failures' \in 0..MaxFailures
    BY <1>1, <1>8, MigrationsAssumption DEF ServerFails, MigrateTypeOK
  <2>. QED
    BY <2>1, <1>1, <1>2, <1>8, MoveServerInv DEF ServerFails, MigrateTypeOK
<1>. QED
  BY <1>3, <1>4, <1>5, <1>6, <1>7, <1>8 DEF OpenStep

\* Once every version is recorded, the schema is complete.
LEMMA MigrateInvImplies == MigrateInv => OpenMeansMigrated
<1>. SUFFICES ASSUME MigrateInv, NEW p \in Servers, server[p].pc = "open"
             PROVE  schema = Schema /\ recorded = Versions
  BY DEF OpenMeansMigrated
<1>1. recorded = Versions
  <2>1. server[p] \in Server /\ recorded \subseteq Versions
    BY DEF MigrateInv, MigrateTypeOK
  <2>2. server[p].next = 13
    BY <2>1 DEF MigrateInv, PassedRecorded, Server, LastVersion
  <2>3. \A v \in Versions : v < 13 => v \in recorded
    BY <2>2 DEF MigrateInv, PassedRecorded
  <2>4. \A v \in Versions : v < 13
    BY DEF Versions
  <2>. QED
    BY <2>1, <2>3, <2>4
<1>2. ASSUME NEW v \in Versions PROVE Makes(v) \subseteq schema
  <2>1. \A w \in 2..12 : Makes(w) \subseteq schema
    BY <1>1 DEF MigrateInv, Built, Versions
  <2>2. CASE v = 1
    <3>1. "tables" \in schema
      BY <1>1 DEF MigrateInv, Built, Versions
    <3>2. Makes(4) \cup Makes(5) \cup Makes(6) \cup Makes(7) \subseteq schema
      BY <2>1
    <3>3. UploadColumns \subseteq Makes(4) \cup Makes(5) \cup Makes(6) \cup Makes(7)
      BY DEF Makes, UploadColumns
    <3>4. Makes(1) = {"tables"} \cup UploadColumns
      BY DEF Makes
    <3>. QED
      BY <2>2, <3>1, <3>2, <3>3, <3>4
  <2>3. CASE v # 1
    BY <2>1, <2>3 DEF Versions
  <2>. QED
    BY <2>2, <2>3
<1>3. Schema \subseteq schema
  BY <1>2 DEF Schema
<1>. QED
  BY <1>1, <1>3 DEF MigrateInv, MigrateTypeOK

-----------------------------------------------------------------------------

\* runMigrations keeps the inductive invariant through every interleaving of
\* servers, failures and restarts.
THEOREM MigrateInvariance == MigrateSpec => []MigrateInv
<1>1. ASSUME MigrateInv, [MigrateNext]_migrateVars PROVE MigrateInv'
  <2>1. CASE MigrateNext
    BY <1>1, <2>1, MigrateStepInv DEF MigrateNext
  <2>2. CASE UNCHANGED migrateVars
    BY <1>1, <2>2 DEF MigrateInv, MigrateTypeOK, NoGaps, Built, PassedRecorded, migrateVars
  <2>. QED
    BY <1>1, <2>1, <2>2
<1>. QED
  BY <1>1, MigrateInitInv, PTL DEF MigrateSpec

\* metadata.Open returns only on a complete schema, with every version
\* recorded.
THEOREM OpenIsMigrated == MigrateSpec => []OpenMeansMigrated
BY MigrateInvariance, MigrateInvImplies, PTL

=============================================================================
