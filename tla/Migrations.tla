----------------------------- MODULE Migrations -----------------------------
(***************************************************************************)
(* metadata.Open: a server process brings the schema of its database up to *)
(* date before it does anything else.  Each migration is a transaction     *)
(* that also records its version.  Several processes may start on one      *)
(* database, each of them with the applied version it read at the          *)
(* beginning; a process may crash or fail at any point and is started      *)
(* again.  The schema is the set of the tables, columns, indexes and       *)
(* triggers that migrations make, grouped by the statements that make them.*)
(***************************************************************************)
EXTENDS Integers

CONSTANTS
    Servers,        \* processes that open the database
    MaxFailures     \* bound on crashes and failing statements

ASSUME MigrationsAssumption == MaxFailures \in Nat

Versions == 1..12
LastVersion == 12

\* What the statements of each migration make.  The initial schema has the
\* columns of multipart_uploads, and their triggers, that databases from
\* before got by the migrations 4 to 7.
UploadColumns == {"content_type", "status", "status_updated_at", "status_triggers"}

Makes(v) ==
    CASE v = 1  -> {"tables"} \cup UploadColumns
      [] v = 2  -> {"sigv4"}
      [] v = 3  -> {"activity"}
      [] v = 4  -> {"content_type"}
      [] v = 5  -> {"status"}
      [] v = 6  -> {"status_updated_at"}
      [] v = 7  -> {"status_triggers"}
      [] v = 8  -> {"grants"}
      [] v = 9  -> {"part_checksums"}
      [] v = 10 -> {"object_checksums"}
      [] v = 11 -> {"user_metadata"}
      [] v = 12 -> {"share_links"}

\* Migrations whose statements fail on what is there already; the others say
\* IF NOT EXISTS or go through addColumnIfMissing.
Strict == {2, 3}

Schema == UNION {Makes(v) : v \in Versions}

VARIABLES
    schema,         \* what exists
    recorded,       \* versions in schema_migrations
    tracked,        \* does schema_migrations exist?
    server,         \* each process: pc, the version read, the next migration
    failures        \* crashes and failures so far

migrateVars == <<schema, recorded, tracked, server, failures>>

Server ==
    [pc : {"down", "ensure", "read", "run", "open"},
     applied : 0..LastVersion,
     next : 1..(LastVersion + 1)]

Down == [pc |-> "down", applied |-> 0, next |-> 1]

MigrateTypeOK ==
    /\ schema \subseteq Schema
    /\ recorded \subseteq Versions
    /\ tracked \in BOOLEAN
    /\ server \in [Servers -> Server]
    /\ failures \in 0..MaxFailures

\* What a release with k migrations left, with the first migration of today
\* or of before (old).
LeftBy(k, old) ==
    UNION {IF v = 1 /\ old THEN {"tables"} ELSE Makes(v) : v \in 1..k}

\* A new database, one bootstrapped from the initial schema without
\* schema_migrations, or one of an earlier release.
MigrateInit ==
    /\ \/ /\ schema \in {{}, Makes(1)}
          /\ recorded = {}
          /\ tracked = FALSE
       \/ /\ \E k \in Versions, old \in BOOLEAN : schema = LeftBy(k, old) /\ recorded = 1..k
          /\ tracked = TRUE
    /\ server = [p \in Servers |-> Down]
    /\ failures = 0

StartServer(p) ==
    /\ server[p].pc = "down"
    /\ server' = [server EXCEPT ![p].pc = "ensure"]
    /\ UNCHANGED <<schema, recorded, tracked, failures>>

EnsureMigrationsTable(p) ==
    /\ server[p].pc = "ensure"
    /\ tracked' = TRUE
    /\ server' = [server EXCEPT ![p].pc = "read"]
    /\ UNCHANGED <<schema, recorded, failures>>

\* COALESCE(MAX(version), 0); the loop skips the versions up to it.
GetAppliedVersion(p) ==
    /\ server[p].pc = "read"
    /\ \E applied \in recorded \cup {0} :
        /\ \A v \in recorded : v <= applied
        /\ server' = [server EXCEPT ![p] = [pc |-> "run", applied |-> applied, next |-> applied + 1]]
    /\ UNCHANGED <<schema, recorded, tracked, failures>>

\* Do the statements of migration v succeed?  All but the first work on its
\* tables.
Execs(v) ==
    /\ v \in Strict => Makes(v) \cap schema = {}
    /\ v > 1 => "tables" \in schema

\* Statements and record in one transaction.  Another process that commits
\* meanwhile commits this very version: then the record violates the primary
\* key, and a transaction that had read before cannot write at all.  Either
\* way everything is rolled back and the process exits.
RunMigration(p) ==
    LET v == server[p].next
    IN  /\ server[p].pc = "run"
        /\ v <= LastVersion
        /\ IF Execs(v) /\ v \notin recorded
           THEN /\ schema' = schema \cup Makes(v)
                /\ recorded' = recorded \cup {v}
                /\ server' = [server EXCEPT ![p].next = v + 1]
           ELSE /\ server' = [server EXCEPT ![p] = Down]
                /\ UNCHANGED <<schema, recorded>>
        /\ UNCHANGED <<tracked, failures>>

\* Open returns the database.
OpenReturns(p) ==
    /\ server[p].pc = "run"
    /\ server[p].next > LastVersion
    /\ server' = [server EXCEPT ![p].pc = "open"]
    /\ UNCHANGED <<schema, recorded, tracked, failures>>

\* Mutant: statements outside of the transaction stay when it is rolled back.
ServerFails_KeepsStatements(p) ==
    /\ failures < MaxFailures
    /\ failures' = failures + 1
    /\ server[p].pc # "down"
    /\ server' = [server EXCEPT ![p] = Down]
    /\ schema' = IF server[p].pc = "run" /\ server[p].next <= LastVersion /\ Execs(server[p].next)
                 THEN schema \cup Makes(server[p].next) ELSE schema
    /\ UNCHANGED <<recorded, tracked>>

\* Mutant: a migration that fails is left for another time.
ServerFails_Skips(p) ==
    /\ failures < MaxFailures
    /\ failures' = failures + 1
    /\ server[p].pc = "run"
    /\ server[p].next <= LastVersion
    /\ server' = [server EXCEPT ![p].next = @ + 1]
    /\ UNCHANGED <<schema, recorded, tracked>>

\* A crash, or a statement that fails for its own reasons: an open
\* transaction is rolled back and the process ends.
ServerFails(p) ==
    /\ failures < MaxFailures
    /\ failures' = failures + 1
    /\ server[p].pc # "down"
    /\ server' = [server EXCEPT ![p] = Down]
    /\ UNCHANGED <<schema, recorded, tracked>>

OpenStep(p) ==
    StartServer(p) \/ EnsureMigrationsTable(p) \/ GetAppliedVersion(p) \/ RunMigration(p) \/ OpenReturns(p)

MigrateNext == \E p \in Servers : OpenStep(p) \/ ServerFails(p)

MigrateSpec == MigrateInit /\ [][MigrateNext]_migrateVars

-----------------------------------------------------------------------------
(* Properties                                                              *)

\* A server that has its database has the whole schema, whichever release
\* the database comes from, whoever else was migrating it and wherever they
\* stopped; no version was left out, which a restart would never make up for.
OpenMeansMigrated ==
    \A p \in Servers : server[p].pc = "open" => schema = Schema /\ recorded = Versions

\* Failures do not leave a database that no server can open again, and two
\* servers do not keep each other from it: whoever starts has its database
\* in the end, though it may have to be started again.
ServersOpen == \A p \in Servers : server[p].pc # "down" ~> server[p].pc = "open"

=============================================================================
