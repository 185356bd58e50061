------------------------------ MODULE Migrations ------------------------------
(***************************************************************************)
(* Applying the packaged migrations: several installs in schemas of one    *)
(* database, several processes of an install migrating as they start, and  *)
(* packages of different ages in a rolling upgrade.                        *)
(*                                                                         *)
(* drizzle (external) reads the last entry of a journal table, and then    *)
(* applies what is newer in one transaction.  notifkit decides where that  *)
(* journal is, rewrites the migrations for a schema other than public, and *)
(* checks afterwards that its tables are there.                            *)
(***************************************************************************)
EXTENDS Naturals, FiniteSets

CONSTANTS
    Schemas,      \* the schemas notifkit is installed in; "public" may be one
    Migrators,    \* processes that migrate
    Steps,        \* the migrations written so far, in order
    BuildsOn,     \* each one's earlier migrations whose objects it alters
    Creating,     \* those that create tables; the others add columns, values or indexes
    Repeatable,   \* those that tolerate that what they make is there: IF NOT EXISTS
    OddOnes,      \* those that name the public schema in a way that is not rewritten
    MaxMigrations \* bound: runs of the migrations

ASSUME MigrationBounds ==
    /\ Steps \in Nat \ {0} /\ MaxMigrations \in Nat
    /\ OddOnes \subseteq 1..Steps /\ Creating \subseteq 1..Steps /\ Repeatable \subseteq 1..Steps
    /\ \A i \in 1..Steps : BuildsOn[i] \subseteq 1..i - 1

VARIABLES
    journalOption,  \* each install's migrationsSchema option
    applied,        \* each schema's migrations that were applied to it
    journal,        \* each journal's last entry
    migrator,       \* each process: its install, its package, its phase, what it read
    migrations,     \* runs so far
    strayed         \* history: objects were put into a schema other than the install's

migrationsVars == <<journalOption, applied, journal, migrator, migrations, strayed>>

Journals == Schemas \cup {"drizzle"}
NotMigrating == [schema |-> "none", ships |-> 0, phase |-> "idle", last |-> 0]

(* Two installs in different schemas never share a journal by default. *)
JournalOf(s) ==
    CASE journalOption[s] # "default" -> journalOption[s]
      [] s = "public" -> "drizzle"
      [] OTHER -> s

MigrationsInit ==
    /\ journalOption \in [Schemas -> {"default", "drizzle"}]
    /\ applied = [s \in Schemas |-> {}]
    /\ journal = [j \in Journals |-> 0]
    /\ migrator = [m \in Migrators |-> NotMigrating]
    /\ migrations = 0
    /\ strayed = FALSE

Phased(m, phase) == migrator' = [migrator EXCEPT ![m].phase = phase]

(* runMigrations: a process that ships the first n migrations begins. *)
BeginMigrating(m, s, n) ==
    /\ migrator[m].phase \in {"idle", "migrated", "failed", "missing"}
    /\ migrations < MaxMigrations
    /\ migrations' = migrations + 1
    /\ migrator' = [migrator EXCEPT ![m] = [schema |-> s, ships |-> n, phase |-> "retarget", last |-> 0]]
    /\ UNCHANGED <<journalOption, applied, journal, strayed>>

(* qualifyMigrationSql throws on a migration it could not move. *)
Rewritable(m) == OddOnes \cap 1..migrator[m].ships = {}

(* CREATE SCHEMA, then the rewritten copies; nothing of this for public. *)
Retarget(m) ==
    /\ migrator[m].phase = "retarget"
    /\ Phased(m, IF migrator[m].schema = "public" \/ Rewritable(m) THEN "read" ELSE "failed")
    /\ UNCHANGED <<journalOption, applied, journal, migrations, strayed>>

(* drizzle looks up the last entry, outside the transaction. *)
ReadJournal(m) ==
    /\ migrator[m].phase = "read"
    /\ migrator' = [migrator EXCEPT ![m].phase = "apply",
                                    ![m].last = journal[JournalOf(migrator[m].schema)]]
    /\ UNCHANGED <<journalOption, applied, journal, migrations, strayed>>

Newer(m) == migrator[m].last + 1 .. migrator[m].ships

(* Each newer migration finds what it builds on, and does not make again what *)
(* it cannot make twice.                                                      *)
Applicable(m) ==
    LET there == applied[migrator[m].schema]
    IN  \A i \in Newer(m) :
           /\ BuildsOn[i] \subseteq there \cup {j \in Newer(m) : j < i}
           /\ i \in there => i \in Repeatable

(* One transaction, which fails as a whole.  It adds an entry for each of them *)
(* to the journal; the last entry is the newest.                               *)
ApplyMigrations(m) ==
    LET s == migrator[m].schema
    IN  /\ migrator[m].phase = "apply"
        /\ IF Newer(m) = {}
             THEN Phased(m, "check") /\ UNCHANGED <<applied, journal, strayed>>
           ELSE IF Applicable(m)
             THEN /\ applied' = [applied EXCEPT ![s] = @ \cup Newer(m)]
                  /\ journal' = [journal EXCEPT ![JournalOf(s)] =
                                    IF @ < migrator[m].ships THEN migrator[m].ships ELSE @]
                  /\ strayed' = (strayed \/ (s # "public" /\ Newer(m) \cap OddOnes # {}))
                  /\ Phased(m, "check")
           ELSE Phased(m, "failed") /\ UNCHANGED <<applied, journal, strayed>>
        /\ UNCHANGED <<journalOption, migrations>>

(* assertTablesInSchema, for a schema other than public: the names of the    *)
(* tables are looked for, and nothing else.                                  *)
Missing(m) ==
    /\ migrator[m].schema # "public"
    /\ ~(Creating \cap 1..migrator[m].ships \subseteq applied[migrator[m].schema])

CheckTables(m) ==
    /\ migrator[m].phase = "check"
    /\ Phased(m, IF Missing(m) THEN "missing" ELSE "migrated")
    /\ UNCHANGED <<journalOption, applied, journal, migrations, strayed>>

(* The process dies; a transaction it had open is rolled back. *)
MigratorDies(m) ==
    /\ migrator[m].phase \in {"retarget", "read", "apply", "check"}
    /\ migrator' = [migrator EXCEPT ![m] = NotMigrating]
    /\ UNCHANGED <<journalOption, applied, journal, migrations, strayed>>

MigrationsNext ==
    \E m \in Migrators :
        \/ \E s \in Schemas, n \in 1..Steps : BeginMigrating(m, s, n)
        \/ Retarget(m) \/ ReadJournal(m) \/ ApplyMigrations(m) \/ CheckTables(m)
        \/ MigratorDies(m)

MigrationsSpec == MigrationsInit /\ [][MigrationsNext]_migrationsVars

-----------------------------------------------------------------------------
MigrationsTypeOK ==
    /\ journalOption \in [Schemas -> {"default", "drizzle"}]
    /\ applied \in [Schemas -> SUBSET (1..Steps)]
    /\ journal \in [Journals -> 0..Steps]
    /\ \A m \in Migrators : migrator[m].phase \in
         {"idle", "retarget", "read", "apply", "check", "migrated", "failed", "missing"}

(* Journals are apart without the option, but for one pair: an install in a  *)
(* schema that is named drizzle keeps its journal where public does.         *)
Apart ==
    /\ \A s \in Schemas : journalOption[s] = "default"
    /\ ~({"public", "drizzle"} \subseteq Schemas)

(***************************************************************************)
(* Migrating into a schema of one's own never returns with a table         *)
(* missing, whatever journal it was told to use (src/src/db/index.ts:      *)
(* 189-209).  A migration that creates none may be missing, and nothing    *)
(* says so, when a journal shared with an install in another schema made   *)
(* it a no-op; for public nothing is looked for at all.  With journals of  *)
(* their own no migration is missing, in public neither.                   *)
(***************************************************************************)
TablesAreThere ==
    \A m \in Migrators :
        LET there == applied[migrator[m].schema]
            shipped == 1..migrator[m].ships
        IN  migrator[m].phase = "migrated" =>
                /\ migrator[m].schema # "public" => Creating \cap shipped \subseteq there
                /\ Apart => shipped \subseteq there

(***************************************************************************)
(* Without the option, installs in different schemas keep out of each      *)
(* other's journal: each journal says what its own schema holds, through   *)
(* processes that race, die or ship an older package                       *)
(* (src/src/db/index.ts:79-84, 165-169).                                   *)
(***************************************************************************)
OwnJournal ==
    Apart =>
        /\ \A s \in Schemas : applied[s] = 1..journal[JournalOf(s)]
        /\ \A m \in Migrators : migrator[m].phase # "missing"

(***************************************************************************)
(* No migration puts an object into a schema other than its install's      *)
(* (src/src/db/index.ts:116-128).                                          *)
(***************************************************************************)
NothingStrays == ~strayed

\* Each install has its tables, its journal and nothing of the others.
InstallsAreApart == TablesAreThere /\ OwnJournal /\ NothingStrays
=============================================================================
