----------------------------- MODULE Operations -----------------------------
(***************************************************************************)
(* What an operator does to a server: starting and stopping it             *)
(* (Lifecycle), and migrating the database of its install (Migrations).    *)
(* They share no state of these models; start() waits for the migration as *)
(* the step StartMigrates of Lifecycle.                                    *)
(***************************************************************************)
EXTENDS Lifecycle, Migrations

OperationsSpec == LifecycleSpec /\ MigrationsSpec

\* An operator stops, starts and migrates the server (server.ts,
\* workers/bootstrap.ts, db/index.ts) without harm to what it holds.
OperationsHold == StopsCleanly /\ InstallsAreApart
=============================================================================
