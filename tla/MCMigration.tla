---------------------------- MODULE MCMigration ----------------------------
(* A project with two durable files. *)
EXTENDS Migration

MCFiles == {"release", "events"}

=============================================================================
