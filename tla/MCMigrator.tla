----------------------------- MODULE MCMigrator -----------------------------
(* Two processes that open the file three times each.  The repository has  *)
(* one migration; with two, a process can be overtaken between them.       *)
EXTENDS Migrator

=============================================================================
