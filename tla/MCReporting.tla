---------------------------- MODULE MCReporting ----------------------------
(* Small instances of Reporting for TLC. *)
EXTENDS MCMigrationTool, Reporting

=============================================================================
