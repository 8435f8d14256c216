---------------------------- MODULE MCPreflight ----------------------------
(* A small instance of Preflight for TLC. *)
EXTENDS MCMigrationTool, Preflight

(* The sale is there and its user is not, both are there, or only the user is. *)
MCLegacyOrphan ==
    {TableMin(Absent, "a"), TableMin("a", "a"), TableMin("a", Absent)}
=============================================================================
