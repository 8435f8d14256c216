-------------------------- MODULE MCMigrationTool --------------------------
(* Small instances of MigrationTool for TLC. *)
EXTENDS MigrationTool, TLC

(* Two users and one sale of the second user. *)
MCUsers == {1, 2}
MCSales == {11}
MCUserOf == [s \in MCSales |-> 2]

(* Row contents: "a" and "b" differ in some compared field. *)
MCValues == {"a", "b"}

Table(u1, u2, s1) == [k \in {1, 2, 11} |-> CASE k = 1 -> u1 [] k = 2 -> u2 [] k = 11 -> s1]

(* The legacy database is full; the services are empty or hold one user
   already, the same as in the legacy database or a different one. *)
MCLegacy == {Table("a", "a", "a")}
MCServices == {Table(Absent, Absent, Absent), Table("a", Absent, Absent),
               Table(Absent, "b", Absent)}

(* Services that hold a user already, the same or a different one. *)
MCServicesOccupied == {Table("a", Absent, Absent), Table(Absent, "b", Absent)}

(* Services without a row that conflicts with the legacy database. *)
MCServicesAgree == {Table(Absent, Absent, Absent), Table("a", Absent, Absent)}

(* One user with one sale, for two processes. *)
MCUsersMin == {1}
MCUserOfMin == [s \in MCSales |-> 1]
TableMin(u1, s1) == [k \in {1, 11} |-> CASE k = 1 -> u1 [] k = 11 -> s1]
MCLegacyMin == {TableMin("a", "a")}
MCServicesMin == {TableMin(Absent, Absent), TableMin("a", Absent)}
MCServicesOne == {TableMin("a", Absent)}
MCServicesEmpty == {TableMin(Absent, Absent)}
(* The sale, or both rows, are still to be inserted in the legacy database. *)
MCLegacyGrowing == {TableMin("a", Absent), TableMin(Absent, Absent)}
(* The user is there with other contents. *)
MCServicesLive == {TableMin(Absent, Absent), TableMin("b", Absent)}

(* Run ids are interchangeable, and so are processes. *)
RunSymmetry == Permutations(Runs)
ProcSymmetry == Permutations(Procs)
=============================================================================
