SPECIFICATION Spec
CONSTANTS
    Users <- MCUsersMin
    Sales <- MCSales
    UserOf <- MCUserOfMin
    Values <- MCValues
    Absent = Absent
    Runs = {r1}
    NoRun = NoRun
    Procs = {p1}
    NoKey = NoKey
    Rejected = {"b"}
    MaxRetries = 1
    AllowDestructive = TRUE
    InitLegacy <- MCLegacyMin
    InitServices <- MCServicesLive
    Commands = {"snapshot", "resume", "validate", "rollback", "dry"}
    MaxFaults = 1
    MaxChurn = 1
    MaxDrift = 1
INVARIANTS VerdictSound CompletedIsRecorded UsersDeletedLast DriftedRowsStay
PROPERTIES RolledBackIsClean DryRunForetells OwnershipKept
