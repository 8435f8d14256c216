SPECIFICATION Spec
CONSTANTS
    Users <- MCUsersMin
    Sales <- MCSales
    UserOf <- MCUserOfMin
    Values <- MCValues
    Absent = Absent
    Runs = {r1, r2}
    NoRun = NoRun
    Procs = {p1}
    NoKey = NoKey
    Rejected = {}
    MaxRetries = 1
    AllowDestructive = TRUE
    InitLegacy <- MCLegacyMin
    InitServices <- MCServicesEmpty
    Commands = {"snapshot", "resume", "validate", "rollback", "dry"}
    MaxFaults = 2
    MaxChurn = 0
    MaxDrift = 0
PROPERTIES RollbackDeletesOwnRows
