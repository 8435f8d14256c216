SPECIFICATION Spec
CONSTANTS
    Users <- MCUsersMin
    Sales <- MCSales
    UserOf <- MCUserOfMin
    Values <- MCValues
    Absent = Absent
    Runs = {r1}
    NoRun = NoRun
    Procs = {p1, p2}
    NoKey = NoKey
    Rejected = {}
    MaxRetries = 1
    AllowDestructive = TRUE
    InitLegacy <- MCLegacyMin
    InitServices <- MCServicesOne
    Commands = {"snapshot", "resume", "validate", "rollback"}
    MaxFaults = 1
    MaxChurn = 0
    MaxDrift = 0
INVARIANTS PreexistingSurvive CreatedIsNew NothingClaimed VerdictSound
SYMMETRY ProcSymmetry
