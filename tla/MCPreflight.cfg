SPECIFICATION PSpec
CONSTANTS
    Users <- MCUsersMin
    Sales <- MCSales
    UserOf <- MCUserOfMin
    Values <- MCValues
    Absent = Absent
    Runs = {r1}
    NoRun = NoRun
    Procs = {p1}
    NoKey = NoKey
    Rejected = {}
    MaxRetries = 1
    AllowDestructive = TRUE
    InitLegacy <- MCLegacyOrphan
    InitServices <- MCServicesMin
    Commands = {"snapshot", "resume"}
    MaxFaults = 1
    MaxChurn = 1
    MaxDrift = 1
INVARIANTS PreflightTypeOK PreflightForetells
