SPECIFICATION RSpec
CONSTANTS
    Users <- MCUsersMin
    Sales <- MCSales
    UserOf <- MCUserOfMin
    Values <- MCValues
    Absent = Absent
    Runs = {r1}
    NoRun = NoRun
    Procs = {p1}
    NoKey = NoKey
    Rejected = {}
    MaxRetries = 1
    AllowDestructive = TRUE
    InitLegacy <- MCLegacyMin
    InitServices <- MCServicesMin
    Commands = {"snapshot", "resume", "validate", "rollback", "dry"}
    MaxFaults = 0
    MaxChurn = 0
    MaxDrift = 0
INVARIANTS ValidatedIsACount
