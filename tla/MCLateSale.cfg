SPECIFICATION Spec
CONSTANTS
    Users <- MCUsersMin
    Sales <- MCSales
    UserOf <- MCUserOfMin
    Values <- MCValues
    Absent = Absent
    Runs = {r1}
    NoRun = NoRun
    Procs = {p1}
    NoKey = NoKey
    Rejected = {}
    MaxRetries = 1
    AllowDestructive = TRUE
    InitLegacy <- MCLegacyGrowing
    InitServices <- MCServicesMin
    Commands = {"snapshot", "resume", "validate", "rollback", "dry"}
    MaxFaults = 0
    MaxChurn = 1
    MaxDrift = 0
PROPERTIES EverySaleResolves
