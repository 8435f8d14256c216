SPECIFICATION RunningSpec
CONSTANTS
    Users <- MCUsers
    Sales <- MCSales
    UserOf <- MCUserOf
    Values <- MCValues
    Absent = Absent
    Runs = {r1}
    NoRun = NoRun
    Procs = {p1}
    NoKey = NoKey
    Rejected = {}
    MaxRetries = 1
    AllowDestructive = TRUE
    InitLegacy <- MCLegacy
    InitServices <- MCServicesAgree
    Commands = {"snapshot", "resume", "rollback", "validate"}
    MaxFaults = 3
    MaxChurn = 0
    MaxDrift = 0
PROPERTIES ResumeCompletes RollbackCompletes
