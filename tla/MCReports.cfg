SPECIFICATION RSpec
CONSTANTS
    Users <- MCUsers
    Sales <- MCSales
    UserOf <- MCUserOf
    Values <- MCValues
    Absent = Absent
    Runs = {r1}
    NoRun = NoRun
    Procs = {p1}
    NoKey = NoKey
    Rejected = {}
    MaxRetries = 1
    AllowDestructive = TRUE
    InitLegacy <- MCLegacy
    InitServices <- MCServicesOccupied
    Commands = {"snapshot", "resume", "validate", "rollback", "dry"}
    MaxFaults = 2
    MaxChurn = 1
    MaxDrift = 0
INVARIANTS ReportingTypeOK OutcomesAddUp CompletedReportAgrees RollbackAccounts
PROPERTIES ExitZeroIsTrue
