SPECIFICATION Spec
CONSTANTS
    Users <- MCUsers
    Sales <- MCSales
    UserOf <- MCUserOf
    Values <- MCValues
    Absent = Absent
    Runs = {r1, r2}
    NoRun = NoRun
    Procs = {p1}
    NoKey = NoKey
    Rejected = {}
    MaxRetries = 1
    AllowDestructive = TRUE
    InitLegacy <- MCLegacy
    InitServices <- MCServices
    Commands = {"snapshot", "resume", "validate", "rollback", "dry"}
    MaxFaults = 2
    MaxChurn = 0
    MaxDrift = 0
INVARIANTS TypeOK InsertedIsOwned VerdictSound SalesAfterUsers
PROPERTIES RolledBackIsClean ReadOnlyCommands LifecycleSpec
SYMMETRY RunSymmetry
