SPECIFICATION Spec
CONSTANTS
    r1 = r1
    r2 = r2
    Requests = {r1, r2}
    Procs = {p1, p2}
    Drainers = {}
    Pids = {1, 2}
    NoPid = 0
    Covers <- MCCovers
    Audio = {r1}
    WholeSeries = {r2}
    ExtInitial = {"PENDING"}
    ExtLater = {"APPROVED", "PROCESSING", "FAILED"}
    MaxPosts = 2
    MaxFaults = 3
    Events <- MCEvents
INVARIANTS
    TypeOK
    RegistryLoads
    MutatedOnce
    OneOwner
    ActiveTargetsDisjoint
    NoDuplicateAcquisition
PROPERTIES
    NeverBackwards
CHECK_DEADLOCK FALSE
