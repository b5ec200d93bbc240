SPECIFICATION Spec
CONSTANTS
    r1 = r1
    r2 = r2
    Requests = {r1}
    Procs = {p1}
    Drainers = {d1, d2}
    Pids = {1}
    NoPid = 0
    Covers <- MCCovers
    Audio = {r1}
    WholeSeries = {}
    ExtInitial = {"PENDING"}
    ExtLater = {}
    MaxPosts = 2
    MaxFaults = 3
    Events <- MCEvents
INVARIANTS
    AcknowledgedIsDurable
    JournaledOnce
PROPERTIES
    ReceiptsBound
    EventsDelivered
CHECK_DEADLOCK FALSE
