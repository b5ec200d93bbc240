CONSTANTS
    d = d  k = k  None = None
    Dests = {d}
    CounterKeys = {k}
    KeysOf <- MCKeysOf
    Capacity <- MCCapacity
    Channels = {c}
    Workers = {w1, w2}
    MaxLives = 2
    Leases <- MCLeases
    Generations <- MCGenerations
    MaxStreams = 0
    MaxEpoch = 2
    MaxChunks = 1
    Tokens = {t1, t2}
    VodSessions = {}  ShiftSessions = {}  Lives = {}  Viewers = {}  Playbacks = {}
SPECIFICATION Spec
INVARIANTS
    UpstreamReserved
    SingleUpstream
PROPERTIES
    CleanupSparesProducer
VIEW Tracked
SYMMETRY Symmetry
CHECK_DEADLOCK FALSE
