CONSTANTS
    d1 = d1  d2 = d2  p1 = p1  p2 = p2  a1 = a1
    None = None
    Dests = {d1, d2}
    CounterKeys = {p1, p2, a1}
    KeysOf <- MCKeysOf
    Capacity <- MCCapacity
    Channels = {c}
    Leases = {w1, w2}
    Generations = {g}
    MaxStreams = 1
    MaxEpoch = 2
    MaxChunks = 2
    Tokens = {t1, t2}
    VodSessions = {}
    ShiftSessions = {}
    Lives = {}
    Viewers = {}
    Playbacks = {}
SPECIFICATION LedgerSpec
INVARIANTS
    CountersExact
    ReservationsLinked
    SwitchFencesUpstream
PROPERTY ImplementsFencedStream
SYMMETRY Symmetry
CHECK_DEADLOCK FALSE
