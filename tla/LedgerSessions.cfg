CONSTANTS
    d1 = d1  d2 = d2  p1 = p1  p2 = p2  a1 = a1
    None = None
    Dests = {d1, d2}
    CounterKeys = {p1, p2, a1}
    KeysOf <- MCKeysOf
    Capacity <- MCCapacity
    Channels = {}
    Leases = {}
    Generations = {}
    MaxStreams = 2
    MaxEpoch = 0
    MaxChunks = 0
    Tokens = {t1, t2, t3}
    VodSessions = {v}
    ShiftSessions = {s}
    Lives = {l1, l2}
    Viewers = {u1, u2}
    Playbacks = {q1, q2, q3}
SPECIFICATION LedgerSpec
INVARIANTS
    CountersExact
    StreamsHoldCapacity
    OnePlaybackUpstream
SYMMETRY Symmetry
CHECK_DEADLOCK FALSE
