\* Two callers in flight, three leases, one shared route.
SPECIFICATION Spec
CONSTANTS
  u1 = u1
  u2 = u2
  t1 = t1
  s1 = s1
  s2 = s2
  f1 = f1
  l1 = l1
  l2 = l2
  l3 = l3
  p1 = p1
  p2 = p2
  None = None
  Users = {u1, u2}
  Targets = {t1}
  Sources = {s1, s2}
  Fingerprints = {f1}
  LeaseIds = {l1, l2, l3}
  Callers = {p1, p2}
  Configs <- MCConfigs
  CandidateLists <- MCCandidateLists
  Ttl = 2
  MaxClock = 2
SYMMETRY MCSymmetry
INVARIANTS
  AllocationsWithinCapacity
  UserWithinLimit
  TimestampsConsistent
PROPERTIES
  LeavesByOwnerOrExpiry
  ExpiredSharedIsFenced
