\* Two sessions on one channel, over a shared or an exclusive connection.
SPECIFICATION Spec
CONSTANTS
  r1 = r1
  r2 = r2
  u1 = u1
  t1 = t1
  s1 = s1
  f1 = f1
  None = None
  Requests = {r1, r2}
  Users = {u1}
  Targets = {t1}
  Sources = {s1}
  Fingerprints = {f1}
  StreamIds = {i1}
  Viewer <- MCViewer
  Channel <- MCChannel
  Candidates <- MCCandidates
  Configs <- MCConfigs
  Ttl = 1
  MaxClock = 2
SYMMETRY MCSymmetry
INVARIANTS
  SharedReservationCoversStream
  ConsumersReserved
  SessionNamesLease
  ReleasedStaysReleased
