\* Three sessions of two users, two stream ids Jellyfin may share.
SPECIFICATION Spec
CONSTANTS
  a = a
  b = b
  c = c
  u1 = u1
  u2 = u2
  Sessions = {a, b, c}
  Users = {u1, u2}
  Owner <- MCOwner
  StreamIds = {i1, i2}
  Ttl = 1
  MaxClock = 2
  None = None
INVARIANTS
  NoConsumerStolen
  EveryConsumerRecorded
PROPERTIES
  ExpiredIsReaped
CHECK_DEADLOCK FALSE
