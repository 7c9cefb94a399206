SPECIFICATION Spec
CONSTANTS
  Users = {u1, u2}
  Beats = {b1, b2}
  Servers = {s1}
  Packets = {p1}
  Probe = probe
  ConnIds = {c1}
  None = None
  PoolSize = 1
  Cap = 1
  Retries = 0
  MaxOwed = 0
INVARIANTS
  OneHeartbeat
  WaitersAreServed
PROPERTY WatchedIfAlone
