SPECIFICATION FairSpec
CONSTANTS
  Users = {u1}
  Beats = {b1}
  Servers = {s1}
  Packets = {p1}
  Probe = probe
  ConnIds = {c1, c2}
  None = None
  PoolSize = 2
  Cap = 1
  Retries = 1
  MaxOwed = 0
PROPERTIES
  CallsReturn
  EmptyNoticed
