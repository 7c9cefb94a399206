SPECIFICATION Spec
CONSTANTS
  Users = {u1}
  Beats = {b1, b2}
  Servers = {s1, s2}
  Packets = {p1}
  Probe = probe
  ConnIds = {c1, c2}
  None = None
  PoolSize = 2
  Cap = 1
  Retries = 1
  MaxOwed = 0
SYMMETRY Symmetric
INVARIANTS
  DisconnectIsFinal
  ConnsOfCurrent
