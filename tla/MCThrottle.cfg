SPECIFICATION FairSpec
CONSTANTS
  Threads = {t1, t2}
  Servers = {s1, s2}
  None = None
  Second = 4
  MaxRate = 4
  Rates = {0, 1, 5}
  DefaultBase = 2
  DefaultRate = 1
  TTLs = {1, 2}
INVARIANTS
  TypeOK
  IntervalInForce
PROPERTIES
  Spaced
  SettlesOnServer
