SPECIFICATION FairSpec
CONSTANTS
  Callers = {a, b}
  Chunk = 2
  MaxPages = 2
  TTL = 1
  Sizes <- MCSizes
  MaxFaults = 2
INVARIANTS
  OnlyBeginnings
PROPERTY WholeAtLast
