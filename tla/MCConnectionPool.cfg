SPECIFICATION Spec
CONSTANTS
  Threads = {t1, t2, t3}
  Servers = {s1, s2}
  ConnIds = {i1, i2, i3, i4}
  None = None
  MaxSize = 2
  MaxTotal = 4
SYMMETRY Symmetric
INVARIANTS
  TypeOK
  Accounting
  IdleHealthy
  ServerMatch
  RefusesOnlyWhenFull
PROPERTY LedgerSpec
