SPECIFICATION FairSpec
CONSTANTS
  Users = {u1}
  Beats = {b1, b2}
  Servers = {s1, s2}
  Default = s1
  ConnIds = {i1, i2}
  None = None
  MaxSize = 2
  MaxTotal = 4
  Retries = 1
PROPERTY FailsOver
