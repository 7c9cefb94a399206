SPECIFICATION FairSpec
CONSTANTS
  Users = {u1}
  Servers = {s1, s2}
  Primary = {s1}
  None = None
  Streak = 2
  MaxRetry = 2
INVARIANTS
  StreakBansEarned
  NoRefusalUntried
  SelfHeals
PROPERTY
  Reconnects
