SPECIFICATION FairSpec
CONSTANTS
  c1 = c1
  c2 = c2
  j1 = j1
  j2 = j2
  List <- MCList
  Lists <- MCLists
  Given = {}
  None = None
  Page = 2
  PerDay <- MCPerDay
  Every = 1
  SyncEvery = 2
  MaxTop = 3
  MaxFaults = 1
PROPERTIES
  FilesInOrder
  HistoryKept
  CatchesUp
