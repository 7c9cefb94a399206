SPECIFICATION Spec
CONSTANTS
  s1 = s1
  s2 = s2
  s3 = s3
  Servers <- MCServers
  Primary <- MCPrimary
  AllKnown <- MCAllKnown
  None = None
  Lists <- MCLists
  Blockable <- MCBlockable
  Page = 2
  Width = 6
  Counts = {3, 5}
  MaxTop = 5
  MaxNew = 1
  MaxEmpty = 1
INVARIANTS
  PagesFit
  OneEmptyServerIsSurvived
