SPECIFICATION Spec
CONSTANTS
  LastYear = 2120
  Frames <- MCFrames
  Downloads <- MCDownloads
  Moments <- MCMoments
  FundCodes <- MCFundCodes
  Listings <- MCListings
  Calls <- MCCalls
  Asks <- MCAsks
  Baskets <- MCBaskets
  MaxValidYear = 2036
  MaxCut = 7
  HeaderLen = 2
  Margin = 1
  AbsLimit = 4
  Width = 65536
  MaxQuotes = 2
  Chunk = 3
  HeaderSize = 2
  NameSize = 1
  CodeSize = 2
  BlockArea = 6
  MaxKeyword = 2
  MaxResults = 1
  NameBytes = 2
  FileBytes = 3
  MaxGap = 2
  Page = 2
  LowPages = 1
  AllPages = 1
INVARIANTS
  RecordsAreRead
  RequestsArrive
  ResponsesComeWhole
  ClockIsBeijings
  
  AdjustmentIsExact
\* A behaviour ends with its input.
CHECK_DEADLOCK FALSE
