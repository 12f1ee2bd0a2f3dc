SPECIFICATION FairSearch
CONSTANTS
  Spas = {s1, s2, s3}
  Undecodable = Undecodable
  SearchTime = 4
  MaxDatagrams = 5
INVARIANTS
  SearchTypeOK
  ListedOnce
PROPERTIES
  SilentAfterReturn
  OneIsEnough
  SearchEnds
CHECK_DEADLOCK FALSE
