SPECIFICATION FairSpec
CONSTANTS
  Conn = {c1, c2}
  Player <- OnePlayer
  Row <- TwoRows
  MaxVersion = 2
  NoRow = NoRow
INVARIANTS
  TypeOK
  
PROPERTIES
  
  
  QuietIsSaved
CHECK_DEADLOCK FALSE
