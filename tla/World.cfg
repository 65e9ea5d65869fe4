SPECIFICATION FairSpec
CONSTANTS
  r1 = r1
  r2 = r2
  NoRow = NoRow
  Row <- TwoRows
  IdOf <- OneId
  UnitOf <- OnFoot
  Input <- Inputs
  Loaded <- LoadedRows
  TileType <- SmallMap
  Jump <- OffMap
  MaxStep = 1
INVARIANTS
  TypeOK
  
  OnGround
  
PROPERTIES
  NoFasterThanSpeed
  IdleIsDropped
CHECK_DEADLOCK FALSE
