SPECIFICATION Spec
CONSTANTS
  TilemapWidth = 4
  TilemapHeight = 4
  Worlds <- SmallWorlds
  MaxID = 5
  Home = "TR"
  Nickname <- TwoPlayers
INVARIANTS
  TypeOK
  BordersExact
  PlayersHaveHome
  FatalHasCause
PROPERTY WorldAllOrNothing
