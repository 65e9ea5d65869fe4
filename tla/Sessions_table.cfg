SPECIFICATION Spec
CONSTANTS
  c1 = c1
  c2 = c2
  c3 = c3
  i1 = i1
  i2 = i2
  i3 = i3
  NoConn = NoConn
  NoID = NoID
  NoNick = NoNick
  Conn <- ThreeConns
  ConnID <- ThreeIDs
  Udp <- NoUdp
  Player <- OnePlayer
  Nick <- OneNick
  NickOf <- OneNickOf
  ILike <- OneILike
  LongNick = {}
  MaxPlayers = 2
INVARIANTS TypeOK Capacity NoGhostEntry LostOnlyByCollision OneSession
PROPERTY TableSpec
SYMMETRY Symmetry
CHECK_DEADLOCK FALSE
