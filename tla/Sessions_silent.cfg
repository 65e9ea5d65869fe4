SPECIFICATION FairSpec
CONSTANTS
  c1 = c1
  c2 = c2
  c3 = c3
  i1 = i1
  i2 = i2
  i3 = i3
  NoConn = NoConn
  NoID = NoID
  NoNick = NoNick
  Conn <- TwoConns
  ConnID <- OneID
  Udp <- OneUdp
  Player <- OnePlayer
  Nick <- TwoNicks
  NickOf <- OneNickOf
  ILike <- TwoILike
  LongNick = {1}
  MaxPlayers = 1
PROPERTIES SilentIsRemoved 
CHECK_DEADLOCK FALSE
