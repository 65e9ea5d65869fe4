SPECIFICATION FairSpec
CONSTANTS
  c1 = c1
  c2 = c2
  tcp = tcp
  udp = udp
  own = own
  Server = Server
  Nobody = Nobody
  Conn <- TwoConns
  Listings <- BothOrders
  Level <- ConnectionsFirst
  Peer <- TwoConns
  Lock <- Locks
  Object <- Shared
  Goroutine <- Goroutines
  Calls <- GameCalls
  Stalled = {c2}
INVARIANTS NoDeadlock NoMapRace
PROPERTY CallsReturn
CHECK_DEADLOCK FALSE
