SPECIFICATION Spec
CONSTANTS
  c1 = c1
  c2 = c2
  tcp = tcp
  udp = udp
  own = own
  Server = Server
  Nobody = Nobody
  Conn <- TwoConns
  Listings <- BothOrders
  Level <- ServerFirst
  Peer <- TwoConns
  Lock <- Locks
  Object <- Shared
  Goroutine <- Goroutines
  Calls <- ChatHeartbeatCalls
  Stalled = {}
INVARIANT NoDeadlock
CHECK_DEADLOCK FALSE
