SPECIFICATION Spec
CONSTANTS
  c1 = c1
  c2 = c2
  c3 = c3
  p1 = p1
  p2 = p2
  p3 = p3
  here = here
  away = away
  NoPlayer = NoPlayer
  Unknown = Unknown
  NoPlace = NoPlace
  Conn <- TwoConns
  Player <- ThreePlayers
  Unsendable <- LongNamed
  MaxListed = 255
  Place <- TwoPlaces
  Stored <- OnePlace
  Near <- SamePlace
  MaxInputs = 4
  MaxCopies = 1
  MaxWaiting = 4
SYMMETRY Symmetry
INVARIANTS
  TypeOK
  Introduced
  Farewell
CHECK_DEADLOCK FALSE
