SPECIFICATION Spec
CONSTANTS
  TilemapWidth = 5
  TilemapHeight = 5
  Base = 3
  UdpBuffer = 12
  Header = 1
  Word = 65536
  ChunkSize = 16
  MaxChunkViewDistance = 4
  MapWidth = 8192
  MapHeight = 4096
  PacketTiles = 256
  Grid = 4
  Span = 6
  TextLength = 2
  MaxExp = 20000
  MaxLevel = 12
  MaxPower = 18
  Uint = 1048576
  LineInputs <- Segments
  PolygonInputs <- Rings
  StreamInputs <- Streams
  DatagramInputs <- Messages
  ChatInputs <- Chats
  SyncInputs <- Syncs
  ChunkInputs <- Chunks
  LevelInputs <- Experience
INVARIANTS
  LinesAreDrawn
  PolygonsAreFilled
  StreamRoundTrip
  DatagramWholeOrNothing
  ChatArrives
  SyncStateReadable
  ChunkAnswers
  LevelsAgree
CHECK_DEADLOCK FALSE
