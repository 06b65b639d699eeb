SPECIFICATION RecordingSpec
CONSTANTS
  Addrs = {1, 2, 3}
  IdSpace = 8
  AppendMayFail = TRUE
  MaxBoots = 2
  Byte = 8
  FirstConfig <- FirstTwo
  UserTargets <- OneMore
  Dest = "dst"
  Paths <- Routes
  Answers <- EchoAnswers
  TcpAnswers <- ConnectAnswers
  MaxUnresolved = 1
  MaxProbes = 2
  MaxEdits = 2
CHECK_DEADLOCK FALSE
INVARIANTS
  RecordingTypeOK
  IdsAreStable
  ExportTellsProbe
  AnalyzeTellsApart
