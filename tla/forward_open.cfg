SPECIFICATION Spec
CONSTANTS
  Configs <- SmallConfigs
  EdsFiles <- SomeEds
  Replies <- SomeReplies
  SerialNumber = 513
  ConnectionId = 65537
  Handle = 3
  PeerIp = 5
INVARIANTS
  TargetSeesConfig
  PathReadBack
  EdsHonoured
  ReplyExactOrError
  CloseNamesConnection
