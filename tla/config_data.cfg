SPECIFICATION Spec
CONSTANTS
  Configs <- FullConfigData
  EdsFiles = {}
  Replies <- SomeReplies
  SerialNumber = 513
  ConnectionId = 65537
  Handle = 3
  PeerIp = 5
INVARIANTS
  ConfigDataArrives
