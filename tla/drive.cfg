\* Every task ends.
SPECIFICATION Spec
CONSTANTS
  QueueLengths = {0, 1, 2, 9, 10}
  MaxNewFaults = 2
  MaxCalls = 2
  Objects <- SomeObjects
  Scalings <- SomeScalings
  Settings <- SomeSettings
  Values = {200, 300}
  Types <- IntegerTypes
  Interfaces <- Networks
  Address = 7
  IdentityReplies <- SomeReplies
  Cuts = {25, 26, 33, 65, 66, 70, 999}
  Timeout = 2
  MaxReplies = 2
  MaxTime = 4
  Blanks <- SomeBlanks
  Names <- SomeNames
  Keywords <- SomeKeywords
  Strings <- SomeStrings
  PlainTokens <- SomeTokens
  Mistakes <- SomeMistakes
  MaxPieces = 7
CHECK_DEADLOCK FALSE
INVARIANTS
  NoFaultMissed
  FaultsExact
  ObjectExactOrError
  EngNearest
  TotalTimeout
  EarlyRepliesTaken
  DevicesAsReplied
  ReadsAsWritten
  CutIsNoticed
PROPERTIES
  DiscoverReturns
