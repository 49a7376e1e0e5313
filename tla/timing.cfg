SPECIFICATION Spec
CONSTANTS
  O2TApi = 3
  T2OApi = 2
  Multiplier = 0
  O2TFixed = TRUE
  T2OFixed = TRUE
  HasCount = TRUE
  U32 = 4
  U16 = 2
  IdleWait = 2
  LosesWake = TRUE
  MaxTime = 12
  MaxSocket = 1
INVARIANTS
  KeepsPhase
  NoBurst
  CountersAgree
  WakeNotMissed
  LostWakeDelay
  SentOnTime
  DroppedOnlyWhenSilent
  DroppedInTime
VIEW State
