SPECIFICATION WifiSpec
CONSTANTS
  Every = 24
  CounterMax = 255
  NoHint = NoHint
  ClockRange = 32
  RetryInterval = 4
  MaxAttempts = 3
  MaxPass = 3
  Target = 12
  MaxChunk = 7
  ShortReturn = 3
  MaxRefusals = 3
  MaxShortReturns = 3
  RetryDelay = 2
  NudgeAfter = 1
  LinkTimeout = 3
INVARIANTS
  WifiTypeOK
  LeaseRenewed
  CounterSound
  IntervalKept
PROPERTIES
  DhcpComesRound
  AttemptsSpaced
  GivesUpEventually
  SleepEnds
