SPECIFICATION SleepSpec
CONSTANTS
  ClockRange = 32
  Target = 12
  MaxChunk = 7
  ShortReturn = 3
  MaxRefusals = 3
  MaxShortReturns = 3
  RetryDelay = 2
  NudgeAfter = 1
  LinkTimeout = 3
INVARIANTS
  WaitOutFits
