SPECIFICATION HFairSpec
CONSTANTS
  Notches = 1
  AlerterWarn = 2
  SleepReset = 5
  SleepQuiet = 3
  UpdateDecisecs = 1
  TxHoldoff = 1
  QueueDepth = 2
  Fn <- MCFn
  Settings <- RestingSettings
  Inputs <- RestingInputs
  Requests = {"R"}
  BlockingScreens = FALSE
INVARIANT QuietAsleep
PROPERTIES CatchesUp NodsOff
