SPECIFICATION HSpec
CONSTANTS
  Notches = 1
  AlerterWarn = 2
  SleepReset = 3
  SleepQuiet = 2
  UpdateDecisecs = 1
  TxHoldoff = 1
  QueueDepth = 1
  Fn <- MCFn
  Settings <- MutedSettings
  Inputs <- DrivingInputs
  Requests = {}
  BlockingScreens = TRUE
PROPERTY WarningNeedsCrew
