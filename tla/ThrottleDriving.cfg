SPECIFICATION HSpec
CONSTANTS
  Notches = 1
  AlerterWarn = 2
  SleepReset = 2
  SleepQuiet = 1
  UpdateDecisecs = 1
  TxHoldoff = 1
  QueueDepth = 1
  Fn <- MCFn
  Settings <- DrivingSettings
  Inputs <- DrivingInputs
  Requests = {"V"}
  BlockingScreens = TRUE
INVARIANTS HTypeOK
PROPERTIES FlipsAtIdle PenaltyHolds WarningNeedsCrew SlamHolds WakesIdle
