SPECIFICATION PSpec
CONSTANTS
  l1 = l1
  l2 = l2
  l3 = l3
  NoLoco = NoLoco
  Locos <- MCLocos
  ENGINE_STATE_QUEUE_SIZE = 2
  ENGINE_TIMER_DECISECS = 1
  Psi = 2
  VENT_PULSE_TICKS = 2
  AIRBRAKE_MIN_REDUCTION_PSI = 1
  AIRBRAKE_VENT_RATE_PSI_S = 5
  AIRBRAKE_EMERG_VENT_RATE_PSI_S = 20
  AIRBRAKE_RECHARGE_TAIL = 1
  Jitter = {0, 5}
  Handles <- MCHandles
  AirConfigs <- MCAirs
  Steps = 2
  Unit = 6
  Word = 256
  Multiplier = 100
  SPEED_MAX_MPH_DEFAULT = 50
  SPEED_CEIL_FADE_LO = 12
  SPEED_CEIL_FADE_HI = 18
  SPEED_CEIL_FADE_DEN = 16
  SpeedConfigs <- MCSpeeds
  SpeedEdits <- MCEdits
  Inputs <- MCInputs
  MaxDelay = 1
  MAX_CONFIGS = 1
  MaxJobs = 2
  Images <- MCImages
  Samples <- MCSamples
  Profiles <- MCProfiles
INVARIANTS PartsTypeOK ForeignInert LoadFollowsStore StoreKept
PROPERTIES LeverSettles SimulationsSettle DeepRunsMarked NoEarlyStart CorrectionMatchesRegime LocoFollows EditsStick NoFlicker KnobsSettle
CHECK_DEADLOCK FALSE
