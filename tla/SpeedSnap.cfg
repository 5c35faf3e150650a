SPECIFICATION SHSpec
CONSTANTS
  Steps = 2
  Unit = 8
  Word = 256
  Multiplier = 100
  SPEED_MAX_MPH_DEFAULT = 50
  SPEED_CEIL_FADE_LO = 12
  SPEED_CEIL_FADE_HI = 18
  SPEED_CEIL_FADE_DEN = 16
  SpeedConfigs <- MCZero
  SpeedEdits <- MCEdits
  Inputs <- MCInputs
  MaxDelay = 1
PROPERTY ZeroSnaps
