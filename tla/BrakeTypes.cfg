SPECIFICATION HSpec
CONSTANTS
  Lever <- MCLever
  Settings <- MCSettings
  brakeLowThreshold = 20
  brakeThreshold = 60
  brakeHighThreshold = 120
INVARIANTS HTypeOK SettledRest KeptApart StepRatchet
PROPERTIES NoChatter KeptOneChange
