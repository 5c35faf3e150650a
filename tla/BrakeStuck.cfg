SPECIFICATION HFairSpec
CONSTANTS
  Lever <- MCLever
  Settings <- MCPulseOrStack
  brakeLowThreshold = 20
  brakeThreshold = 60
  brakeHighThreshold = 120
PROPERTY RestReleases
