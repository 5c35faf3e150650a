SPECIFICATION HSpec
CONSTANTS
  Settings <- OneSetting
  Disturbances = {}
INVARIANTS NoBlankScreen
