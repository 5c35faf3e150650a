SPECIFICATION HSpec
CONSTANTS
  Settings <- MenuSettings
  Disturbances = {"rollover", "critical", "reset"}
INVARIANTS HTypeOK FlagsFitScreen MomentaryReleased NothingUncommittedOutside
PROPERTIES EntryHoldStays AdvanceHasPress LandsOnNextShown
