SPECIFICATION HSpec
CONSTANTS
  a = a
  b = b
  p1 = p1
  p2 = p2
  p3 = p3
  p4 = p4
  None = None
  Throttles <- MCThrottles
  Entries = {e1, e2}
  e1 = e1
  e2 = e2
  Chunks = 2
  Profiles <- MCProfiles
  Layout <- MCLayout
  Fleets <- Newer
  Wants <- Sharing
  RxDepth <- One
  MaxRetries = 1
  Backlog <- Nothing
  QueueDepth = 3
SYMMETRY Alikes
INVARIANTS LayoutsMatch
PROPERTIES ImplementsStore NoSilentWipe
