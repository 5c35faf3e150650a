SPECIFICATION HFairSpec
CONSTANTS
  a = a
  b = b
  p1 = p1
  p2 = p2
  p3 = p3
  p4 = p4
  None = None
  Throttles = {a}
  Entries = {e1, e2}
  e1 = e1
  e2 = e2
  Chunks = 2
  Profiles <- MCProfiles
  Layout <- MCLayout
  Fleets <- Alone
  Wants <- All
  RxDepth <- Two
  MaxRetries = 3
  Backlog <- Full
  QueueDepth = 3
INVARIANTS OutcomesTrue
PROPERTIES SyncEnds
