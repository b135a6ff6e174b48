SPECIFICATION Spec
CONSTANTS
  n1 = n1
  art1 = art1
  art2 = art2
  del1 = del1
  delArt = delArt
  delRival = delRival
  eph = eph
  a = a
  b = b
  slug = slug
  Event <- MCEvent
  EventInfo <- MCEventInfo
  Capacity <- MCCapacity
  MaxWal = 2
  OldDisks <- MCOldDisks
  Poisonous = {dm}
  Filters <- MCFilters
  Incoming = {n1, art1, del1, delArt, delRival, eph}
  dm = dm
  list = list
  MaxPersists = 3
  MaxCrashes = 1
  MaxFaults = 1
INVARIANTS QueryExact DeletionExact DeletionDurable PoisonGone
CHECK_DEADLOCK FALSE
