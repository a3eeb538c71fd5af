SPECIFICATION ScansSpec
CONSTANTS
  ListedApps = {p1}
  TokenHolders = {t1, t2}
  FirstHolder = t1
  NoFile = NoFile
  CONFIRMED = 1
  RANGE = 1
  MaxHeight = 4
  MaxBlocks = 4
INVARIANT
  InventoryIsFresh
CHECK_DEADLOCK FALSE
