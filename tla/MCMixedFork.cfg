CONSTANTS
  Crons = {cron}
  Daemons = {daemon}
  None = None
  CONFIRMATIONS = 1
  MAX_BLOCKS_PER_PASS = 1
  Baseline = 2
  Toll = 90
  Mixes <- MCMixes
  DETAIL_LIMIT = 1
  MaxHeight = 3
  MaxReorgs = 1
  MaxFaults = 0
SPECIFICATION IndexerSpec
INVARIANTS
  MixedForksRefused
CHECK_DEADLOCK FALSE
