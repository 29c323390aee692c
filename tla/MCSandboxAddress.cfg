\* Finding: the instance dies before its address is logged.
CONSTANTS
  db = db
  cache = cache
  row = row
  child = child
  flag = flag
  seed = seed
  foreign = foreign
  Order <- MCOrder
  Ops <- MCOps
  Keyed <- MCKeyed
  Needs <- MCNeeds
  ServiceOf <- MCServiceOf
  Startup <- MCStartup
  Migrated <- MCMigrated
  Foreign = foreign
  Habits = {}
  MaxTests = 0
  MaxOps = 0
  MaxCalls = 0
  MaxSeeds = 0
  MaxFaults = 1
SPECIFICATION FairSpec
INVARIANTS FailedStartRemovesAll
CHECK_DEADLOCK FALSE
