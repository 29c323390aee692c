\* A suite without any of the habits: failures of daemon, services, instance.
CONSTANTS
  db = db
  cache = cache
  row = row
  child = child
  flag = flag
  seed = seed
  foreign = foreign
  Order <- MCOrder
  Ops <- MCOps
  Keyed <- MCKeyed
  Needs <- MCNeeds
  ServiceOf <- MCServiceOf
  Startup <- MCStartup
  Migrated <- MCMigrated
  Foreign = foreign
  Habits = {}
  MaxTests = 2
  MaxOps = 2
  MaxCalls = 2
  MaxSeeds = 4
  MaxFaults = 1
SPECIFICATION FairSpec
INVARIANTS CallSeesDeclared BaselineReplays
PROPERTIES JournalsFrozenOutsideBoundary
CHECK_DEADLOCK FALSE
