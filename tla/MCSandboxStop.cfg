\* Ending a session, with every habit: failures, interruptions, refused removals.
CONSTANTS
  db = db
  cache = cache
  row = row
  child = child
  flag = flag
  seed = seed
  foreign = foreign
  Order <- MCOrder
  Ops <- MCOps
  Keyed <- MCKeyed
  Needs <- MCNeeds
  ServiceOf <- MCServiceOf
  Startup <- MCStartup
  Migrated <- MCMigrated
  Foreign = foreign
  Habits = {"interrupt", "late seeding", "open boundary", "kept view", "retry"}
  MaxTests = 2
  MaxOps = 1
  MaxCalls = 1
  MaxSeeds = 1
  MaxFaults = 3
SPECIFICATION FairSpec
INVARIANTS TestStartsAtBaseline StopRemovesAll InstanceHasServices
PROPERTIES NothingRemains
CHECK_DEADLOCK FALSE
