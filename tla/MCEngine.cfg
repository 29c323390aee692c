\* One engine of each kind, every call sequence of the sandbox, failing steps.
CONSTANTS
  row = row
  child = child
  free = free
  seed = seed
  Ops <- MCOps
  Keyed <- MCKeyed
  Needs <- MCNeeds
  Startup <- MCStartup
  Migrated <- MCMigrated
  Groups <- MCGroups
  MaxCalls = 6
  MaxFaults = 2
SPECIFICATION FairSpec
INVARIANTS StartedServes NothingLeftBehind ResetRestoresJournal
PROPERTIES JournalFollowsService  KeepsContract
CHECK_DEADLOCK FALSE
