CONSTANTS
  Names <- MCNames
  Git <- MCGit
  Refused <- MCRefused
  CfgRef <- MCCfgRef
  Refs <- MCRefs
  Ops <- MCOps
  IdOf <- MCIdOf
  SegOf <- MCSegOf
  SpecSegOf <- MCSpecSegOf
  Statuses <- MCStatuses
  Documents <- MCDocuments
  Filters <- MCFilters
  Overrides <- MCOverrides
  MaxRuns = 3
  MaxFaults = 1
  MaxPublishes = 1
  MaxEdits = 1
SPECIFICATION MCSpec
INVARIANTS SuccessIsComplete ForcedIsCurrent ModulesImportable ReportedHasModule ReadableUnlessFailed PullLeavesPrefix
PROPERTY KeptWithoutForce
CHECK_DEADLOCK FALSE
