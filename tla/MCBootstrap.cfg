CONSTANTS
  Members <- MCMembers
  Unasked <- MCUnasked
  Numeric <- MCNumeric
  SpecNames <- MCSpecNames
  Axes <- MCAxes
  Stems <- MCStems
  Registered <- MCRegistered
  Covers <- MCCovers
  Paths <- MCPaths
  Default <- MCDefault
  Templates <- MCTemplates
  Interviews <- MCInterviews
  MaxExtras = 2
  MaxRuns = 3
  MaxFaults = 1
  MaxEdits = 1
SPECIFICATION Spec
INVARIANTS SuccessIsComplete RegisteredFilesExist RepeatChangesNothing SpecsFirstWins
PROPERTY UserDataKept
CHECK_DEADLOCK FALSE
