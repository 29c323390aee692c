\* Two calls, rebinding between them, one failure; every check may poll.
CONSTANTS
  None = None
  Endpoints <- MCEndpoints
  Unsupported <- MCUnsupported
  Expected <- MCExpected
  Statuses <- MCStatuses
  Schemas <- MCSchemas
  Answers <- MCAnswers
  Polls = TRUE
  MaxCalls = 2
  MaxDeclared = 2
  MaxBinds = 2
  MaxFaults = 1
SPECIFICATION Spec
INVARIANTS CallsAreGuarded ExpectIsChecked
CHECK_DEADLOCK FALSE
