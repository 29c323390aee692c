\* Finding: a request that polling sends again passes the pre-flight by.
CONSTANTS
  None = None
  Endpoints <- MCEndpoints
  Unsupported <- MCUnsupported
  Expected <- MCExpected
  Statuses <- MCStatuses
  Schemas <- MCSchemas
  Answers <- MCAnswers
  Polls = TRUE
  MaxCalls = 2
  MaxDeclared = 1
  MaxBinds = 2
  MaxFaults = 1
SPECIFICATION Spec
INVARIANT ResendsAreGuarded
CHECK_DEADLOCK FALSE
