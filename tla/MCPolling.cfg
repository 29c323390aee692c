\* Fields used one after the other, errors of the service while polling.
CONSTANTS
  None = None
  status = status
  state = state
  Dotted = {status}
  JsonPath = {state}
  Timeouts <- MCTimeouts
  Delays <- MCDelays
  Predicates <- MCPredicates
  MaxProofs = 2
  MaxElapsed = 4
  KeepsFields = FALSE
  UpdateErrors = {"other"}
SPECIFICATION FairSpec
INVARIANTS PassIsProven FailsOnlyAfterDeadline
PROPERTIES ChecksEnd
