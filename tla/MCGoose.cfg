SPECIFICATION ParserSpec
CONSTANT Inputs <- MCInputs
INVARIANTS
  DecidesForm
  StatementsAreTheText
CHECK_DEADLOCK FALSE
