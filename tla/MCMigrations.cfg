SPECIFICATION FairSpec
CONSTANTS
  Files <- MCFiles
  Version <- MCVersion
  Size <- MCSize
  NoTransaction = {"index", "twin"}
  BadName = {"notes"}
  BadContent = {"broken"}
INVARIANTS
  ReturnsWhenAllApplied
  CloneDeleted
PROPERTIES
  RunEnds
  KeepsLedger
CHECK_DEADLOCK FALSE
