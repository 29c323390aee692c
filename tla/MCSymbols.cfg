SPECIFICATION Spec
CONSTANTS
  Tables = {"parent", "child"}
  Ops <- MCOps
  Table <- MCTable
  Rows <- MCRows
  Startup <- MCStartup
  LateSeeding = FALSE
  MaxSeeds = 2
  MaxTests = 2
  MaxOps = 2
  MaxForeign = 2
  MaxFaults = 2
INVARIANTS
  AddressesNameRows
  BaselineRefsStable
PROPERTY
  KeepsAddresses
CHECK_DEADLOCK FALSE
