----------------------------- MODULE MCSandbox -----------------------------
(* Sandbox with a postgresql-like service, whose operations can refer to   *)
(* each other, and a second service.                                       *)
EXTENDS Sandbox

CONSTANTS db, cache,              \* services
          row, child, flag, seed, \* operations
          foreign                 \* a row of the instance

MCOrder == <<db, cache>>
MCOps == {row, child, flag, seed}
MCServiceOf == [o \in MCOps |-> IF o = flag THEN cache ELSE db]
MCKeyed == {row, seed}
MCNeeds == [o \in MCOps |-> IF o = child THEN {row} ELSE {}]
MCStartup == [s \in {db, cache} |-> IF s = cache THEN <<flag>> ELSE <<>>]
MCMigrated == [s \in {db, cache} |-> IF s = db THEN <<seed>> ELSE <<>>]
=============================================================================
