------------------------------ MODULE MCEngine ------------------------------
(* Engine on a small instance: a startup row under a fixed key, a row that *)
(* refers to it, a free row, and a row the migrations insert.              *)
EXTENDS Engine

CONSTANTS row, child, free, seed   \* operations

MCOps == {row, child, free, seed}
MCKeyed == {row, seed}
MCNeeds == [o \in MCOps |-> IF o = child THEN {row} ELSE {}]
MCStartup == <<row>>
MCMigrated == <<seed>>
MCGroups == {<<free>>, <<child, free>>, <<row>>}
=============================================================================
