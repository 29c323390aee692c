----------------------------- MODULE MCArtifacts -----------------------------
(* Three specifications, the second in the directory of the first.  Four   *)
(* operations: two of them with one id, a third in the same directory.     *)
EXTENDS Artifacts

MCNames     == <<"client", "client.", "shop">>
MCGit       == {"client", "shop"}
MCRefused   == {"shop"}
MCRefs      == {"main", "v1"}
MCCfgRef    == [n \in MCGit |-> "main"]
MCOps       == {"a/b", "a-b", "a.b", "c"}
MCIdOf      == [o \in MCOps |-> CASE o \in {"a/b", "a-b"} -> "a_b" [] o = "a.b" -> "a.b" [] o = "c" -> "c"]
MCSegOf     == [x \in {"a_b", "a.b", "c"} |-> IF x = "a.b" THEN "a_b" ELSE x]
MCSpecSegOf == [n \in {"client", "client.", "shop"} |-> IF n = "shop" THEN "shop" ELSE "client"]
MCStatuses  == {"200", "418"}

End(o, v, statuses) == [op |-> o, version |-> v, statuses |-> statuses]
Valid(ops) == [valid |-> TRUE, ops |-> ops]
Old   == Valid(<<End("a/b", 1, <<"200", "418">>)>>)
New   == Valid(<<End("c", 2, <<>>), End("a/b", 2, <<"200">>)>>)
Clash == Valid(<<End("a/b", 1, <<"200">>), End("a-b", 1, <<>>), End("a.b", 1, <<"418">>)>>)
Empty == Valid(<<>>)
MCDocuments == {Old, New, Clash, Empty}

MCFilters   == {{}, {"a.b"}, {"unknown", "a_b"}}
MCOverrides == {<<>>, <<[spec |-> "all", ref |-> "v1"], [spec |-> "client", ref |-> "main"]>>,
                <<[spec |-> "client", ref |-> "main"], [spec |-> "client", ref |-> "v1"]>>,
                <<[spec |-> "unknown", ref |-> "v1"]>>}

(* The project as it is cloned: its third specification is there, its     *)
(* second has no operations, its first may be one that is refused.         *)
MCInit ==
  /\ Init
  /\ remote = [n \in Git |-> [r \in Refs |-> IF r = "v1" THEN Old ELSE New]]
  /\ local \in {[n \in NameSet |-> CASE n = "client" -> d [] n = "shop" -> Old [] OTHER -> Empty]
                 : d \in {Old, Clash, NoDocument}}
MCSpec == MCInit /\ [][Next]_vars

(* Two endpoints of one specification that have one directory.             *)
Twins        == Valid(<<End("a/b", 1, <<"200">>), End("a.b", 1, <<"418">>)>>)
TwinDocuments == {Twins, Empty}
TwinFilters  == {{}, {"a_b"}, {"a.b"}}
TwinInit ==
  /\ Init
  /\ remote = [n \in Git |-> [r \in Refs |-> Twins]]
  /\ local = [n \in NameSet |-> IF n = "client" THEN Twins ELSE Empty]
TwinSpec == TwinInit /\ [][Next]_vars
=============================================================================
