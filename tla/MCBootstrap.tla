----------------------------- MODULE MCBootstrap -----------------------------
(* Two packaged usages, one of them registered; three members of which the *)
(* record of one occurs in the record of another; three templates: a bare  *)
(* one, one with a config of its own, one with an odd section.             *)
EXTENDS Bootstrap

MCMembers    == <<"headers", "timeout", "assert_timeout">>
MCUnasked    == {"headers"}
MCNumeric    == {"timeout", "assert_timeout"}
MCSpecNames  == {"a", "b"}
MCAxes       == {"automate"}
MCStems      == <<"pybuggy-api", "sandbox-file">>
MCRegistered == <<"pybuggy-api">>
MCCovers     == {<<m, m>> : m \in MemberSet} \cup {<<"timeout", "assert_timeout">>}
MCPaths      == {"default", "custom"}
MCDefault    == "default"

Answer(timeout, image, complete) ==
  [image |-> image,
   scalars |-> [m \in MemberSet |-> IF m = "timeout" THEN timeout ELSE "skipped"],
   first |-> [name |-> "a", complete |-> complete, nth |-> 0]]

MCInterviews == {Answer("number", TRUE, TRUE), Answer("skipped", FALSE, TRUE),
                 Answer("text", TRUE, TRUE), Answer("skipped", TRUE, FALSE)}

Line(refs) == [refs |-> refs, own |-> TRUE]

MCTemplates ==
  {Fresh,
   [Fresh EXCEPT
      !.slot = "own", !.conftest = "own", !.usage["pybuggy-api"] = "own",
      !.config = [Blank EXCEPT !.path = "custom",
                    !.usages = [k \in KeySet |-> IF k = "conventions" THEN "own" ELSE "none"],
                    !.notes = <<Line({}), Line(KeySet), Line({"pybuggy-api"})>>],
      !.docker["custom"] = [here |-> TRUE, lines |-> <<"old">>]],
   [Fresh EXCEPT !.config = [Blank EXCEPT !.odd = "usages"],
                 !.docker["default"] = [here |-> TRUE, lines |-> <<>>]]}
=============================================================================
