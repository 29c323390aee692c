------------------------------- MODULE MCClient -------------------------------
(***************************************************************************)
(* Three endpoints: one that expects 200, which has a schema, one without  *)
(* an expected status, one with an adapter that is not supported.  Answers *)
(* that fit and do not fit, another status, a body that is not JSON.       *)
(***************************************************************************)
EXTENDS Client

MCEndpoints   == {"get", "any", "async"}
MCUnsupported == {"async"}
MCExpected    == [e \in MCEndpoints |-> IF e = "any" THEN None ELSE 200]
MCStatuses    == {200, 503}
MCSchemas     == {200}
MCAnswers     == {[status |-> 200, json |-> TRUE, fits |-> {200}],
                  [status |-> 200, json |-> TRUE, fits |-> {}],
                  [status |-> 503, json |-> TRUE, fits |-> {200}],
                  [status |-> 503, json |-> FALSE, fits |-> {}]}
=============================================================================
