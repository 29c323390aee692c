----------------------------- MODULE MCPolling -----------------------------
(* An instance of Polling for TLC: a dotted and a jsonpath field.          *)
EXTENDS Polling

CONSTANTS status, state

MCTimeouts == {None, 0, 2}
MCPredicates == {{"a"}, {"b", "root"}}
MCDelays == {None, 0, 1}
=============================================================================
