--------------------------- MODULE EngineContract ---------------------------
(***************************************************************************)
(* What a service engine promises the sandbox (docs/sandbox/api.md, the    *)
(* docstrings of engines/base.py): each call is one step, whatever happens *)
(* inside it.  A call that returns normally has had its whole effect; one  *)
(* that raises has had an effect the caller can still name.                *)
(***************************************************************************)
EXTENDS DataPlane

CONSTANTS Startup,     \* the startup operations of the service
          Migrated,    \* the rows its migrations insert
          Groups       \* the operation groups a caller applies

VARIABLES up,          \* the service is started
          baseline,    \* what a reset returns it to
          holds,       \* what it holds
          result       \* how the last call ended

vars == <<up, baseline, holds, result>>

Init == /\ up = FALSE
        /\ baseline = <<>>
        /\ holds = <<>>
        /\ result = "none"

Boot == /\ ~up
        /\ result = "none"
        /\ up' = TRUE
        /\ baseline' = baseline \o Startup
        /\ holds' \in {m \o Startup : m \in {<<>>, Migrated}}
        /\ result' = "ok"

Apply(group) ==
  /\ up
  /\ Replays(holds, group)
  /\ holds' = holds \o group
  /\ result' = "ok"
  /\ UNCHANGED <<up, baseline>>

(* A group that failed was executed up to some operation, in order. *)
ApplyFails(group) ==
  /\ up
  /\ holds' \in PartlyApplied(holds, group)
  /\ result' = "error"
  /\ UNCHANGED <<up, baseline>>

(* Only a group the service has executed becomes part of the baseline. *)
Record(group) ==
  /\ up
  /\ result = "ok"
  /\ baseline' = baseline \o group
  /\ Len(group) <= Len(holds)
  /\ holds = Prefix(holds, Len(holds) - Len(group)) \o group
  /\ UNCHANGED <<up, holds, result>>

Reset == /\ up
         /\ Replays(<<>>, baseline)
         /\ holds' = baseline
         /\ result' = "ok"
         /\ UNCHANGED <<up, baseline>>

ResetFails == /\ up
              /\ holds' \in AfterFailedReset(holds, baseline)
              /\ result' = "error"
              /\ UNCHANGED <<up, baseline>>

(* A call on a service that is not up, or one that could not come up. *)
Reject == /\ ~up
          /\ result' = "error"
          /\ UNCHANGED <<up, baseline, holds>>

Halt == /\ up' = FALSE
        /\ holds' = <<>>
        /\ result' = "ok"
        /\ UNCHANGED baseline

Next == \/ Boot \/ Reset \/ ResetFails \/ Reject \/ Halt
        \/ \E group \in Groups : Apply(group) \/ ApplyFails(group) \/ Record(group)

Spec == Init /\ [][Next]_vars
=============================================================================
