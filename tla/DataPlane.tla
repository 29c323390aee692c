------------------------------ MODULE DataPlane ------------------------------
(***************************************************************************)
(* What a dependency service does with the data operations the sandbox     *)
(* declares on it.  An operation (engines/operation.py DataOperation) is a *)
(* member of Ops; what a service holds is the sequence of the operations   *)
(* it has executed since it was last empty.  The two reasons for which a   *)
(* service refuses an operation because of what it holds are kept:         *)
(*   - Keyed operations insert a row under a fixed key, so a second one    *)
(*     collides with the first;                                            *)
(*   - an operation op refers ($ref, $lookup) to what the operations in    *)
(*     Needs[op] have put there.                                           *)
(***************************************************************************)
EXTENDS Naturals, Sequences, Functions

CONSTANTS Ops,    \* the data operations
          Keyed,  \* those that insert a row under a fixed primary key
          Needs   \* for each operation, the operations whose rows it refers to

ASSUME OpsAssumption == /\ Keyed \subseteq Ops
                        /\ Needs \in [Ops -> SUBSET Ops]

(***************************************************************************)
(* The service executes op when it holds held.                             *)
(***************************************************************************)
Accepts(held, op) == /\ op \in Keyed => op \notin Range(held)
                     /\ Needs[op] \subseteq Range(held)

Prefix(ops, n) == SubSeq(ops, 1, n)

(***************************************************************************)
(* The service executes every operation of ops, in order, starting from    *)
(* held: the loop of BaseEngine._apply_operations runs to its end.         *)
(***************************************************************************)
Replays(held, ops) ==
  \A i \in 1..Len(ops) : Accepts(held \o Prefix(ops, i - 1), ops[i])

(***************************************************************************)
(* What the service can hold after the loop stopped somewhere, at its end  *)
(* or at a failing operation.                                              *)
(***************************************************************************)
PartlyApplied(held, ops) ==
  {held \o Prefix(ops, n) : n \in {m \in 0..Len(ops) : Replays(held, Prefix(ops, m))}}

(***************************************************************************)
(* What the service can hold after a reset that failed: the wipe did not   *)
(* happen, or it did and the replay of the journal stopped somewhere.      *)
(***************************************************************************)
AfterFailedReset(held, journal) == {held} \cup PartlyApplied(<<>>, journal)
=============================================================================
