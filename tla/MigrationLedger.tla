-------------------------- MODULE MigrationLedger --------------------------
(***************************************************************************)
(* What the documents promise of the migrations of a postgresql service    *)
(* (docs/sandbox/configuration.md, "migrations"), seen by somebody who     *)
(* watches the database: one set of files is applied in ascending version  *)
(* order, a file appears in one step, and only a file that declares        *)
(* NO TRANSACTION appears statement by statement.  Where the apply stops   *)
(* is left open.                                                           *)
(***************************************************************************)
EXTENDS Naturals

CONSTANTS Files,          \* the migration files there can be
          Version,        \* Version[f]: the numeric prefix of the name
          Size,           \* Size[f]: the number of statements of the Up section
          NoTransaction   \* the files that declare NO TRANSACTION

VARIABLES set,            \* the files of the set, {} until it is loaded
          committed       \* committed[f]: the statements of f the database keeps

Init == set = {} /\ committed = [f \in Files |-> 0]

Distinct(S) == \A f, g \in S : Version[f] = Version[g] => f = g

Load == /\ set = {} /\ set' \in SUBSET Files /\ Distinct(set')
        /\ UNCHANGED committed

(* f is the file the database is waiting for. *)
Due(f) == /\ committed[f] < Size[f]
          /\ \A g \in set : Version[g] < Version[f] => committed[g] = Size[g]

File(f) == /\ Due(f) /\ f \notin NoTransaction
           /\ committed' = [committed EXCEPT ![f] = Size[f]]
           /\ UNCHANGED set

Statement(f) == /\ Due(f) /\ f \in NoTransaction
                /\ committed' = [committed EXCEPT ![f] = @ + 1]
                /\ UNCHANGED set

Next == Load \/ \E f \in set : File(f) \/ Statement(f)

Spec == Init /\ [][Next]_<<set, committed>>
=============================================================================
