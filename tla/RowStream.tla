------------------------------ MODULE RowStream ------------------------------
(***************************************************************************)
(* What the declared references of a postgresql service rely on: for each  *)
(* table the rows the data plane has applied since the last reset, in      *)
(* order, each of them the value of one address (docs/sandbox/api.md).  An *)
(* insert that returns has appended all of its rows to the stream of its   *)
(* table; one that raises has left every address as it was.                *)
(***************************************************************************)
EXTENDS Naturals, Sequences

CONSTANTS Tables, \* the tables of the service
          Ops,    \* the operations declared on it
          Table,  \* the table each of them inserts into
          Rows    \* the rows it declares; none for a raw statement

VARIABLES stream, \* the applied rows of each table
          result  \* how the last operation ended

Init == stream = [t \in Tables |-> <<>>] /\ result = "none"

Inserted(op) ==
  LET t == Table[op] IN
  /\ Len(stream'[t]) = Len(stream[t]) + Len(Rows[op])
  /\ SubSeq(stream'[t], 1, Len(stream[t])) = stream[t]
  /\ \A u \in Tables \ {t} : stream'[u] = stream[u]
  /\ result' = "ok"

Refused == result' = "error" /\ UNCHANGED stream

Cleared == stream' = [t \in Tables |-> <<>>] /\ UNCHANGED result

Next == (\E op \in Ops : Inserted(op)) \/ Refused \/ Cleared

Spec == Init /\ [][Next]_<<stream, result>>
=============================================================================
