------------------------------- MODULE Symbols -------------------------------
(***************************************************************************)
(* References between the rows a postgresql service is given               *)
(* (sandbox/engines/postgres.py, sandbox/engines/refs.py).  An insert runs *)
(* row by row inside one transaction and remembers every row it applied in *)
(* the symbol stream of its table; a later row may name one of them by its *)
(* position ($ref) or match a row of the database ($lookup).  A reset      *)
(* forgets the streams, truncates the tables and replays the journal, whose*)
(* references resolve anew.  Meanwhile the instance under test may write   *)
(* to the same tables.                                                     *)
(***************************************************************************)
EXTENDS Integers, Sequences

CONSTANTS Tables,       \* the tables of the service
          Ops,          \* the operations tests and fixtures declare
          Table,        \* the table each of them inserts into
          Rows,         \* the values it declares, one a row; none: a raw statement
          Startup,      \* the startup operations
          LateSeeding,  \* a session fixture is first requested after a test
          MaxSeeds, MaxTests, MaxOps,  \* bounds: operations declared, tests
          MaxForeign,   \* bound: writes of the instance under test
          MaxFaults     \* bound: failures of the service and the connection

(* A row has one declared value: a plain one, the id of the at-th row of   *)
(* the stream of a table, or the id of the one row of a table holding at.  *)
Value == [form : {"plain", "ref", "lookup"}, table : Tables, at : Nat]

(* A row of the database: its generated id, its value, and which row of    *)
(* which operation made it (0: one of a test, -1: anybody else).           *)
Row == [id : Nat, val : Nat, by : Int, nth : Nat]

ASSUME SymbolsAssumption ==
  /\ Table \in [Ops -> Tables]
  /\ Rows \in [Ops -> Seq(Value)]
  /\ Startup \in Seq(Ops)
  /\ LateSeeding \in BOOLEAN
  /\ {MaxSeeds, MaxTests, MaxOps, MaxForeign, MaxFaults} \subseteq Nat

VARIABLES
  (* the engine *)
  symbols,   \* _symbols: the stream of each table
  journal,   \* _journal
  (* the database *)
  db,        \* the committed rows of each table, in insertion order
  ids,       \* the last value of its identity sequence; not transactional
  (* the operation in progress *)
  pc,        \* "idle", or what it does next
  mode,      \* who runs it: "start", "seed", "reset", "test"
  op,        \* the operation
  base,      \* the length of the stream when its transaction began
  staged,    \* the rows of its transaction
  bound,     \* history: the rows its references have resolved to
  replayed,  \* how many operations the reset has replayed
  outcome,   \* how the last operation ended
  (* the session *)
  phase, seeds, tests, declared, foreign, faults,
  (* history *)
  applied,   \* the rows of the inserts that returned since the last truncate
  first,     \* what the references of each journal entry resolved to at first
  again      \* what they resolved to in the last reset

streams == <<symbols, journal, db, ids>>
running == <<op, base, staged, bound>>
session == <<phase, seeds, tests, declared>>
bounds  == <<foreign, faults>>
history == <<applied, first, again>>
vars == <<symbols, journal, db, ids, pc, mode, op, base, staged, bound, replayed,
          outcome, phase, seeds, tests, declared, foreign, faults, applied,
          first, again>>

TypeOK ==
  /\ symbols \in [Tables -> Seq(Row)]
  /\ applied \in [Tables -> Seq(Row)]
  /\ db \in [Tables -> Seq(Row)]
  /\ ids \in [Tables -> Nat]
  /\ journal \in Seq(Ops)
  /\ pc \in {"idle", "sql", "rows", "wipe", "replay"}
  /\ mode \in {"start", "seed", "reset", "test"}
  /\ op \in Ops
  /\ base \in Nat
  /\ staged \in Seq(Row)
  /\ replayed \in Nat
  /\ outcome \in {"none", "ok", "error"}
  /\ phase \in {"starting", "between", "boundary", "test", "ended"}
  /\ {seeds, tests, declared, foreign, faults} \subseteq Nat

Empty == [t \in Tables |-> <<>>]

Init ==
  /\ symbols = Empty /\ journal = <<>>
  /\ db = Empty /\ ids = [t \in Tables |-> 0]
  /\ pc = "idle" /\ mode = "start" /\ op \in Ops
  /\ base = 0 /\ staged = <<>> /\ bound = <<>> /\ replayed = 0
  /\ outcome = "none"
  /\ phase = "starting"
  /\ seeds = 0 /\ tests = 0 /\ declared = 0 /\ foreign = 0 /\ faults = 0
  /\ applied = Empty /\ first = <<>> /\ again = <<>>

Fault == faults < MaxFaults /\ faults' = faults + 1

-----------------------------------------------------------------------------
(***************************************************************************)
(* The session: startup statements, boundaries, tests with their reset.    *)
(***************************************************************************)
(* _execute: a raw statement runs as given, rows go in one by one.         *)
Execute(o) ==
  /\ op' = o
  /\ pc' = IF Rows[o] = <<>> THEN "sql" ELSE "rows"
  /\ base' = Len(symbols[Table[o]])
  /\ staged' = <<>> /\ bound' = <<>>

StartNext ==
  /\ phase = "starting" /\ pc = "idle"
  /\ replayed < Len(Startup)
  /\ Execute(Startup[replayed + 1])
  /\ replayed' = replayed + 1
  /\ UNCHANGED <<streams, mode, outcome, session, bounds, history>>

Started ==
  /\ phase = "starting" /\ pc = "idle"
  /\ replayed = Len(Startup)
  /\ phase' = "between"
  /\ journal' = Startup
  /\ UNCHANGED <<symbols, db, ids, pc, mode, running, replayed, outcome, seeds,
                 tests, declared, bounds, history>>

OpenBoundary ==
  /\ phase = "between" /\ pc = "idle"
  /\ (tests > 0 => LateSeeding)
  /\ phase' = "boundary"
  /\ UNCHANGED <<streams, pc, mode, running, replayed, outcome, seeds, tests,
                 declared, bounds, history>>

CloseBoundary ==
  /\ phase = "boundary" /\ pc = "idle"
  /\ phase' = "between"
  /\ UNCHANGED <<streams, pc, mode, running, replayed, outcome, seeds, tests,
                 declared, bounds, history>>

Seed(o) ==
  /\ phase = "boundary" /\ pc = "idle"
  /\ seeds < MaxSeeds /\ seeds' = seeds + 1
  /\ mode' = "seed"
  /\ Execute(o)
  /\ UNCHANGED <<streams, replayed, outcome, phase, tests, declared, bounds, history>>

(* A pending operation of the test, applied before a call.                 *)
Declare(o) ==
  /\ phase = "test" /\ pc = "idle"
  /\ declared < MaxOps /\ declared' = declared + 1
  /\ mode' = "test"
  /\ Execute(o)
  /\ UNCHANGED <<streams, replayed, outcome, phase, seeds, tests, bounds, history>>

(* Bug: the streams survive the reset. *)
ResetKeepsStreams ==
  /\ phase = "between" /\ pc = "idle"
  /\ tests < MaxTests /\ tests' = tests + 1
  /\ pc' = "wipe" /\ mode' = "reset"
  /\ declared' = 0
  /\ UNCHANGED <<streams, running, replayed, outcome, phase, seeds, bounds, history>>

(* The reset before a test forgets the streams, then asks for the tables.  *)
Reset ==
  /\ phase = "between" /\ pc = "idle"
  /\ tests < MaxTests /\ tests' = tests + 1
  /\ pc' = "wipe" /\ mode' = "reset"
  /\ symbols' = Empty
  /\ declared' = 0
  /\ UNCHANGED <<journal, db, ids, running, replayed, outcome, phase, seeds,
                 bounds, history>>

Truncate ==
  /\ pc = "wipe"
  /\ db' = Empty /\ ids' = [t \in Tables |-> 0]
  /\ applied' = Empty
  /\ pc' = "replay"
  /\ replayed' = 0 /\ again' = <<>>
  /\ UNCHANGED <<symbols, journal, mode, running, outcome, session, bounds, first>>

(* A lock the instance holds, a lost connection, or a lost answer: the test*)
(* errors in its setup.                                                    *)
TruncateFails ==
  /\ pc = "wipe" /\ Fault
  /\ \/ UNCHANGED <<db, ids>>
     \/ db' = Empty /\ ids' = [t \in Tables |-> 0]
  /\ pc' = "idle" /\ phase' = "between"
  /\ UNCHANGED <<symbols, journal, mode, running, replayed, outcome, seeds,
                 tests, declared, foreign, history>>

ReplayNext ==
  /\ pc = "replay" /\ replayed < Len(journal)
  /\ Execute(journal[replayed + 1])
  /\ replayed' = replayed + 1
  /\ UNCHANGED <<streams, mode, outcome, session, bounds, history>>

BeginTest ==
  /\ pc = "replay" /\ replayed = Len(journal)
  /\ pc' = "idle" /\ phase' = "test"
  /\ UNCHANGED <<streams, mode, running, replayed, outcome, seeds, tests,
                 declared, bounds, history>>

EndTest ==
  /\ phase = "test" /\ pc = "idle"
  /\ phase' = "between"
  /\ UNCHANGED <<streams, pc, mode, running, replayed, outcome, seeds, tests,
                 declared, bounds, history>>

-----------------------------------------------------------------------------
(***************************************************************************)
(* One operation.                                                          *)
(***************************************************************************)
NewRow(t, value, who, n) == [id |-> ids[t] + 1, val |-> value, by |-> who, nth |-> n]

(* The number under which the journal has the operation, or will have it.  *)
Number == CASE mode = "seed" -> Len(journal) + 1
            [] mode \in {"start", "reset"} -> replayed
            [] mode = "test" -> 0

Return ==
  /\ outcome' = "ok"
  /\ pc' = IF mode = "reset" THEN "replay" ELSE "idle"
  /\ journal' = IF mode = "seed" THEN Append(journal, op) ELSE journal
  /\ first' = IF mode \in {"start", "seed"} THEN Append(first, bound) ELSE first
  /\ again' = IF mode = "reset" THEN Append(again, bound) ELSE again
  /\ UNCHANGED phase

(* The exception ends the session, the reset or the block of the boundary. *)
Raise ==
  /\ outcome' = "error"
  /\ pc' = "idle"
  /\ phase' = CASE mode = "start" -> "ended"
                [] mode = "test" -> "test"
                [] mode \in {"seed", "reset"} -> "between"
  /\ UNCHANGED <<journal, first, again>>

RunStatement ==
  /\ pc = "sql"
  /\ LET t == Table[op] IN
       /\ db' = [db EXCEPT ![t] = Append(@, NewRow(t, 0, -1, 0))]
       /\ ids' = [ids EXCEPT ![t] = @ + 1]
  /\ Return
  /\ UNCHANGED <<symbols, mode, running, replayed, seeds, tests, declared,
                 bounds, applied>>

StatementFails ==
  /\ pc = "sql" /\ Fault
  /\ Raise
  /\ UNCHANGED <<symbols, db, ids, mode, running, replayed, seeds, tests,
                 declared, foreign, applied>>

(* What the statements of the transaction see of a table. *)
Visible(t) == db[t] \o (IF t = Table[op] THEN staged ELSE <<>>)

Matches(v) == {i \in DOMAIN Visible(v.table) : Visible(v.table)[i].val = v.at}

Pending == Rows[op][Len(staged) + 1]

(* An address beyond the stream and a predicate that does not match exactly*)
(* one row do not resolve.                                                 *)
Resolves(v) == CASE v.form = "plain" -> TRUE
                 [] v.form = "ref" -> v.at + 1 \in DOMAIN symbols[v.table]
                 [] v.form = "lookup" -> \E i \in Matches(v) : Matches(v) = {i}

Resolved(v) == CASE v.form = "plain" -> v.at
                 [] v.form = "ref" -> symbols[v.table][v.at + 1].id
                 [] v.form = "lookup" -> Visible(v.table)[CHOOSE i \in Matches(v) : TRUE].id

Named(v) == IF v.form = "ref"
            THEN LET row == symbols[v.table][v.at + 1] IN <<row.by, row.nth>>
            ELSE <<0, 0>>

InsertRow ==
  /\ pc = "rows" /\ Len(staged) < Len(Rows[op])
  /\ Resolves(Pending)
  /\ LET t   == Table[op]
         row == NewRow(t, Resolved(Pending), Number, Len(staged) + 1) IN
       /\ staged' = Append(staged, row)
       /\ symbols' = [symbols EXCEPT ![t] = Append(@, row)]
       /\ ids' = [ids EXCEPT ![t] = @ + 1]
       /\ bound' = Append(bound, Named(Pending))
  /\ UNCHANGED <<journal, db, pc, mode, op, base, replayed, outcome, session,
                 bounds, history>>

Commit ==
  /\ pc = "rows" /\ Len(staged) = Len(Rows[op])
  /\ db' = [db EXCEPT ![Table[op]] = @ \o staged]
  /\ applied' = [applied EXCEPT ![Table[op]] = @ \o staged]
  /\ Return
  /\ UNCHANGED <<symbols, ids, mode, running, replayed, seeds, tests, declared,
                 bounds>>

(* Bug: the stream keeps the rows of a transaction that was rolled back. *)
KeptRows == symbols

(* del stream[base:] *)
RolledBack == [symbols EXCEPT ![Table[op]] = SubSeq(@, 1, base)]

(* A value does not resolve, or the service refuses a row: the transaction *)
(* is rolled back, and the stream with it; the sequence is not.            *)
RowFails ==
  /\ pc = "rows" /\ Len(staged) < Len(Rows[op])
  /\ \/ ~Resolves(Pending) /\ UNCHANGED <<ids, faults>>
     \/ /\ Resolves(Pending) /\ Fault
        /\ ids' \in {ids, [ids EXCEPT ![Table[op]] = @ + 1]}
  /\ symbols' = RolledBack
  /\ Raise
  /\ UNCHANGED <<db, mode, running, replayed, seeds, tests, declared, foreign,
                 applied>>

(* The commit fails, or its answer is lost. *)
CommitFails ==
  /\ pc = "rows" /\ Len(staged) = Len(Rows[op]) /\ Fault
  /\ db' \in {db, [db EXCEPT ![Table[op]] = @ \o staged]}
  /\ symbols' = RolledBack
  /\ Raise
  /\ UNCHANGED <<ids, mode, running, replayed, seeds, tests, declared, foreign,
                 applied>>

-----------------------------------------------------------------------------
(* The instance under test inserts a row, or empties a table. *)
InstanceWrites ==
  /\ phase \notin {"starting", "ended"}
  /\ foreign < MaxForeign /\ foreign' = foreign + 1
  /\ \E t \in Tables :
       \/ /\ db' = [db EXCEPT ![t] = Append(@, NewRow(t, 0, -1, 0))]
          /\ ids' = [ids EXCEPT ![t] = @ + 1]
       \/ /\ db[t] # <<>>
          /\ db' = [db EXCEPT ![t] = <<>>]
          /\ UNCHANGED ids
  /\ UNCHANGED <<symbols, journal, pc, mode, running, replayed, outcome, session,
                 faults, history>>

Next ==
  \/ StartNext \/ Started \/ OpenBoundary \/ CloseBoundary
  \/ \E o \in Ops : Seed(o) \/ Declare(o)
  \/ Reset \/ Truncate \/ TruncateFails \/ ReplayNext \/ BeginTest \/ EndTest
  \/ RunStatement \/ StatementFails
  \/ InsertRow \/ Commit \/ RowFails \/ CommitFails
  \/ InstanceWrites

Spec == Init /\ [][Next]_vars

-----------------------------------------------------------------------------
(***************************************************************************)
(* Properties.                                                             *)
(***************************************************************************)

(* "$ref addresses the rows the data plane itself applied since the last   *)
(* reset" (docs/sandbox/api.md): while an insert runs, an address names    *)
(* exactly the row that has its place among the rows of the inserts that   *)
(* returned, and of the insert itself; the rows of an insert that raised,  *)
(* of a reset that failed half way and of the instance have none.          *)
AddressesNameRows ==
  pc = "rows" =>
    \A t \in Tables :
      symbols[t] = applied[t] \o (IF t = Table[op] THEN staged ELSE <<>>)

(* "Baseline replay re-resolves references after every reset"              *)
(* (docs/sandbox/api.md): a reference of a baseline operation names, in    *)
(* every reset, the row it named when the operation was recorded, whatever *)
(* failed and whoever wrote in between; no reset fails on it.              *)
BaselineRefsStable ==
  mode = "reset" /\ pc \in {"rows", "replay"} =>
    /\ \A i \in DOMAIN again : again[i] = first[i]
    /\ pc = "rows" /\ Len(staged) < Len(Rows[op]) /\ Pending.form = "ref" =>
         /\ Resolves(Pending)
         /\ Named(Pending) = first[replayed][Len(staged) + 1]

(* Seen insert by insert, the streams keep the contract references rely on.*)
Contract == INSTANCE RowStream
  WITH stream <- IF pc = "rows" THEN RolledBack ELSE symbols,
       result <- outcome

KeepsAddresses == Contract!Spec
=============================================================================
