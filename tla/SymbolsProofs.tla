---------------------------- MODULE SymbolsProofs ----------------------------
(***************************************************************************)
(* Proofs about Symbols, for every set of tables and operations, every     *)
(* declared row and every bound: what an address names, that the streams   *)
(* keep their contract, and that a replayed reference names what it did.   *)
(***************************************************************************)
EXTENDS Symbols, SequenceTheorems, TLAPS

(* The data: sequences of rows and operations.                             *)
TypeData ==
  /\ symbols \in [Tables -> Seq(Row)]
  /\ applied \in [Tables -> Seq(Row)]
  /\ db \in [Tables -> Seq(Row)]
  /\ ids \in [Tables -> Nat]
  /\ journal \in Seq(Ops)
  /\ op \in Ops
  /\ staged \in Seq(Row)

(* The control state and the counters.                                     *)
TypeControl ==
  /\ pc \in {"idle", "sql", "rows", "wipe", "replay"}
  /\ mode \in {"start", "seed", "reset", "test"}
  /\ base \in Nat
  /\ replayed \in Nat
  /\ outcome \in {"none", "ok", "error"}
  /\ phase \in {"starting", "between", "boundary", "test", "ended"}
  /\ {seeds, tests, declared, foreign, faults} \subseteq Nat

(* While an insert runs, the stream of its table is what it was when the   *)
(* transaction began and one row for each row inserted.                    *)
BaseInv ==
  /\ pc = "rows" => /\ Len(symbols[Table[op]]) = base + Len(staged)
                    /\ Len(staged) <= Len(Rows[op])
  /\ pc = "sql" => Rows[op] = <<>>

IInv == TypeOK /\ BaseInv

LEMMA TypeParts == TypeOK <=> TypeData /\ TypeControl
BY DEF TypeOK, TypeData, TypeControl

(* A row of a declared value is a row of the database.                     *)
LEMMA NewRowType ==
  ASSUME TypeData, NEW t \in Tables, NEW value \in Nat, NEW who \in Int, NEW n \in Nat
  PROVE  NewRow(t, value, who, n) \in Row
BY DEF TypeData, NewRow, Row

(* The value the next row of an insert declares.                           *)
LEMMA PendingType ==
  ASSUME TypeData, Len(staged) < Len(Rows[op])
  PROVE  Pending \in Value
<1>1. Rows[op] \in Seq(Value)
  BY SymbolsAssumption DEF TypeData
<1>2. Len(staged) \in Nat /\ Len(Rows[op]) \in Nat
  BY <1>1, LenProperties DEF TypeData
<1>3. Len(staged) + 1 \in 1..Len(Rows[op])
  BY <1>2
<1>. QED
  BY <1>1, <1>3, ElementOfSeq DEF Pending

(* A value that resolves has a value.                                      *)
LEMMA ResolvedType ==
  ASSUME TypeData, NEW v \in Value, Resolves(v)
  PROVE  Resolved(v) \in Nat
<1>1. v.table \in Tables /\ v.at \in Nat /\ v.form \in {"plain", "ref", "lookup"}
  BY DEF Value
<1>2. CASE v.form = "plain"
  BY <1>1, <1>2 DEF Resolved
<1>3. CASE v.form = "ref"
  <2>1. symbols[v.table] \in Seq(Row) /\ v.at + 1 \in DOMAIN symbols[v.table]
    BY <1>1, <1>3 DEF TypeData, Resolves
  <2>2. symbols[v.table][v.at + 1] \in Row
    BY <2>1, LenProperties, ElementOfSeq
  <2>. QED
    BY <1>3, <2>2 DEF Resolved, Row
<1>4. CASE v.form = "lookup"
  <2>1. Visible(v.table) \in Seq(Row)
    <3>1. db[v.table] \in Seq(Row) /\ staged \in Seq(Row) /\ <<>> \in Seq(Row)
      BY <1>1 DEF TypeData
    <3>. QED
      BY <3>1, ConcatProperties DEF Visible
  <2>2. PICK i \in Matches(v) : Matches(v) = {i}
    BY <1>4 DEF Resolves
  <2>3. (CHOOSE j \in Matches(v) : TRUE) = i
    BY <2>2
  <2>4. i \in DOMAIN Visible(v.table)
    BY <2>2 DEF Matches
  <2>5. Visible(v.table)[i] \in Row
    BY <2>1, <2>4, LenProperties, ElementOfSeq
  <2>. QED
    BY <1>4, <2>3, <2>5 DEF Resolved, Row
<1>. QED
  BY <1>1, <1>2, <1>3, <1>4

(* What a rollback leaves of the stream of the table.                      *)
LEMMA RollbackType ==
  ASSUME IInv, pc = "rows"
  PROVE  /\ Table[op] \in Tables
         /\ SubSeq(symbols[Table[op]], 1, base) \in Seq(Row)
         /\ Len(SubSeq(symbols[Table[op]], 1, base)) = base
         /\ \A i \in 1..base : SubSeq(symbols[Table[op]], 1, base)[i] = symbols[Table[op]][i]
         /\ RolledBack \in [Tables -> Seq(Row)]
<1>1. /\ Table[op] \in Tables
      /\ symbols \in [Tables -> Seq(Row)] /\ symbols[Table[op]] \in Seq(Row)
      /\ staged \in Seq(Row) /\ base \in Nat
      /\ Len(symbols[Table[op]]) = base + Len(staged)
  BY SymbolsAssumption DEF IInv, TypeOK, BaseInv
<1>2. base \in Int /\ 1 \in Int /\ base <= Len(symbols[Table[op]])
  BY <1>1, LenProperties
<1>3. \A i \in 1..base : symbols[Table[op]][i] \in Row
  BY <1>1, <1>2, LenProperties, ElementOfSeq
<1>4. /\ SubSeq(symbols[Table[op]], 1, base) \in Seq(Row)
      /\ Len(SubSeq(symbols[Table[op]], 1, base)) = IF 1 <= base THEN base - 1 + 1 ELSE 0
      /\ \A i \in 1..(base - 1 + 1) :
           SubSeq(symbols[Table[op]], 1, base)[i] = symbols[Table[op]][1 + i - 1]
  BY <1>2, <1>3, SubSeqProperties
<1>5. Len(SubSeq(symbols[Table[op]], 1, base)) = base
  BY <1>1, <1>4
<1>6. \A i \in 1..base : SubSeq(symbols[Table[op]], 1, base)[i] = symbols[Table[op]][i]
  BY <1>1, <1>4
<1>7. RolledBack \in [Tables -> Seq(Row)]
  BY <1>1, <1>4 DEF RolledBack
<1>. QED
  BY <1>1, <1>4, <1>5, <1>6, <1>7

(* The row an insert step makes.                                           *)
LEMMA InsertedRow ==
  ASSUME IInv, InsertRow
  PROVE  \E row \in Row :
           /\ row.by = Number /\ row.nth = Len(staged) + 1
           /\ staged' = Append(staged, row)
           /\ symbols' = [symbols EXCEPT ![Table[op]] = Append(@, row)]
           /\ ids' = [ids EXCEPT ![Table[op]] = @ + 1]
<1> DEFINE row == NewRow(Table[op], Resolved(Pending), Number, Len(staged) + 1)
<1>1. TypeData /\ TypeControl
  BY TypeParts DEF IInv
<1>2. Len(staged) < Len(Rows[op]) /\ Resolves(Pending)
  BY DEF InsertRow
<1>3. Table[op] \in Tables
  BY <1>1, SymbolsAssumption DEF TypeData
<1>4. Number \in Int
  <2>1. Len(journal) \in Nat
    BY <1>1, LenProperties DEF TypeData
  <2>. QED
    BY <1>1, <2>1 DEF TypeControl, Number
<1>5. Len(staged) + 1 \in Nat
  BY <1>1, LenProperties DEF TypeData
<1>6. Resolved(Pending) \in Nat
  BY <1>1, <1>2, PendingType, ResolvedType
<1>7. row \in Row
  BY <1>1, <1>3, <1>4, <1>5, <1>6, NewRowType
<1>8. row.by = Number /\ row.nth = Len(staged) + 1
  BY DEF NewRow
<1>9. /\ staged' = Append(staged, row)
      /\ symbols' = [symbols EXCEPT ![Table[op]] = Append(@, row)]
      /\ ids' = [ids EXCEPT ![Table[op]] = @ + 1]
  BY DEF InsertRow
<1>. QED
  BY <1>7, <1>8, <1>9

(* The data keeps its type.                                                *)
LEMMA DataStep ==
  ASSUME IInv, [Next]_vars
  PROVE  TypeData'
<1>0. TypeData /\ TypeControl
  BY TypeParts DEF IInv
<1>e. Empty \in [Tables -> Seq(Row)] /\ [t \in Tables |-> 0] \in [Tables -> Nat]
  BY DEF Empty
<1>t. Table[op] \in Tables
  BY <1>0, SymbolsAssumption DEF TypeData
<1>i. \A t \in Tables : [ids EXCEPT ![t] = @ + 1] \in [Tables -> Nat]
  BY <1>0 DEF TypeData
<1>n. \A t \in Tables : [db EXCEPT ![t] = Append(@, NewRow(t, 0, -1, 0))] \in [Tables -> Seq(Row)]
  <2>1. \A t \in Tables : NewRow(t, 0, -1, 0) \in Row
    BY <1>0, NewRowType
  <2>2. \A t \in Tables : Append(db[t], NewRow(t, 0, -1, 0)) \in Seq(Row)
    BY <1>0, <2>1, AppendProperties DEF TypeData
  <2>. QED
    BY <1>0, <2>2 DEF TypeData
<1>x. ASSUME NEW o \in Ops, Execute(o)
      PROVE  op' \in Ops /\ staged' \in Seq(Row)
  BY <1>x DEF Execute
<1>r. ASSUME Return PROVE journal' \in Seq(Ops)
  <2>1. Append(journal, op) \in Seq(Ops)
    BY <1>0, AppendProperties DEF TypeData
  <2>. QED
    BY <1>0, <1>r, <2>1 DEF Return, TypeData
<1>1. CASE StartNext
  <2>1. Startup[replayed + 1] \in Ops
    <3>1. replayed + 1 \in 1..Len(Startup)
      BY <1>0, <1>1, SymbolsAssumption, LenProperties DEF StartNext, TypeControl
    <3>. QED
      BY <3>1, SymbolsAssumption, ElementOfSeq
  <2>. QED
    BY <1>0, <1>1, <1>x, <2>1 DEF StartNext, TypeData, streams, history
<1>2. CASE Started
  BY <1>0, <1>2, SymbolsAssumption DEF Started, TypeData, running, history
<1>3. CASE OpenBoundary \/ CloseBoundary \/ BeginTest \/ EndTest
  BY <1>0, <1>3 DEF OpenBoundary, CloseBoundary, BeginTest, EndTest, TypeData,
     streams, running, history
<1>4. ASSUME NEW o \in Ops, Seed(o) \/ Declare(o) PROVE TypeData'
  BY <1>0, <1>4, <1>x DEF Seed, Declare, TypeData, streams, history
<1>5. CASE Reset
  BY <1>0, <1>5, <1>e DEF Reset, TypeData, running, history
<1>6. CASE Truncate
  BY <1>0, <1>6, <1>e DEF Truncate, TypeData, running
<1>7. CASE TruncateFails
  BY <1>0, <1>7, <1>e DEF TruncateFails, TypeData, running, history
<1>8. CASE ReplayNext
  <2>1. journal[replayed + 1] \in Ops
    <3>1. replayed + 1 \in 1..Len(journal)
      BY <1>0, <1>8, LenProperties DEF ReplayNext, TypeControl, TypeData
    <3>. QED
      BY <1>0, <3>1, ElementOfSeq DEF TypeData
  <2>. QED
    BY <1>0, <1>8, <1>x, <2>1 DEF ReplayNext, TypeData, streams, history
<1>9. CASE RunStatement
  BY <1>0, <1>9, <1>r, <1>t, <1>i, <1>n DEF RunStatement, TypeData, running
<1>10. CASE StatementFails
  BY <1>0, <1>10 DEF StatementFails, Raise, TypeData, running
<1>11. CASE InsertRow
  <2>1. PICK row \in Row :
           /\ staged' = Append(staged, row)
           /\ symbols' = [symbols EXCEPT ![Table[op]] = Append(@, row)]
           /\ ids' = [ids EXCEPT ![Table[op]] = @ + 1]
    BY <1>11, InsertedRow
  <2>2. staged' \in Seq(Row) /\ Append(symbols[Table[op]], row) \in Seq(Row)
    BY <1>0, <1>t, <2>1, AppendProperties DEF TypeData
  <2>. QED
    BY <1>0, <1>11, <1>t, <1>i, <2>1, <2>2 DEF InsertRow, TypeData, history
<1>12. CASE Commit
  <2>1. db[Table[op]] \o staged \in Seq(Row) /\ applied[Table[op]] \o staged \in Seq(Row)
    BY <1>0, <1>t, ConcatProperties DEF TypeData
  <2>. QED
    BY <1>0, <1>12, <1>t, <1>r, <2>1 DEF Commit, TypeData, running
<1>13. CASE RowFails
  <2>1. symbols' \in [Tables -> Seq(Row)] /\ journal' = journal
    BY <1>13, RollbackType DEF RowFails, Raise
  <2>. QED
    BY <1>0, <1>13, <1>t, <1>i, <2>1 DEF RowFails, TypeData, running
<1>14. CASE CommitFails
  <2>1. symbols' \in [Tables -> Seq(Row)] /\ journal' = journal
    BY <1>14, RollbackType DEF CommitFails, Raise
  <2>2. db[Table[op]] \o staged \in Seq(Row)
    BY <1>0, <1>t, ConcatProperties DEF TypeData
  <2>. QED
    BY <1>0, <1>14, <1>t, <2>1, <2>2 DEF CommitFails, TypeData, running
<1>15. CASE InstanceWrites
  <2>1. PICK t \in Tables :
          \/ /\ db' = [db EXCEPT ![t] = Append(@, NewRow(t, 0, -1, 0))]
             /\ ids' = [ids EXCEPT ![t] = @ + 1]
          \/ db' = [db EXCEPT ![t] = <<>>] /\ UNCHANGED ids
    BY <1>15 DEF InstanceWrites
  <2>2. [db EXCEPT ![t] = <<>>] \in [Tables -> Seq(Row)]
    BY <1>0 DEF TypeData
  <2>3. db' \in [Tables -> Seq(Row)] /\ ids' \in [Tables -> Nat]
    BY <1>0, <1>i, <1>n, <2>1, <2>2 DEF TypeData
  <2>. QED
    BY <1>0, <1>15, <2>3 DEF InstanceWrites, TypeData, running, history
<1>16. CASE UNCHANGED vars
  BY <1>0, <1>16 DEF vars, TypeData
<1>. QED
  BY <1>1, <1>2, <1>3, <1>4, <1>5, <1>6, <1>7, <1>8, <1>9, <1>10, <1>11, <1>12,
     <1>13, <1>14, <1>15, <1>16 DEF Next

(* The control state keeps its type.                                       *)
LEMMA ControlStep ==
  ASSUME IInv, [Next]_vars
  PROVE  TypeControl'
<1>0. TypeData /\ TypeControl
  BY TypeParts DEF IInv
<1>x. ASSUME NEW o \in Ops, Execute(o) PROVE base' \in Nat /\ pc' \in {"sql", "rows"}
  <2>1. Len(symbols[Table[o]]) \in Nat
    BY <1>0, SymbolsAssumption, LenProperties DEF TypeData
  <2>. QED
    BY <1>x, <2>1 DEF Execute
<1>1. CASE StartNext
  <2>1. Startup[replayed + 1] \in Ops
    <3>1. replayed + 1 \in 1..Len(Startup)
      BY <1>0, <1>1, SymbolsAssumption, LenProperties DEF StartNext, TypeControl
    <3>. QED
      BY <3>1, SymbolsAssumption, ElementOfSeq
  <2>2. base' \in Nat /\ pc' \in {"sql", "rows"}
    BY <1>1, <1>x, <2>1 DEF StartNext
  <2>. QED
    BY <1>0, <1>1, <2>2 DEF StartNext, TypeControl, session, bounds
<1>2. CASE Started
  BY <1>0, <1>2 DEF Started, TypeControl, running, bounds
<1>3. CASE OpenBoundary \/ CloseBoundary \/ BeginTest \/ EndTest
  BY <1>0, <1>3 DEF OpenBoundary, CloseBoundary, BeginTest, EndTest, TypeControl,
     running, bounds
<1>4. ASSUME NEW o \in Ops, Seed(o) \/ Declare(o) PROVE TypeControl'
  <2>1. base' \in Nat /\ pc' \in {"sql", "rows"}
    BY <1>4, <1>x DEF Seed, Declare
  <2>. QED
    BY <1>0, <1>4, <2>1 DEF Seed, Declare, TypeControl, bounds
<1>5. CASE Reset
  BY <1>0, <1>5 DEF Reset, TypeControl, running, bounds
<1>6. CASE Truncate
  BY <1>0, <1>6 DEF Truncate, TypeControl, running, session, bounds
<1>7. CASE TruncateFails
  BY <1>0, <1>7 DEF TruncateFails, Fault, TypeControl, running
<1>8. CASE ReplayNext
  <2>1. journal[replayed + 1] \in Ops
    <3>1. replayed + 1 \in 1..Len(journal)
      BY <1>0, <1>8, LenProperties DEF ReplayNext, TypeControl, TypeData
    <3>. QED
      BY <1>0, <3>1, ElementOfSeq DEF TypeData
  <2>2. base' \in Nat /\ pc' \in {"sql", "rows"}
    BY <1>8, <1>x, <2>1 DEF ReplayNext
  <2>. QED
    BY <1>0, <1>8, <2>2 DEF ReplayNext, TypeControl, session, bounds
<1>9. CASE RunStatement \/ Commit
  BY <1>0, <1>9 DEF RunStatement, Commit, Return, TypeControl, running, bounds
<1>10. CASE StatementFails \/ RowFails \/ CommitFails
  <2>1. /\ outcome' = "error" /\ pc' = "idle"
        /\ phase' \in {"ended", "test", "between"}
        /\ UNCHANGED <<mode, base, replayed, seeds, tests, declared, foreign>>
        /\ faults' \in {faults, faults + 1}
    BY <1>0, <1>10 DEF StatementFails, RowFails, CommitFails, Raise, Fault, TypeControl,
       running
  <2>. QED
    BY <1>0, <2>1 DEF TypeControl
<1>11. CASE InsertRow
  BY <1>0, <1>11 DEF InsertRow, TypeControl, session, bounds
<1>12. CASE InstanceWrites
  BY <1>0, <1>12 DEF InstanceWrites, TypeControl, running, session
<1>13. CASE UNCHANGED vars
  BY <1>0, <1>13 DEF vars, TypeControl
<1>. QED
  BY <1>1, <1>2, <1>3, <1>4, <1>5, <1>6, <1>7, <1>8, <1>9, <1>10, <1>11, <1>12,
     <1>13 DEF Next

(* So does what an insert in progress has added to its stream.             *)
LEMMA BaseStep ==
  ASSUME IInv, [Next]_vars
  PROVE  BaseInv'
<1>0. TypeData /\ TypeControl
  BY TypeParts DEF IInv
<1>x. ASSUME NEW o, Execute(o), o \in Ops, UNCHANGED symbols PROVE BaseInv'
  <2>1. Len(symbols[Table[o]]) \in Nat /\ Len(Rows[o]) \in Nat
    BY <1>0, <1>x, SymbolsAssumption, LenProperties DEF TypeData
  <2>2. op' = o /\ base' = Len(symbols[Table[o]]) /\ staged' = <<>> /\ symbols' = symbols
    BY <1>x DEF Execute
  <2>3. Len(staged') = 0
    BY <2>2
  <2>4. pc' = "sql" => Rows[o] = <<>>
    BY <1>x DEF Execute
  <2>. QED
    BY <2>1, <2>2, <2>3, <2>4 DEF BaseInv
<1>1. CASE StartNext
  <2>1. Startup[replayed + 1] \in Ops
    <3>1. replayed + 1 \in 1..Len(Startup)
      BY <1>0, <1>1, SymbolsAssumption, LenProperties DEF StartNext, TypeControl
    <3>. QED
      BY <3>1, SymbolsAssumption, ElementOfSeq
  <2>. QED
    BY <1>1, <1>x, <2>1 DEF StartNext, streams
<1>2. ASSUME NEW o \in Ops, Seed(o) \/ Declare(o) PROVE BaseInv'
  BY <1>2, <1>x DEF Seed, Declare, streams
<1>3. CASE ReplayNext
  <2>1. journal[replayed + 1] \in Ops
    <3>1. replayed + 1 \in 1..Len(journal)
      BY <1>0, <1>3, LenProperties DEF ReplayNext, TypeControl, TypeData
    <3>. QED
      BY <1>0, <3>1, ElementOfSeq DEF TypeData
  <2>. QED
    BY <1>3, <1>x, <2>1 DEF ReplayNext, streams
<1>4. CASE InsertRow
  <2>1. PICK row \in Row :
           /\ staged' = Append(staged, row)
           /\ symbols' = [symbols EXCEPT ![Table[op]] = Append(@, row)]
    BY <1>4, InsertedRow
  <2>2. /\ pc = "rows" /\ Len(staged) < Len(Rows[op]) /\ UNCHANGED <<pc, op, base>>
    BY <1>4 DEF InsertRow
  <2>3. Table[op] \in Tables /\ symbols[Table[op]] \in Seq(Row) /\ Rows[op] \in Seq(Value)
    BY <1>0, SymbolsAssumption DEF TypeData
  <2>4. symbols'[Table[op]] = Append(symbols[Table[op]], row)
    BY <1>0, <2>1, <2>3 DEF TypeData
  <2>5. /\ Len(symbols'[Table[op]]) = Len(symbols[Table[op]]) + 1
        /\ Len(staged') = Len(staged) + 1
    BY <1>0, <2>1, <2>3, <2>4, AppendProperties DEF TypeData
  <2>6. Len(staged) \in Nat /\ Len(Rows[op]) \in Nat /\ base \in Nat
    BY <1>0, <2>3, LenProperties DEF TypeData, TypeControl
  <2>7. Len(symbols[Table[op]]) = base + Len(staged)
    BY <2>2 DEF IInv, BaseInv
  <2>. QED
    BY <2>2, <2>5, <2>6, <2>7 DEF BaseInv
<1>5. CASE InstanceWrites
  BY <1>5 DEF InstanceWrites, running, IInv, BaseInv
<1>6. CASE UNCHANGED vars
  BY <1>6 DEF vars, IInv, BaseInv
<1>7. ASSUME pc' \in {"rows", "sql"}, ~(UNCHANGED vars)
      PROVE  \/ StartNext \/ ReplayNext \/ InsertRow \/ InstanceWrites
             \/ \E o \in Ops : Seed(o) \/ Declare(o)
  BY <1>7 DEF Next, Started, OpenBoundary, CloseBoundary, Reset, Truncate,
     TruncateFails, BeginTest, EndTest, RunStatement, StatementFails, Commit,
     RowFails, CommitFails, Return, Raise
<1>. QED
  BY <1>1, <1>2, <1>3, <1>4, <1>5, <1>6, <1>7 DEF BaseInv

(* The inductive invariant holds throughout.                               *)
LEMMA SymbolsInvariant == Spec => []IInv
<1>1. Init => IInv
  <2>1. ASSUME Init PROVE IInv
    <3>1. Empty \in [Tables -> Seq(Row)] /\ [t \in Tables |-> 0] \in [Tables -> Nat]
      BY DEF Empty
    <3>. QED
      BY <2>1, <3>1 DEF Init, IInv, TypeOK, BaseInv
  <2>. QED
    BY <2>1
<1>2. IInv /\ [Next]_vars => IInv'
  <2>1. ASSUME IInv, [Next]_vars PROVE IInv'
    <3>1. TypeData' /\ TypeControl' /\ BaseInv'
      BY <2>1, DataStep, ControlStep, BaseStep
    <3>2. TypeOK'
      BY <3>1 DEF TypeOK, TypeData, TypeControl
    <3>. QED
      BY <3>1, <3>2 DEF IInv
  <2>. QED
    BY <2>1
<1>. QED
  BY <1>1, <1>2, PTL DEF Spec

(* Type correctness of the engine's streams, of the database it writes to  *)
(* and of the session around it.                                           *)
THEOREM SymbolsTypeCorrect == Spec => []TypeOK
<1>1. IInv => TypeOK
  BY DEF IInv
<1>. QED
  BY <1>1, SymbolsInvariant, PTL

-----------------------------------------------------------------------------
(* When no insert runs, the streams are the rows of the inserts that have  *)
(* returned, except from the moment a wipe has cleared them to the moment  *)
(* one has succeeded; meanwhile nothing is executed.                       *)
Quiet == /\ pc \in {"idle", "sql", "replay"}
         /\ pc # "idle" \/ phase \in {"test", "boundary"} \/ tests = 0

StreamInv ==
  /\ AddressesNameRows
  /\ Quiet => symbols = applied
  /\ pc = "wipe" => symbols = Empty
  /\ pc \in {"wipe", "replay"} => mode = "reset"
  /\ phase \in {"starting", "boundary"} => tests = 0
  /\ phase = "starting" => mode = "start"
  /\ pc # "idle" => /\ mode = "start" => phase = "starting"
                    /\ mode = "seed" => phase = "boundary"
                    /\ mode = "test" => phase = "test"
                    /\ mode = "reset" => tests # 0 /\ phase = "between"

(* What a rollback leaves is what was there when the insert began.         *)
LEMMA RollbackToApplied ==
  ASSUME IInv, StreamInv, pc = "rows"
  PROVE  RolledBack = applied
<1>1. TypeData /\ TypeControl
  BY TypeParts DEF IInv
<1>2. /\ Table[op] \in Tables /\ symbols \in [Tables -> Seq(Row)]
      /\ applied \in [Tables -> Seq(Row)] /\ staged \in Seq(Row)
  BY <1>1, SymbolsAssumption DEF TypeData
<1>3. symbols[Table[op]] = applied[Table[op]] \o staged
  BY <1>2 DEF StreamInv, AddressesNameRows
<1>4. \A t \in Tables \ {Table[op]} : symbols[t] = applied[t]
  <2>1. ASSUME NEW t \in Tables \ {Table[op]} PROVE symbols[t] = applied[t]
    <3>1. symbols[t] = applied[t] \o <<>>
      BY <2>1 DEF StreamInv, AddressesNameRows
    <3>2. applied[t] \in Seq(Row)
      BY <1>2
    <3>. QED
      BY <3>1, <3>2, ConcatEmptySeq
  <2>. QED
    BY <2>1
<1>5. applied[Table[op]] \in Seq(Row)
  BY <1>2
<1>6. /\ Len(symbols[Table[op]]) = Len(applied[Table[op]]) + Len(staged)
      /\ \A i \in 1..Len(applied[Table[op]]) + Len(staged) :
           symbols[Table[op]][i] = IF i <= Len(applied[Table[op]]) THEN applied[Table[op]][i]
                                   ELSE staged[i - Len(applied[Table[op]])]
  BY <1>2, <1>3, <1>5, ConcatProperties
<1>7. base = Len(applied[Table[op]])
  <2>1. Len(symbols[Table[op]]) = base + Len(staged)
    BY DEF IInv, BaseInv
  <2>2. base \in Nat /\ Len(staged) \in Nat /\ Len(applied[Table[op]]) \in Nat
    BY <1>1, <1>2, <1>5, LenProperties DEF TypeControl
  <2>. QED
    BY <1>6, <2>1, <2>2
<1>8. SubSeq(symbols[Table[op]], 1, base) = applied[Table[op]]
  <2> DEFINE cut == SubSeq(symbols[Table[op]], 1, base)
  <2>1. /\ cut \in Seq(Row) /\ Len(cut) = Len(applied[Table[op]])
        /\ \A i \in 1..base : cut[i] = symbols[Table[op]][i]
    BY <1>7, RollbackType
  <2>2. Len(applied[Table[op]]) \in Nat /\ Len(staged) \in Nat
    BY <1>2, <1>5, LenProperties
  <2>3. \A i \in 1..Len(cut) : cut[i] = applied[Table[op]][i]
    BY <1>6, <1>7, <2>1, <2>2
  <2>. QED
    BY <1>5, <2>1, <2>3, SeqEqual
<1>9. RolledBack \in [Tables -> Seq(Row)]
  BY RollbackType
<1>10. \A t \in Tables : RolledBack[t] = applied[t]
  BY <1>2, <1>4, <1>8 DEF RolledBack
<1>. QED
  BY <1>2, <1>9, <1>10

(* An operation begins on a quiet engine.                                  *)
LEMMA ExecuteStep ==
  ASSUME IInv, symbols = applied, NEW o \in Ops, Execute(o), UNCHANGED <<symbols, applied>>
  PROVE  AddressesNameRows' /\ symbols' = applied' /\ pc' \in {"sql", "rows"}
<1>1. \A t \in Tables : applied[t] \in Seq(Row)
  BY DEF IInv, TypeOK
<1>2. staged' = <<>> /\ pc' \in {"sql", "rows"}
  BY DEF Execute
<1>3. \A t \in Tables : applied[t] = applied[t] \o <<>>
  BY <1>1, ConcatEmptySeq
<1>. QED
  BY <1>2, <1>3 DEF AddressesNameRows

(* The invariant of the streams, for a suite whose session fixtures are    *)
(* set up before the first test.                                           *)
LEMMA StreamStep ==
  ASSUME ~LateSeeding, IInv, StreamInv, [Next]_vars
  PROVE  StreamInv'
<1>0. TypeData /\ TypeControl
  BY TypeParts DEF IInv
<1>1. CASE StartNext
  <2>1. Startup[replayed + 1] \in Ops
    <3>1. replayed + 1 \in 1..Len(Startup)
      BY <1>0, <1>1, SymbolsAssumption, LenProperties DEF StartNext, TypeControl
    <3>. QED
      BY <3>1, SymbolsAssumption, ElementOfSeq
  <2>2. symbols = applied /\ UNCHANGED <<symbols, applied, mode, phase, tests>>
    BY <1>1 DEF StartNext, StreamInv, Quiet, streams, history, session
  <2>3. AddressesNameRows' /\ symbols' = applied' /\ pc' \in {"sql", "rows"}
    BY <1>1, <2>1, <2>2, ExecuteStep DEF StartNext
  <2>. QED
    BY <1>1, <2>2, <2>3 DEF StartNext, StreamInv, Quiet
<1>2. CASE Started
  BY <1>2 DEF Started, StreamInv, AddressesNameRows, Quiet, running, history
<1>3. CASE OpenBoundary
  <2>1. tests = 0
    BY <1>0, <1>3 DEF OpenBoundary, TypeControl
  <2>2. pc = "idle" /\ pc' = "idle" /\ phase' = "boundary" /\ tests' = tests
    BY <1>3 DEF OpenBoundary
  <2>3. UNCHANGED <<symbols, applied, mode>>
    BY <1>3 DEF OpenBoundary, streams, history
  <2>. QED
    BY <2>1, <2>2, <2>3 DEF StreamInv, AddressesNameRows, Quiet
<1>4. CASE CloseBoundary \/ EndTest
  BY <1>4 DEF CloseBoundary, EndTest, StreamInv, AddressesNameRows, Quiet,
     streams, running, history
<1>5. CASE BeginTest
  BY <1>5 DEF BeginTest, StreamInv, AddressesNameRows, Quiet, streams, running, history
<1>6. ASSUME NEW o \in Ops, Seed(o) PROVE StreamInv'
  <2>1. symbols = applied /\ UNCHANGED <<symbols, applied, phase, tests>>
    BY <1>6 DEF Seed, StreamInv, Quiet, streams, history
  <2>2. AddressesNameRows' /\ symbols' = applied' /\ pc' \in {"sql", "rows"}
    BY <1>6, <2>1, ExecuteStep DEF Seed
  <2>. QED
    BY <1>6, <2>1, <2>2 DEF Seed, StreamInv, Quiet
<1>7. ASSUME NEW o \in Ops, Declare(o) PROVE StreamInv'
  <2>1. symbols = applied /\ UNCHANGED <<symbols, applied, phase, tests>>
    BY <1>7 DEF Declare, StreamInv, Quiet, streams, history
  <2>2. AddressesNameRows' /\ symbols' = applied' /\ pc' \in {"sql", "rows"}
    BY <1>7, <2>1, ExecuteStep DEF Declare
  <2>. QED
    BY <1>7, <2>1, <2>2 DEF Declare, StreamInv, Quiet
<1>8. CASE Reset
  <2>1. tests' # 0
    BY <1>0, <1>8 DEF Reset, TypeControl
  <2>. QED
    BY <1>8, <2>1 DEF Reset, StreamInv, AddressesNameRows, Quiet
<1>9. CASE Truncate
  BY <1>9 DEF Truncate, StreamInv, AddressesNameRows, Quiet, session
<1>10. CASE TruncateFails
  BY <1>10 DEF TruncateFails, StreamInv, AddressesNameRows, Quiet
<1>11. CASE ReplayNext
  <2>1. journal[replayed + 1] \in Ops
    <3>1. replayed + 1 \in 1..Len(journal)
      BY <1>0, <1>11, LenProperties DEF ReplayNext, TypeControl, TypeData
    <3>. QED
      BY <1>0, <3>1, ElementOfSeq DEF TypeData
  <2>2. symbols = applied /\ UNCHANGED <<symbols, applied, mode, phase, tests>>
    BY <1>11 DEF ReplayNext, StreamInv, Quiet, streams, history, session
  <2>3. AddressesNameRows' /\ symbols' = applied' /\ pc' \in {"sql", "rows"}
    BY <1>11, <2>1, <2>2, ExecuteStep DEF ReplayNext
  <2>. QED
    BY <1>11, <2>2, <2>3 DEF ReplayNext, StreamInv, Quiet
<1>12. CASE RunStatement
  <2>1. /\ symbols = applied /\ UNCHANGED <<symbols, applied, mode, phase, tests>>
        /\ pc = "sql" /\ pc' \in {"idle", "replay"} /\ (pc' = "replay" => mode = "reset")
    BY <1>12 DEF RunStatement, Return, StreamInv, Quiet
  <2>. QED
    BY <2>1 DEF StreamInv, AddressesNameRows, Quiet
<1>13. CASE StatementFails
  <2>1. /\ symbols = applied /\ UNCHANGED <<symbols, applied, mode, tests>>
        /\ pc = "sql" /\ pc' = "idle"
        /\ phase' \in {"ended", "test", "between"}
    BY <1>0, <1>13 DEF StatementFails, Raise, StreamInv, Quiet, TypeControl
  <2>. QED
    BY <2>1 DEF StreamInv, AddressesNameRows, Quiet
<1>14. CASE InsertRow
  <2>1. PICK row \in Row :
           /\ staged' = Append(staged, row)
           /\ symbols' = [symbols EXCEPT ![Table[op]] = Append(@, row)]
    BY <1>14, InsertedRow
  <2>2. pc = "rows" /\ UNCHANGED <<op, pc, mode, phase, tests, applied>>
    BY <1>14 DEF InsertRow, session, history
  <2>3. Table[op] \in Tables
    BY <1>0, SymbolsAssumption DEF TypeData
  <2>4. ASSUME NEW t \in Tables
        PROVE  symbols'[t] = applied[t] \o (IF t = Table[op] THEN staged' ELSE <<>>)
    <3>1. symbols[t] = applied[t] \o (IF t = Table[op] THEN staged ELSE <<>>)
      BY <2>2 DEF StreamInv, AddressesNameRows
    <3>2. CASE t # Table[op]
      BY <1>0, <2>1, <3>1, <3>2 DEF TypeData
    <3>3. CASE t = Table[op]
      <4>1. symbols'[t] = Append(applied[t] \o staged, row)
        BY <1>0, <2>1, <3>1, <3>3 DEF TypeData
      <4>2. /\ applied[t] \in Seq(Row) /\ staged \in Seq(Row) /\ <<row>> \in Seq(Row)
            /\ applied[t] \o staged \in Seq(Row)
        BY <1>0, ConcatProperties DEF TypeData
      <4>3. Append(applied[t] \o staged, row) = (applied[t] \o staged) \o <<row>>
        BY <4>2, AppendIsConcat
      <4>4. (applied[t] \o staged) \o <<row>> = applied[t] \o (staged \o <<row>>)
        <5>1. \A a \in Seq(Row), b \in Seq(Row), c \in Seq(Row) : (a \o b) \o c = a \o (b \o c)
          BY ConcatAssociative
        <5>. QED
          BY <4>2, <5>1, Zenon
      <4>5. staged \o <<row>> = staged'
        BY <2>1, <4>2, AppendIsConcat
      <4>. QED
        BY <3>3, <4>1, <4>3, <4>4, <4>5
    <3>. QED
      BY <3>2, <3>3
  <2>. QED
    BY <2>2, <2>4 DEF StreamInv, AddressesNameRows, Quiet
<1>15. CASE Commit
  <2>1. pc = "rows" /\ UNCHANGED <<symbols, mode, phase, tests>>
        /\ pc' \in {"idle", "replay"} /\ (pc' = "replay" => mode = "reset")
    BY <1>15 DEF Commit, Return
  <2>2. Table[op] \in Tables
    BY <1>0, SymbolsAssumption DEF TypeData
  <2>3. \A t \in Tables : applied'[t] = symbols[t]
    <3>1. ASSUME NEW t \in Tables PROVE applied'[t] = symbols[t]
      <4>1. symbols[t] = applied[t] \o (IF t = Table[op] THEN staged ELSE <<>>)
        BY <2>1 DEF StreamInv, AddressesNameRows
      <4>2. applied'[t] = IF t = Table[op] THEN applied[t] \o staged ELSE applied[t]
        BY <1>0, <1>15 DEF Commit, TypeData
      <4>3. applied[t] \o <<>> = applied[t]
        BY <1>0, ConcatEmptySeq DEF TypeData
      <4>. QED
        BY <4>1, <4>2, <4>3
    <3>. QED
      BY <3>1
  <2>4. symbols' = applied'
    <3>1. applied' \in [Tables -> Seq(Row)]
      BY DataStep DEF TypeData
    <3>. QED
      BY <1>0, <2>1, <2>3, <3>1 DEF TypeData
  <2>. QED
    BY <2>1, <2>4 DEF StreamInv, AddressesNameRows, Quiet
<1>16. CASE RowFails \/ CommitFails
  <2>1. /\ pc = "rows" /\ pc' = "idle" /\ symbols' = RolledBack
        /\ UNCHANGED <<applied, mode, tests>>
        /\ phase' \in {"ended", "test", "between"}
    BY <1>0, <1>16 DEF RowFails, CommitFails, Raise, TypeControl
  <2>2. symbols' = applied'
    BY <2>1, RollbackToApplied
  <2>. QED
    BY <2>1, <2>2 DEF StreamInv, AddressesNameRows, Quiet
<1>17. CASE InstanceWrites
  BY <1>17 DEF InstanceWrites, StreamInv, AddressesNameRows, Quiet, running, session, history
<1>18. CASE UNCHANGED vars
  BY <1>18 DEF vars, StreamInv, AddressesNameRows, Quiet
<1>. QED
  BY <1>1, <1>2, <1>3, <1>4, <1>5, <1>6, <1>7, <1>8, <1>9, <1>10, <1>11, <1>12,
     <1>13, <1>14, <1>15, <1>16, <1>17, <1>18 DEF Next

(* An address names the row that has its place among the rows the data     *)
(* plane has applied since the last reset: for every set of operations,    *)
(* whatever fails and whatever the instance writes, in a suite whose       *)
(* session fixtures seed the baseline before the first test.               *)
THEOREM AddressesAreRight ==
  ASSUME ~LateSeeding
  PROVE  Spec => []AddressesNameRows
<1>1. Init => StreamInv
  BY DEF Init, StreamInv, AddressesNameRows, Quiet
<1>2. IInv /\ StreamInv /\ [Next]_vars => StreamInv'
  BY StreamStep
<1>3. StreamInv => AddressesNameRows
  BY DEF StreamInv
<1>. QED
  BY <1>1, <1>2, <1>3, SymbolsInvariant, PTL DEF Spec

-----------------------------------------------------------------------------
(* The streams as the references see them.                                 *)
Shown == IF pc = "rows" THEN RolledBack ELSE symbols

(* Beginning an operation shows nothing.                                   *)
LEMMA ExecuteShowsNothing ==
  ASSUME IInv, pc # "rows", NEW o \in Ops, Execute(o), UNCHANGED symbols
  PROVE  Shown' = Shown
<1>1. Table[o] \in Tables /\ symbols \in [Tables -> Seq(Row)]
  BY SymbolsAssumption DEF IInv, TypeOK
<1>2. SubSeq(symbols[Table[o]], 1, Len(symbols[Table[o]])) = symbols[Table[o]]
  BY <1>1, SubSeqFull
<1>3. op' = o /\ base' = Len(symbols[Table[o]]) /\ symbols' = symbols
  BY DEF Execute
<1>4. RolledBack' = [symbols EXCEPT ![Table[o]] = symbols[Table[o]]]
  BY <1>2, <1>3 DEF RolledBack
<1>. QED
  BY <1>1, <1>3, <1>4 DEF Shown

(* A row inserted inside the transaction shows nothing.                    *)
LEMMA InsertShowsNothing ==
  ASSUME IInv, InsertRow
  PROVE  Shown' = Shown /\ outcome' = outcome
<1>1. PICK row \in Row : symbols' = [symbols EXCEPT ![Table[op]] = Append(@, row)]
  BY InsertedRow
<1>2. pc = "rows" /\ UNCHANGED <<pc, op, base, outcome>>
  BY DEF InsertRow
<1>3. /\ Table[op] \in Tables /\ symbols \in [Tables -> Seq(Row)]
      /\ symbols[Table[op]] \in Seq(Row) /\ staged \in Seq(Row) /\ base \in Nat
      /\ Len(symbols[Table[op]]) = base + Len(staged)
  BY <1>2, SymbolsAssumption DEF IInv, TypeOK, BaseInv
<1> DEFINE old == symbols[Table[op]]
           new == Append(old, row)
           cut == SubSeq(new, 1, base)
<1>4. new \in Seq(Row) /\ Len(new) = Len(old) + 1 /\ \A i \in 1..Len(old) : new[i] = old[i]
  <2>1. old \in Seq(Row)
    BY <1>3
  <2>. HIDE DEF old
  <2>. QED
    BY <2>1, AppendProperties
<1>5. base \in Int /\ 1 \in Int /\ base <= Len(old) /\ Len(old) \in Nat
  BY <1>3, LenProperties
<1>6. \A i \in 1..base : new[i] = old[i] /\ new[i] \in Row
  BY <1>3, <1>4, <1>5, ElementOfSeq
<1>7. /\ cut \in Seq(Row) /\ Len(cut) = (IF 1 <= base THEN base - 1 + 1 ELSE 0)
      /\ \A i \in 1..(base - 1 + 1) : cut[i] = new[1 + i - 1]
  <2>. HIDE DEF new
  <2>. QED
    BY <1>5, <1>6, SubSeqProperties
<1>8. Len(cut) = base /\ \A i \in 1..base : cut[i] = old[i]
  <2>. HIDE DEF new, old, cut
  <2>. QED
    BY <1>3, <1>6, <1>7
<1>9. SubSeq(old, 1, base) = cut
  <2>1. /\ SubSeq(old, 1, base) \in Seq(Row) /\ Len(SubSeq(old, 1, base)) = base
        /\ \A i \in 1..base : SubSeq(old, 1, base)[i] = old[i]
    BY <1>2, RollbackType
  <2>. HIDE DEF old, cut
  <2>. QED
    BY <1>7, <1>8, <2>1, SeqEqual
<1>10. RolledBack = [symbols EXCEPT ![Table[op]] = cut]
  BY <1>9 DEF RolledBack
<1>11. RolledBack' = [symbols' EXCEPT ![Table[op]] = cut]
  BY <1>1, <1>2, <1>3 DEF RolledBack
<1>12. symbols' \in [Tables -> Seq(Row)]
  BY <1>1, <1>3, <1>4
<1>13. RolledBack' = RolledBack
  <2>. HIDE DEF cut, new, old
  <2>. QED
    BY <1>1, <1>3, <1>10, <1>11, <1>12
<1>. QED
  BY <1>2, <1>13 DEF Shown

(* A commit shows the rows of the insert, all of them and at the end of    *)
(* their stream.                                                           *)
LEMMA CommitShowsRows ==
  ASSUME IInv, Commit
  PROVE  Contract!Inserted(op)
<1>1. /\ pc = "rows" /\ Len(staged) = Len(Rows[op]) /\ outcome' = "ok"
      /\ symbols' = symbols /\ pc' # "rows"
  BY DEF Commit, Return
<1>2. /\ Table[op] \in Tables /\ symbols \in [Tables -> Seq(Row)]
      /\ Len(symbols[Table[op]]) = base + Len(staged)
  BY <1>1, SymbolsAssumption DEF IInv, TypeOK, BaseInv
<1>3. Shown = RolledBack /\ Shown' = symbols
  BY <1>1 DEF Shown
<1>4. /\ RolledBack[Table[op]] = SubSeq(symbols[Table[op]], 1, base)
      /\ \A u \in Tables \ {Table[op]} : RolledBack[u] = symbols[u]
  BY <1>2 DEF RolledBack
<1>5. Len(RolledBack[Table[op]]) = base
  BY <1>1, <1>4, RollbackType
<1>6. /\ Len(Shown'[Table[op]]) = Len(Shown[Table[op]]) + Len(Rows[op])
      /\ SubSeq(Shown'[Table[op]], 1, Len(Shown[Table[op]])) = Shown[Table[op]]
      /\ \A u \in Tables \ {Table[op]} : Shown'[u] = Shown[u]
  BY <1>1, <1>2, <1>3, <1>4, <1>5
<1>. QED
  BY <1>1, <1>6 DEF Contract!Inserted, Shown

(* A raw statement has no address.                                         *)
LEMMA StatementShowsNothing ==
  ASSUME IInv, RunStatement
  PROVE  Contract!Inserted(op)
<1>1. /\ pc = "sql" /\ outcome' = "ok" /\ symbols' = symbols /\ pc' # "rows"
  BY DEF RunStatement, Return
<1>2. /\ Table[op] \in Tables /\ symbols[Table[op]] \in Seq(Row) /\ Rows[op] = <<>>
  BY <1>1, SymbolsAssumption DEF IInv, TypeOK, BaseInv
<1>3. Shown = symbols /\ Shown' = symbols
  BY <1>1 DEF Shown
<1>4. SubSeq(symbols[Table[op]], 1, Len(symbols[Table[op]])) = symbols[Table[op]]
  BY <1>2, SubSeqFull
<1>5. Len(Rows[op]) = 0 /\ Len(symbols[Table[op]]) \in Nat
  BY <1>2, LenProperties
<1>6. /\ Len(Shown'[Table[op]]) = Len(Shown[Table[op]]) + Len(Rows[op])
      /\ SubSeq(Shown'[Table[op]], 1, Len(Shown[Table[op]])) = Shown[Table[op]]
      /\ \A u \in Tables \ {Table[op]} : Shown'[u] = Shown[u]
  BY <1>3, <1>4, <1>5
<1>. QED
  BY <1>1, <1>6 DEF Contract!Inserted, Shown

(* Every step is one of the contract, or shows nothing.                    *)
LEMMA ContractStep ==
  ASSUME IInv, [Next]_vars
  PROVE  [Contract!Next]_<<Shown, outcome>>
<1>0. TypeData /\ TypeControl
  BY TypeParts DEF IInv
<1>1. CASE StartNext
  <2>1. Startup[replayed + 1] \in Ops
    <3>1. replayed + 1 \in 1..Len(Startup)
      BY <1>0, <1>1, SymbolsAssumption, LenProperties DEF StartNext, TypeControl
    <3>. QED
      BY <3>1, SymbolsAssumption, ElementOfSeq
  <2>2. pc # "rows" /\ Execute(Startup[replayed + 1]) /\ UNCHANGED <<symbols, outcome>>
    BY <1>1 DEF StartNext, streams
  <2>. QED
    BY <2>1, <2>2, ExecuteShowsNothing
<1>2. ASSUME NEW o \in Ops, Seed(o) \/ Declare(o) PROVE UNCHANGED <<Shown, outcome>>
  <2>1. pc # "rows" /\ Execute(o) /\ UNCHANGED <<symbols, outcome>>
    BY <1>2 DEF Seed, Declare, streams
  <2>. QED
    BY <2>1, ExecuteShowsNothing
<1>3. CASE ReplayNext
  <2>1. journal[replayed + 1] \in Ops
    <3>1. replayed + 1 \in 1..Len(journal)
      BY <1>0, <1>3, LenProperties DEF ReplayNext, TypeControl, TypeData
    <3>. QED
      BY <1>0, <3>1, ElementOfSeq DEF TypeData
  <2>2. pc # "rows" /\ Execute(journal[replayed + 1]) /\ UNCHANGED <<symbols, outcome>>
    BY <1>3 DEF ReplayNext, streams
  <2>. QED
    BY <2>1, <2>2, ExecuteShowsNothing
<1>4. CASE Started \/ OpenBoundary \/ CloseBoundary \/ BeginTest \/ EndTest
  <2>1. pc # "rows" /\ pc' # "rows" /\ UNCHANGED <<symbols, outcome>>
    BY <1>4 DEF Started, OpenBoundary, CloseBoundary, BeginTest, EndTest, streams
  <2>. QED
    BY <2>1 DEF Shown
<1>5. CASE Truncate \/ TruncateFails
  <2>1. pc # "rows" /\ pc' # "rows" /\ UNCHANGED <<symbols, outcome>>
    BY <1>5 DEF Truncate, TruncateFails
  <2>. QED
    BY <2>1 DEF Shown
<1>6. CASE Reset
  <2>1. pc' # "rows" /\ symbols' = Empty /\ outcome' = outcome
    BY <1>6 DEF Reset
  <2>. QED
    BY <2>1 DEF Empty, Shown, Contract!Next, Contract!Cleared
<1>7. CASE RunStatement \/ Commit
  <2>1. op \in Ops /\ Contract!Inserted(op)
    BY <1>0, <1>7, CommitShowsRows, StatementShowsNothing DEF TypeData
  <2>. QED
    BY <2>1 DEF Contract!Next
<1>8. CASE StatementFails
  <2>1. pc # "rows" /\ pc' # "rows" /\ symbols' = symbols /\ outcome' = "error"
    BY <1>8 DEF StatementFails, Raise
  <2>. QED
    BY <2>1 DEF Shown, Contract!Next, Contract!Refused
<1>9. CASE RowFails \/ CommitFails
  <2>1. pc = "rows" /\ pc' # "rows" /\ symbols' = RolledBack /\ outcome' = "error"
    BY <1>9 DEF RowFails, CommitFails, Raise
  <2>. QED
    BY <2>1 DEF Shown, Contract!Next, Contract!Refused
<1>10. CASE InsertRow
  BY <1>10, InsertShowsNothing
<1>11. CASE InstanceWrites
  <2>1. UNCHANGED <<symbols, pc, op, base, outcome>>
    BY <1>11 DEF InstanceWrites, running
  <2>. QED
    BY <2>1 DEF Shown, RolledBack
<1>12. CASE UNCHANGED vars
  BY <1>12 DEF vars, Shown, RolledBack
<1>. QED
  BY <1>1, <1>2, <1>3, <1>4, <1>5, <1>6, <1>7, <1>8, <1>9, <1>10, <1>11, <1>12 DEF Next

(* The streams keep the contract references rely on, for every set of      *)
(* operations and whatever fails: an insert that returns has appended all  *)
(* of its rows at the end of its own stream, one that raises has left      *)
(* every address as it was, and only a reset takes addresses away.         *)
THEOREM StreamsKeepContract == Spec => KeepsAddresses
<1>1. Init => Contract!Init
  BY DEF Init, Contract!Init, Empty
<1>2. IInv /\ [Next]_vars => [Contract!Next]_<<Shown, outcome>>
  BY ContractStep
<1>. QED
  BY <1>1, <1>2, SymbolsInvariant, PTL DEF Spec, KeepsAddresses, Contract!Spec, Shown

-----------------------------------------------------------------------------
(***************************************************************************)
(* The references of the baseline.  What the journal makes of the streams  *)
(* is the same whenever it is replayed: after its first j operations the   *)
(* stream of table t has L[j][t] rows, and the row at p is the one K[t][p] *)
(* names, an operation and a row of it.  L and K are what the session has  *)
(* seen while it seeded; the invariant says that there are such.           *)
(***************************************************************************)
Name == Int \X Nat
NameOf(row)   == <<row.by, row.nth>>
Upto(L, j, t) == L[j][t]
At(K, t, p)   == K[t][p]
Size(o, t)    == IF t = Table[o] THEN Len(Rows[o]) ELSE 0

(* What the m-th value of an operation, the j-th of the journal, names: a  *)
(* row of the operations before it or one of its own before the m-th.      *)
Points(K, j, o, k, v, p, a, name) ==
  IF v.form = "ref"
  THEN /\ p <= a + (IF v.table = Table[o] THEN k ELSE 0)
       /\ name = IF p <= a THEN At(K, v.table, p) ELSE <<j, p - a>>
  ELSE name = <<0, 0>>
Names(L, K, j, o, m, name) ==
  LET v == Rows[o][m] IN Points(K, j, o, m - 1, v, v.at + 1, Upto(L, j - 1, v.table), name)
Binds(L, K, j, o, names) == \A m \in 1..Len(names) : Names(L, K, j, o, m, names[m])

(* The streams grow by the rows of o, the operation after the c-th.        *)
Grown(L, K, M, N, c, o) ==
  \A t \in Tables : /\ Upto(M, c + 1, t) = Upto(L, c, t) + Size(o, t)
                    /\ \A p \in 1..Upto(L, c, t) : At(N, t, p) = At(K, t, p)
                    /\ \A m \in 1..Size(o, t) : At(N, t, Upto(L, c, t) + m) = <<c + 1, m>>

Rising(L, n) ==
  \A j \in 0..n : \A t \in Tables : /\ Upto(L, j, t) \in Nat /\ Upto(L, j, t) <= Upto(L, n, t)
                                    /\ Upto(L, 0, t) = 0
Entry(L, K, j, o, names) ==
  Grown(L, K, L, K, j - 1, o) /\ Len(names) = Len(Rows[o]) /\ Binds(L, K, j, o, names)
Shape(L, K, log, names) ==
  /\ Rising(L, Len(names)) /\ Len(names) <= Len(log)
  /\ \A j \in 1..Len(names) : Entry(L, K, j, log[j], names[j])

(* Rows that are those of the first c operations, and of the one after.    *)
Covers(L, K, c, rows) ==
  \A t \in Tables : /\ Len(rows[t]) = Upto(L, c, t)
                    /\ \A p \in 1..Len(rows[t]) : NameOf(rows[t][p]) = At(K, t, p)
Numbered(c, rows) == \A k \in 1..Len(rows) : NameOf(rows[k]) = <<c + 1, k>>
Staging(L, K, c, o, rows, names) ==
  Numbered(c, rows) /\ Len(names) = Len(rows) /\ Binds(L, K, c + 1, o, names)

LEMMA SizeFacts ==
  ASSUME NEW o \in Ops
  PROVE  /\ Len(Rows[o]) \in Nat /\ Rows[o] \in Seq(Value)
         /\ \A t \in Tables : Size(o, t) \in Nat /\ (t # Table[o] => Size(o, t) = 0)
         /\ \A m \in 1..Len(Rows[o]) :
              Rows[o][m].table \in Tables /\ Rows[o][m].at \in Nat
<1>1. Rows[o] \in Seq(Value)
  BY SymbolsAssumption
<1>2. \A m \in 1..Len(Rows[o]) : Rows[o][m] \in Value
  BY <1>1, ElementOfSeq
<1>3. \A v \in Value : v.table \in Tables /\ v.at \in Nat
  BY DEF Value
<1>4. Len(Rows[o]) \in Nat
  BY <1>1, LenProperties
<1>. QED
  BY <1>1, <1>2, <1>3, <1>4 DEF Size

(* One reference can name one thing.                                       *)
LEMMA BindsOnce ==
  ASSUME NEW L, NEW K, NEW j, NEW o, NEW a \in Seq(Name), NEW b \in Seq(Name),
         Len(a) = Len(b), Binds(L, K, j, o, a), Binds(L, K, j, o, b)
  PROVE  a = b
<1>1. ASSUME NEW m \in 1..Len(a) PROVE a[m] = b[m]
  BY DEF Binds, Names, Points
<1>. QED
  BY <1>1, SeqEqual

(* L and K up to the n-th operation decide what the next one names.        *)
Agree(L, K, M, N, n) ==
  \A t \in Tables : /\ \A j \in 0..n : Upto(M, j, t) = Upto(L, j, t)
                    /\ \A p \in 1..Upto(L, n, t) : At(N, t, p) = At(K, t, p)

LEMMA NamesKept ==
  ASSUME NEW L, NEW K, NEW M, NEW N, NEW n \in Nat, Rising(L, n), Agree(L, K, M, N, n),
         NEW j \in 1..n + 1, NEW o \in Ops, NEW names, Len(names) = Len(Rows[o]), Binds(L, K, j, o, names)
  PROVE  Binds(M, N, j, o, names)
<1>. SUFFICES ASSUME NEW m \in 1..Len(names) PROVE Names(M, N, j, o, m, names[m])
  BY DEF Binds
<1>1. PICK v : v = Rows[o][m]
  OBVIOUS
<1>2. v.table \in Tables /\ v.at \in Nat
  BY <1>1, SizeFacts
<1>3. j - 1 \in 0..n
  OBVIOUS
<1>4. PICK seen, all : seen = Upto(L, j - 1, v.table) /\ all = Upto(L, n, v.table)
  OBVIOUS
<1>5. seen \in Nat /\ all \in Nat /\ seen <= all /\ Upto(M, j - 1, v.table) = seen
  <2>1. n \in 0..n
    OBVIOUS
  <2>. QED
    BY <1>2, <1>3, <1>4, <2>1 DEF Rising, Agree
<1>6. v.at + 1 <= seen => At(N, v.table, v.at + 1) = At(K, v.table, v.at + 1)
  <2>1. v.at + 1 <= seen => v.at + 1 \in 1..all
    BY <1>2, <1>5
  <2>2. \A p \in 1..all : At(N, v.table, p) = At(K, v.table, p)
    BY <1>2, <1>4 DEF Agree
  <2>. QED
    BY <2>1, <2>2
<1>7. Names(L, K, j, o, m, names[m])
  BY DEF Binds
<1>. QED
  BY <1>1, <1>4, <1>5, <1>6, <1>7 DEF Names, Points

LEMMA EntryKept ==
  ASSUME NEW L, NEW K, NEW M, NEW N, NEW n \in Nat, Rising(L, n), Agree(L, K, M, N, n),
         NEW j \in 1..n, NEW o \in Ops, NEW names, Entry(L, K, j, o, names)
  PROVE  Entry(M, N, j, o, names)
<1>1. Len(names) = Len(Rows[o]) /\ Binds(L, K, j, o, names) /\ Grown(L, K, L, K, j - 1, o)
  BY DEF Entry
<1>2. j \in 1..n + 1 /\ j - 1 \in 0..n /\ j \in 0..n /\ n \in 0..n /\ (j - 1) + 1 = j
  OBVIOUS
<1>3. Binds(M, N, j, o, names)
  BY <1>1, <1>2, NamesKept
<1>4. ASSUME NEW t \in Tables
      PROVE  /\ Upto(M, j, t) = Upto(M, j - 1, t) + Size(o, t)
             /\ \A m \in 1..Size(o, t) : At(N, t, Upto(M, j - 1, t) + m) = <<j, m>>
  <2>1. PICK a, b, s, all : a = Upto(L, j - 1, t) /\ b = Upto(L, j, t) /\ s = Size(o, t) /\ all = Upto(L, n, t)
    OBVIOUS
  <2>2. Upto(M, j - 1, t) = a /\ Upto(M, j, t) = b
    BY <1>2, <2>1 DEF Agree
  <2>3. a \in Nat /\ b \in Nat /\ all \in Nat /\ b <= all
    BY <1>2, <2>1 DEF Rising
  <2>4. s \in Nat /\ b = a + s /\ \A m \in 1..s : At(K, t, a + m) = <<j, m>>
    BY <1>1, <1>2, <2>1, SizeFacts DEF Grown
  <2>5. \A m \in 1..s : a + m \in 1..all
    BY <2>3, <2>4
  <2>6. \A p \in 1..all : At(N, t, p) = At(K, t, p)
    BY <2>1 DEF Agree
  <2>7. \A m \in 1..s : At(N, t, a + m) = <<j, m>>
    BY <2>4, <2>5, <2>6
  <2>. QED
    BY <2>1, <2>2, <2>4, <2>7
<1>. QED
  BY <1>1, <1>2, <1>3, <1>4 DEF Entry, Grown

(* One more operation is recorded.                                         *)
Recorded(log, next, n, o) ==
  n + 1 <= Len(next) /\ next[n + 1] = o /\ \A j \in 1..n : next[j] = log[j]

LEMMA GrowthExists ==
  ASSUME NEW L, NEW K, NEW n \in Nat, NEW o \in Ops, Rising(L, n)
  PROVE  \E M, N : /\ Agree(L, K, M, N, n) /\ Grown(L, K, M, N, n, o) /\ Grown(M, N, M, N, n, o)
                   /\ Rising(M, n + 1)
<1>. DEFINE M == [j \in 0..n + 1 |-> IF j <= n THEN L[j] ELSE [t \in Tables |-> Upto(L, n, t) + Size(o, t)]]
            N == [t \in Tables |-> [p \in Nat |-> IF p <= Upto(L, n, t) THEN At(K, t, p)
                                                  ELSE <<n + 1, p - Upto(L, n, t)>>]]
<1>1. n \in 0..n + 1 /\ n + 1 \in 0..n + 1 /\ n \in 0..n /\ 0 \in 0..n /\ ~(n + 1 <= n)
      /\ \A j \in 0..n : j \in 0..n + 1 /\ j <= n
  OBVIOUS
<1>2. \A j \in 0..n : M[j] = L[j]
  BY <1>1
<1>3. M[n + 1] = [t \in Tables |-> Upto(L, n, t) + Size(o, t)]
  BY <1>1
<1>4. \A t \in Tables, p \in Nat :
        N[t][p] = IF p <= Upto(L, n, t) THEN At(K, t, p) ELSE <<n + 1, p - Upto(L, n, t)>>
  OBVIOUS
<1>. HIDE DEF M, N
<1>5. \A j \in 0..n : \A t \in Tables : Upto(M, j, t) = Upto(L, j, t)
  BY <1>2 DEF Upto
<1>6. \A t \in Tables : Upto(M, n + 1, t) = Upto(L, n, t) + Size(o, t)
  BY <1>3 DEF Upto
<1>7. \A t \in Tables, p \in Nat :
        At(N, t, p) = IF p <= Upto(L, n, t) THEN At(K, t, p) ELSE <<n + 1, p - Upto(L, n, t)>>
  BY <1>4 DEF At
<1>8. ASSUME NEW t \in Tables
      PROVE  /\ \A p \in 1..Upto(L, n, t) : At(N, t, p) = At(K, t, p)
             /\ \A m \in 1..Size(o, t) : At(N, t, Upto(L, n, t) + m) = <<n + 1, m>>
             /\ Upto(L, 0, t) = 0 /\ Upto(M, n + 1, t) \in Nat
             /\ \A j \in 0..n + 1 : Upto(M, j, t) \in Nat /\ Upto(M, j, t) <= Upto(M, n + 1, t)
  <2>1. PICK a, s : a = Upto(L, n, t) /\ s = Size(o, t)
    OBVIOUS
  <2>2. a \in Nat /\ s \in Nat /\ Upto(L, 0, t) = 0 /\ Upto(M, n + 1, t) = a + s
    BY <1>1, <1>6, <2>1, SizeFacts DEF Rising
  <2>3. \A p \in Nat : At(N, t, p) = IF p <= a THEN At(K, t, p) ELSE <<n + 1, p - a>>
    BY <1>7, <2>1
  <2>4. \A p \in 1..a : p \in Nat /\ p <= a
    BY <2>2
  <2>5. \A m \in 1..s : a + m \in Nat /\ ~(a + m <= a) /\ (a + m) - a = m
    BY <2>2
  <2>6. ASSUME NEW m \in 1..s PROVE At(N, t, a + m) = <<n + 1, m>>
    <3>1. PICK p \in Nat : p = a + m /\ ~(p <= a) /\ p - a = m
      BY <2>5
    <3>. QED
      BY <2>3, <3>1
  <2>7. ASSUME NEW j \in 0..n + 1 PROVE Upto(M, j, t) \in Nat /\ Upto(M, j, t) <= a + s
    <3>1. CASE j = n + 1
      BY <2>2, <3>1
    <3>2. CASE j \in 0..n
      <4>1. PICK b \in Nat : b = Upto(M, j, t) /\ b <= a
        BY <1>5, <2>1, <3>2 DEF Rising
      <4>. QED
        BY <2>2, <4>1
    <3>. QED
      BY <3>1, <3>2
  <2>. QED
    BY <2>1, <2>2, <2>3, <2>4, <2>6, <2>7
<1>9. Agree(L, K, M, N, n)
  BY <1>5, <1>8 DEF Agree
<1>10. Grown(L, K, M, N, n, o)
  BY <1>6, <1>8 DEF Grown
<1>11. Grown(M, N, M, N, n, o)
  BY <1>1, <1>5, <1>6, <1>8 DEF Grown
<1>12. Rising(M, n + 1)
  <2>1. \A t \in Tables : Upto(M, 0, t) = 0
    BY <1>1, <1>5, <1>8
  <2>. QED
    BY <1>8, <2>1 DEF Rising
<1>. QED
  BY <1>9, <1>10, <1>11, <1>12

LEMMA ShapeNext ==
  ASSUME NEW L, NEW K, NEW log \in Seq(Ops), NEW next \in Seq(Ops), NEW names \in Seq(Seq(Name)),
         NEW o \in Ops, NEW b \in Seq(Name), NEW n, n = Len(names),
         Shape(L, K, log, names), Recorded(log, next, n, o),
         Len(b) = Len(Rows[o]), Binds(L, K, n + 1, o, b)
  PROVE  \E M, N : Shape(M, N, next, Append(names, b)) /\ Grown(L, K, M, N, n, o)
<1>. DEFINE more == Append(names, b)
<1>1. n \in Nat /\ n <= Len(log) /\ Rising(L, n)
  BY LenProperties DEF Shape
<1>2. /\ Len(more) = n + 1 /\ more[n + 1] = b
      /\ \A j \in 1..n : more[j] = names[j]
  BY AppendProperties
<1>3. PICK M, N : /\ Agree(L, K, M, N, n) /\ Grown(L, K, M, N, n, o) /\ Grown(M, N, M, N, n, o)
                  /\ Rising(M, n + 1)
  BY <1>1, GrowthExists
<1>. HIDE DEF more
<1>4. ASSUME NEW j \in 1..n PROVE Entry(M, N, j, next[j], more[j])
  <2>1. next[j] = log[j] /\ more[j] = names[j] /\ Entry(L, K, j, log[j], names[j])
    BY <1>2 DEF Shape, Recorded
  <2>2. log[j] \in Ops
    <3>1. j \in 1..Len(log)
      BY <1>1, LenProperties
    <3>. QED
      BY <3>1, ElementOfSeq
  <2>. QED
    BY <1>1, <1>3, <2>1, <2>2, EntryKept
<1>5. Entry(M, N, n + 1, next[n + 1], more[n + 1])
  <2>1. n + 1 \in 1..n + 1 /\ (n + 1) - 1 = n
    BY <1>1
  <2>2. Binds(M, N, n + 1, o, b)
    BY <1>1, <1>3, <2>1, NamesKept
  <2>3. next[n + 1] = o
    BY DEF Recorded
  <2>. QED
    BY <1>2, <1>3, <2>1, <2>2, <2>3 DEF Entry
<1>6. \A j \in 1..n + 1 : j \in 1..n \/ j = n + 1
  BY <1>1
<1>7. Shape(M, N, next, more)
  BY <1>2, <1>3, <1>4, <1>5, <1>6 DEF Shape, Recorded
<1>. QED
  BY <1>3, <1>7 DEF more

(* The rows of one more operation are there.                               *)
LEMMA CoversNext ==
  ASSUME NEW L, NEW K, NEW M, NEW N, NEW c \in Nat, NEW o \in Ops,
         NEW rows \in [Tables -> Seq(Row)], NEW st \in Seq(Row), Len(st) = Len(Rows[o]),
         Covers(L, K, c, rows), Numbered(c, st), Grown(L, K, M, N, c, o)
  PROVE  Covers(M, N, c + 1, [rows EXCEPT ![Table[o]] = @ \o st])
<1>. DEFINE more == [rows EXCEPT ![Table[o]] = @ \o st]
<1>. SUFFICES ASSUME NEW t \in Tables
              PROVE  /\ Len(more[t]) = Upto(M, c + 1, t)
                     /\ \A p \in 1..Len(more[t]) : NameOf(more[t][p]) = At(N, t, p)
  BY DEF Covers
<1>1. PICK q, a, s : q = rows[t] /\ a = Upto(L, c, t) /\ s = Size(o, t)
  OBVIOUS
<1>2. q \in Seq(Row) /\ Len(q) \in Nat /\ Len(st) \in Nat /\ s \in Nat
  BY <1>1, LenProperties, SizeFacts
<1>3. Len(q) = a /\ \A p \in 1..a : NameOf(q[p]) = At(K, t, p)
  BY <1>1 DEF Covers
<1>4. /\ Upto(M, c + 1, t) = a + s /\ \A p \in 1..a : At(N, t, p) = At(K, t, p)
      /\ \A m \in 1..s : At(N, t, a + m) = <<c + 1, m>>
  BY <1>1 DEF Grown
<1>5. CASE t # Table[o]
  <2>1. more[t] = q /\ s = 0
    BY <1>1, <1>5, SizeFacts
  <2>2. a + s = a
    BY <1>2, <1>3, <2>1
  <2>. HIDE DEF more
  <2>3. PICK r : r = more[t]
    OBVIOUS
  <2>4. Len(r) = a /\ \A p \in 1..a : NameOf(r[p]) = At(N, t, p)
    BY <1>3, <1>4, <2>1, <2>3
  <2>. QED
    BY <1>4, <2>2, <2>3, <2>4
<1>6. CASE t = Table[o]
  <2>1. more[t] = q \o st /\ s = Len(st)
    BY <1>1, <1>6 DEF Size
  <2>. HIDE DEF more
  <2>2. PICK r : r = more[t]
    OBVIOUS
  <2>3. /\ Len(r) = Len(q) + Len(st)
        /\ \A p \in 1..Len(q) + Len(st) : r[p] = IF p <= Len(q) THEN q[p] ELSE st[p - Len(q)]
    <3>1. /\ Len(q \o st) = Len(q) + Len(st)
          /\ \A p \in 1..Len(q) + Len(st) : (q \o st)[p] = IF p <= Len(q) THEN q[p] ELSE st[p - Len(q)]
      BY <1>2, ConcatProperties
    <3>. QED
      BY <2>1, <2>2, <3>1
  <2>4. ASSUME NEW p \in 1..Len(r) PROVE NameOf(r[p]) = At(N, t, p)
    <3>1. CASE p <= a
      <4>1. p \in 1..a /\ r[p] = q[p]
        BY <1>2, <1>3, <2>3, <3>1
      <4>. QED
        BY <1>3, <1>4, <4>1
    <3>2. CASE ~(p <= a)
      <4>1. PICK k \in 1..Len(st) : p = a + k /\ p - Len(q) = k
        <5>1. p - a \in 1..Len(st) /\ p = a + (p - a) /\ p - Len(q) = p - a
          BY <1>2, <1>3, <2>3, <3>2
        <5>. QED
          BY <5>1
      <4>2. r[p] = st[k]
        BY <1>3, <2>3, <3>2, <4>1
      <4>3. NameOf(st[k]) = <<c + 1, k>>
        BY DEF Numbered
      <4>. QED
        BY <1>4, <2>1, <4>1, <4>2, <4>3
    <3>. QED
      BY <3>1, <3>2
  <2>. QED
    BY <1>3, <1>4, <2>1, <2>2, <2>3, <2>4
<1>. QED
  BY <1>5, <1>6

(* The row at a place of one sequence after another.                       *)
LEMMA ConcatPlace ==
  ASSUME NEW q \in Seq(Row), NEW own \in Seq(Row), NEW p \in Nat \ {0}, NEW seen, seen = q \o own
  PROVE  /\ p \in DOMAIN seen <=> p <= Len(q) + Len(own)
         /\ p <= Len(q) => p \in 1..Len(q) /\ seen[p] = q[p]
         /\ p <= Len(q) + Len(own) /\ ~(p <= Len(q)) =>
              p - Len(q) \in 1..Len(own) /\ seen[p] = own[p - Len(q)]
         /\ p \in DOMAIN seen => seen[p] \in Row
<1>1. Len(q) \in Nat /\ Len(own) \in Nat
  BY LenProperties
<1>2. /\ Len(seen) = Len(q) + Len(own) /\ seen \in Seq(Row)
      /\ \A i \in 1..Len(q) + Len(own) : seen[i] = IF i <= Len(q) THEN q[i] ELSE own[i - Len(q)]
  BY ConcatProperties
<1>3. DOMAIN seen = 1..Len(seen)
  BY <1>2, LenProperties
<1>4. PICK a, b, d \in Nat : a = Len(q) /\ b = Len(own) /\ d = Len(seen) /\ d = a + b
  BY <1>1, <1>2
<1>5. PICK D : D = DOMAIN seen
  OBVIOUS
<1>6. D = 1..d
  BY <1>3, <1>4, <1>5
<1>7. p \in D <=> p <= a + b
  BY <1>4, <1>6
<1>8. p <= a + b => p \in 1..a + b
  BY <1>4
<1>9. p \in D => seen[p] \in Row
  BY <1>2, <1>4, <1>6, ElementOfSeq
<1>10. p <= a => p \in 1..a /\ p <= a + b
  BY <1>4
<1>11. p <= a + b /\ ~(p <= a) => p - a \in 1..b
  BY <1>4
<1>12. p <= a => seen[p] = q[p]
  BY <1>2, <1>4, <1>8, <1>10
<1>13. p <= a + b /\ ~(p <= a) => seen[p] = own[p - a]
  BY <1>2, <1>4, <1>8
<1>. QED
  BY <1>4, <1>5, <1>7, <1>9, <1>10, <1>11, <1>12, <1>13

(* A value that names a row does so by its place.                          *)
Addressed(L, K, c, rows, st, o, v, seen, p, a) ==
  /\ c \in Nat /\ rows \in [Tables -> Seq(Row)] /\ st \in Seq(Row) /\ v \in Value
  /\ Covers(L, K, c, rows) /\ Numbered(c, st)
  /\ seen = rows[v.table] \o (IF v.table = Table[o] THEN st ELSE <<>>)
  /\ p = v.at + 1 /\ a = Upto(L, c, v.table)

LEMMA NamedRow ==
  ASSUME NEW L, NEW K, NEW c, NEW rows, NEW st, NEW o, NEW v, NEW seen, NEW p, NEW a,
         Addressed(L, K, c, rows, st, o, v, seen, p, a)
  PROVE  /\ p \in DOMAIN seen <=> p <= a + (IF v.table = Table[o] THEN Len(st) ELSE 0)
         /\ p \in DOMAIN seen =>
              /\ seen[p] \in Row
              /\ NameOf(seen[p]) = IF p <= a THEN At(K, v.table, p) ELSE <<c + 1, p - a>>
<1>0. /\ c \in Nat /\ rows \in [Tables -> Seq(Row)] /\ st \in Seq(Row) /\ v \in Value
      /\ Covers(L, K, c, rows) /\ Numbered(c, st)
      /\ seen = rows[v.table] \o (IF v.table = Table[o] THEN st ELSE <<>>)
      /\ p = v.at + 1 /\ a = Upto(L, c, v.table)
  BY DEF Addressed
<1>1. v.table \in Tables /\ v.at \in Nat
  BY <1>0 DEF Value
<1>2. PICK q, own : q = rows[v.table] /\ own = IF v.table = Table[o] THEN st ELSE <<>>
  OBVIOUS
<1>3. /\ q \in Seq(Row) /\ own \in Seq(Row) /\ Len(q) \in Nat /\ Len(own) \in Nat /\ p \in Nat \ {0}
      /\ Len(own) = IF v.table = Table[o] THEN Len(st) ELSE 0
  <2>1. <<>> \in Seq(Row) /\ Len(<<>>) = 0
    OBVIOUS
  <2>2. own \in Seq(Row) /\ Len(own) = IF v.table = Table[o] THEN Len(st) ELSE 0
    BY <1>0, <1>2, <2>1
  <2>3. q \in Seq(Row) /\ p \in Nat \ {0}
    BY <1>0, <1>1, <1>2
  <2>. QED
    BY <2>2, <2>3, LenProperties
<1>4. Len(q) = a /\ \A i \in 1..a : NameOf(q[i]) = At(K, v.table, i)
  BY <1>0, <1>1, <1>2 DEF Covers
<1>5. /\ p \in DOMAIN seen <=> p <= a + Len(own)
      /\ p <= a => p \in 1..a /\ seen[p] = q[p]
      /\ p <= a + Len(own) /\ ~(p <= a) => p - a \in 1..Len(own) /\ seen[p] = own[p - a]
      /\ p \in DOMAIN seen => seen[p] \in Row
  <2>1. seen = q \o own
    BY <1>0, <1>2
  <2>2. /\ p \in DOMAIN seen <=> p <= Len(q) + Len(own)
        /\ p <= Len(q) => p \in 1..Len(q) /\ seen[p] = q[p]
        /\ p <= Len(q) + Len(own) /\ ~(p <= Len(q)) =>
             p - Len(q) \in 1..Len(own) /\ seen[p] = own[p - Len(q)]
        /\ p \in DOMAIN seen => seen[p] \in Row
    BY ONLY <1>3, <2>1, ConcatPlace
  <2>. QED
    BY <1>4, <2>2
<1>6. p <= a => NameOf(seen[p]) = At(K, v.table, p)
  BY <1>4, <1>5
<1>7. ASSUME p <= a + Len(own), ~(p <= a) PROVE NameOf(seen[p]) = <<c + 1, p - a>>
  <2>1. p - a \in 1..Len(own) /\ seen[p] = own[p - a]
    BY <1>5, <1>7
  <2>2. own = st
    <3>1. Len(own) # 0
      BY <1>3, <2>1
    <3>. QED
      BY <1>2, <1>3, <3>1
  <2>. QED
    BY <1>0, <2>1, <2>2 DEF Numbered
<1>8. p \in DOMAIN seen <=> p <= a + IF v.table = Table[o] THEN Len(st) ELSE 0
  BY <1>3, <1>5
<1>9. ASSUME p \in DOMAIN seen
      PROVE  NameOf(seen[p]) = IF p <= a THEN At(K, v.table, p) ELSE <<c + 1, p - a>>
  BY <1>5, <1>6, <1>7, <1>9
<1>10. p \in DOMAIN seen => seen[p] \in Row
  BY <1>5
<1>. QED
  BY <1>8, <1>9, <1>10

-----------------------------------------------------------------------------
(* What the references have resolved to: an operation and a row of it.     *)
NameInv == bound \in Seq(Name) /\ first \in Seq(Seq(Name)) /\ again \in Seq(Seq(Name))

(* An operation runs, and whether it is of the baseline.                   *)
Busy == pc \in {"sql", "rows"}
Replaying == mode = "reset" /\ pc \in {"sql", "rows", "replay"}

(* How far the start and the reset are.                                    *)
PlaceInv ==
  /\ phase = "starting" => /\ replayed <= Len(Startup)
                           /\ IF Busy THEN replayed = Len(first) + 1 /\ op = Startup[replayed]
                              ELSE replayed = Len(first)
  /\ phase \notin {"starting", "ended"} => Len(first) = Len(journal)
  /\ mode = "reset" \/ phase = "test" => tests # 0
  /\ Replaying => /\ replayed <= Len(journal)
                  /\ IF Busy THEN replayed = Len(again) + 1 /\ op = journal[replayed]
                     ELSE replayed = Len(again)
  /\ pc = "sql" => staged = <<>> /\ bound = <<>>

LEMMA NamedType ==
  ASSUME TypeData, Len(staged) < Len(Rows[op]), Resolves(Pending)
  PROVE  Named(Pending) \in Name
<1>1. PICK v : v = Pending
  OBVIOUS
<1>2. v \in Value /\ v.table \in Tables
  BY <1>1, PendingType DEF Value
<1>3. CASE v.form = "ref"
  <2>1. symbols[v.table] \in Seq(Row) /\ v.at + 1 \in DOMAIN symbols[v.table]
    BY <1>1, <1>2, <1>3 DEF TypeData, Resolves
  <2>2. symbols[v.table][v.at + 1] \in Row
    BY <2>1, LenProperties, ElementOfSeq
  <2>. QED
    BY <1>1, <1>3, <2>2 DEF Named, Row, Name
<1>4. CASE v.form # "ref"
  BY <1>1, <1>4 DEF Named, Name
<1>. QED
  BY <1>3, <1>4

LEMMA NameStep ==
  ASSUME IInv, NameInv, [Next]_vars
  PROVE  NameInv'
<1>0. TypeData
  BY TypeParts DEF IInv
<1>x. ASSUME NEW o, Execute(o), UNCHANGED <<first, again>> PROVE NameInv'
  BY <1>x DEF Execute, NameInv
<1>1. CASE StartNext \/ ReplayNext
  BY <1>1, <1>x DEF StartNext, ReplayNext, history
<1>2. ASSUME NEW o \in Ops, Seed(o) \/ Declare(o) PROVE NameInv'
  BY <1>2, <1>x DEF Seed, Declare, history
<1>3. CASE Truncate
  BY <1>3 DEF Truncate, NameInv, running
<1>4. CASE RunStatement \/ Commit
  <2>1. Append(first, bound) \in Seq(Seq(Name)) /\ Append(again, bound) \in Seq(Seq(Name))
    BY AppendProperties DEF NameInv
  <2>. QED
    BY <1>4, <2>1 DEF RunStatement, Commit, Return, NameInv, running
<1>5. CASE InsertRow
  <2>1. Named(Pending) \in Name
    BY <1>0, <1>5, NamedType DEF InsertRow
  <2>2. Append(bound, Named(Pending)) \in Seq(Name)
    BY <2>1, AppendProperties DEF NameInv
  <2>. QED
    BY <1>5, <2>2 DEF InsertRow, NameInv, history
<1>6. CASE \/ Started \/ OpenBoundary \/ CloseBoundary \/ Reset \/ TruncateFails \/ BeginTest
           \/ EndTest \/ StatementFails \/ RowFails \/ CommitFails \/ InstanceWrites \/ UNCHANGED vars
  <2>1. UNCHANGED <<bound, first, again>>
    BY <1>6 DEF Started, OpenBoundary, CloseBoundary, Reset, TruncateFails, BeginTest, EndTest,
       StatementFails, RowFails, CommitFails, InstanceWrites, Raise, running, history, vars
  <2>. QED
    BY <2>1 DEF NameInv
<1>. QED
  BY <1>1, <1>2, <1>3, <1>4, <1>5, <1>6 DEF Next

LEMMA PlaceStep ==
  ASSUME ~LateSeeding, IInv, StreamInv, NameInv, PlaceInv, [Next]_vars
  PROVE  PlaceInv'
<1>0. TypeControl /\ TypeData
  BY TypeParts DEF IInv
<1>n. /\ Len(first) \in Nat /\ Len(again) \in Nat /\ Len(journal) \in Nat /\ Len(Startup) \in Nat
      /\ replayed \in Nat /\ tests \in Nat
  BY <1>0, SymbolsAssumption, LenProperties DEF NameInv, TypeData, TypeControl
<1>x. ASSUME NEW o, Execute(o)
      PROVE  op' = o /\ Busy' /\ staged' = <<>> /\ bound' = <<>>
  BY <1>x DEF Execute, Busy
<1>1. CASE StartNext
  <2>1. /\ phase = "starting" /\ mode = "start" /\ ~Busy /\ replayed < Len(Startup)
        /\ replayed' = replayed + 1 /\ op' = Startup[replayed'] /\ Busy' /\ staged' = <<>> /\ bound' = <<>>
        /\ UNCHANGED <<mode, phase, tests, first, again, journal>>
    BY <1>1, <1>x DEF StartNext, streams, session, history, Busy, StreamInv
  <2>2. replayed' <= Len(Startup) /\ replayed' = Len(first) + 1
    BY <1>n, <2>1 DEF PlaceInv
  <2>. QED
    BY <2>1, <2>2 DEF PlaceInv, Replaying
<1>2. CASE Started
  <2>1. /\ phase = "starting" /\ phase' = "between" /\ pc = "idle" /\ pc' = "idle" /\ mode = "start"
        /\ replayed = Len(Startup) /\ journal' = Startup
        /\ UNCHANGED <<mode, tests, first>>
    BY <1>2 DEF Started, history, StreamInv
  <2>2. Len(first) = Len(Startup)
    BY <2>1 DEF PlaceInv, Busy
  <2>. QED
    BY <2>1, <2>2 DEF PlaceInv, Replaying
<1>3. CASE OpenBoundary \/ CloseBoundary \/ EndTest
  <2>1. /\ phase \notin {"starting", "ended"} /\ phase' \in {"between", "boundary"}
        /\ pc = "idle" /\ pc' = "idle" /\ UNCHANGED <<mode, tests, first, journal>>
    BY <1>3 DEF OpenBoundary, CloseBoundary, EndTest, history, streams
  <2>. QED
    BY <2>1 DEF PlaceInv, Replaying
<1>4. ASSUME NEW o \in Ops, Seed(o) \/ Declare(o) PROVE PlaceInv'
  <2>1. /\ phase \in {"boundary", "test"} /\ phase' = phase /\ mode' \in {"seed", "test"}
        /\ Busy' /\ staged' = <<>> /\ bound' = <<>> /\ UNCHANGED <<tests, first, journal>>
    BY <1>4, <1>x DEF Seed, Declare, history, streams
  <2>. QED
    BY <2>1 DEF PlaceInv, Replaying
<1>5. CASE Reset
  <2>1. /\ phase = "between" /\ phase' = phase /\ pc' = "wipe" /\ tests' # 0
        /\ UNCHANGED <<first, journal>>
    BY <1>5, <1>n DEF Reset, history
  <2>. QED
    BY <2>1 DEF PlaceInv, Replaying
<1>6. CASE Truncate
  <2>1. /\ pc' = "replay" /\ mode = "reset" /\ phase = "between" /\ UNCHANGED <<mode, phase, tests, first, journal>>
        /\ replayed' = 0 /\ again' = <<>>
    BY <1>6 DEF Truncate, StreamInv, session
  <2>2. Len(again') = 0 /\ 0 <= Len(journal)
    BY <1>n, <2>1
  <2>. QED
    BY <2>1, <2>2 DEF PlaceInv, Replaying, Busy
<1>7. CASE TruncateFails
  <2>1. /\ pc = "wipe" /\ pc' = "idle" /\ phase = "between" /\ phase' = "between"
        /\ UNCHANGED <<mode, tests, first, journal>>
    BY <1>7 DEF TruncateFails, StreamInv, history
  <2>. QED
    BY <2>1 DEF PlaceInv, Replaying
<1>8. CASE ReplayNext
  <2>1. /\ pc = "replay" /\ mode = "reset" /\ phase = "between" /\ ~Busy /\ Replaying /\ replayed < Len(journal)
        /\ replayed' = replayed + 1 /\ op' = journal[replayed'] /\ Busy' /\ staged' = <<>> /\ bound' = <<>>
        /\ UNCHANGED <<mode, phase, tests, first, again, journal>>
    BY <1>8, <1>x DEF ReplayNext, streams, session, history, Busy, Replaying, StreamInv
  <2>2. replayed' <= Len(journal) /\ replayed' = Len(again) + 1
    BY <1>n, <2>1 DEF PlaceInv
  <2>. QED
    BY <2>1, <2>2 DEF PlaceInv
<1>9. CASE BeginTest
  <2>1. /\ pc = "replay" /\ pc' = "idle" /\ phase = "between" /\ phase' = "test" /\ mode = "reset"
        /\ UNCHANGED <<mode, tests, first, journal>>
    BY <1>9 DEF BeginTest, StreamInv, history, streams
  <2>. QED
    BY <2>1 DEF PlaceInv, Replaying
<1>10. CASE RunStatement \/ Commit
  <2>1. Busy /\ ~Busy' /\ Return /\ pc' # "sql" /\ UNCHANGED <<mode, phase, tests, replayed>>
    BY <1>10 DEF RunStatement, Commit, Return, Busy
  <2>2. /\ Len(Append(first, bound)) = Len(first) + 1 /\ Len(Append(again, bound)) = Len(again) + 1
        /\ Len(Append(journal, op)) = Len(journal) + 1
    BY <1>0, AppendProperties DEF NameInv, TypeData
  <2>3. CASE mode = "start"
    <3>1. phase = "starting" /\ first' = Append(first, bound)
      BY <2>1, <2>3 DEF StreamInv, Busy, Return
    <3>. QED
      BY <1>n, <2>1, <2>2, <2>3, <3>1 DEF PlaceInv, Replaying
  <2>4. CASE mode = "seed"
    <3>1. phase = "boundary" /\ first' = Append(first, bound) /\ journal' = Append(journal, op)
      BY <2>1, <2>4 DEF StreamInv, Busy, Return
    <3>. QED
      BY <1>n, <2>1, <2>2, <2>4, <3>1 DEF PlaceInv, Replaying
  <2>5. CASE mode = "reset"
    <3>1. /\ phase = "between" /\ again' = Append(again, bound) /\ UNCHANGED <<first, journal>>
      BY <2>1, <2>5 DEF StreamInv, Busy, Return
    <3>2. Replaying
      BY <2>1, <2>5 DEF Replaying, Busy
    <3>. QED
      BY <1>n, <2>1, <2>2, <2>5, <3>1, <3>2 DEF PlaceInv
  <2>6. CASE mode = "test"
    <3>1. /\ phase = "test" /\ UNCHANGED <<first, journal>>
      BY <2>1, <2>6 DEF StreamInv, Busy, Return
    <3>. QED
      BY <2>1, <2>6, <3>1 DEF PlaceInv, Replaying
  <2>. QED
    BY <1>0, <2>3, <2>4, <2>5, <2>6 DEF TypeControl
<1>11. CASE StatementFails \/ RowFails \/ CommitFails
  <2>1. Busy /\ pc' = "idle" /\ Raise /\ UNCHANGED <<mode, tests, first, journal>>
    BY <1>11 DEF StatementFails, RowFails, CommitFails, Raise, Busy
  <2>2. \/ phase' = "ended" 
        \/ mode = "test" /\ phase = "test" /\ phase' = "test"
        \/ mode \in {"seed", "reset"} /\ phase \in {"between", "boundary"} /\ phase' = "between"
    BY <1>0, <2>1 DEF Raise, StreamInv, Busy, TypeControl
  <2>. QED
    BY <2>1, <2>2 DEF PlaceInv, Replaying
<1>12. CASE InsertRow
  <2>1. pc = "rows" /\ UNCHANGED <<pc, mode, phase, tests, first, again, journal, replayed, op>>
    BY <1>12 DEF InsertRow, session, history
  <2>. QED
    BY <2>1 DEF PlaceInv, Replaying, Busy
<1>13. CASE InstanceWrites \/ UNCHANGED vars
  <2>1. UNCHANGED <<pc, mode, phase, tests, first, again, journal, replayed, op, staged, bound>>
    BY <1>13 DEF InstanceWrites, vars, running, session, history
  <2>. QED
    BY <2>1 DEF PlaceInv, Replaying, Busy
<1>. QED
  BY <1>1, <1>2, <1>3, <1>4, <1>5, <1>6, <1>7, <1>8, <1>9, <1>10, <1>11, <1>12, <1>13 DEF Next

-----------------------------------------------------------------------------
(* The baseline: the startup operations, then the journal.                 *)
Log == IF phase \in {"starting", "ended"} THEN Startup ELSE journal

(* While the baseline is written, for the first time or again, the rows of *)
(* the inserts that returned are those of its operations so far.           *)
Tracked == tests = 0 \/ Replaying
Cur     == IF tests = 0 THEN Len(first) ELSE Len(again)

Same == \A i \in 1..Len(again) : again[i] = first[i]

RefAt(L, K) ==
  /\ Shape(L, K, Log, first)
  /\ Tracked => Covers(L, K, Cur, applied)
  /\ Tracked /\ Busy => Staging(L, K, Cur, op, staged, bound)
  /\ Replaying => Same

RefInv == \E L, K : RefAt(L, K)

CoreInv == IInv /\ StreamInv /\ NameInv /\ PlaceInv

LEMMA CoreFacts ==
  ASSUME CoreInv
  PROVE  /\ TypeData /\ TypeControl
         /\ Cur \in Nat /\ Len(first) \in Nat /\ Len(again) \in Nat /\ Len(staged) \in Nat
         /\ Log \in Seq(Ops) /\ Len(journal) \in Nat /\ Len(bound) \in Nat
         /\ Len(Rows[op]) \in Nat
<1>1. TypeData /\ TypeControl /\ NameInv
  BY TypeParts DEF CoreInv, IInv
<1>2. Len(first) \in Nat /\ Len(again) \in Nat /\ Len(staged) \in Nat /\ Len(journal) \in Nat
      /\ Len(bound) \in Nat
  BY <1>1, LenProperties DEF NameInv, TypeData
<1>3. Log \in Seq(Ops)
  BY <1>1, SymbolsAssumption DEF Log, TypeData
<1>4. Len(Rows[op]) \in Nat
  BY <1>1, SizeFacts DEF TypeData
<1>. QED
  BY <1>1, <1>2, <1>3, <1>4 DEF Cur

(* An operation of the baseline runs under the number it has there, and a  *)
(* replay is never ahead of what was recorded.                             *)
LEMMA NumberIsNext ==
  ASSUME CoreInv, Tracked, Busy
  PROVE  /\ Number = Cur + 1 /\ mode # "test"
         /\ mode = "reset" => /\ Replaying /\ Cur = Len(again) /\ Cur + 1 <= Len(first)
                              /\ op = Log[Cur + 1] /\ Log = journal
         /\ mode # "reset" => tests = 0 /\ Cur = Len(first)
<1>1. CoreInv /\ TypeControl /\ Len(first) \in Nat /\ Len(again) \in Nat /\ Len(journal) \in Nat
  BY CoreFacts
<1>2. CASE mode = "test"
  BY <1>1, <1>2 DEF CoreInv, StreamInv, PlaceInv, Tracked, Replaying, Busy
<1>3. CASE mode = "start"
  BY <1>1, <1>3 DEF CoreInv, StreamInv, PlaceInv, Number, Cur, Busy
<1>4. CASE mode = "seed"
  BY <1>1, <1>4 DEF CoreInv, StreamInv, PlaceInv, Number, Cur, Busy
<1>5. CASE mode = "reset"
  <2>1. phase = "between" /\ tests # 0 /\ Replaying
    BY <1>1, <1>5 DEF CoreInv, StreamInv, Replaying, Busy
  <2>. QED
    BY <1>1, <1>5, <2>1 DEF CoreInv, PlaceInv, Number, Cur, Log
<1>. QED
  BY <1>1, <1>2, <1>3, <1>4, <1>5 DEF TypeControl

(* The row at a place of a stream while an insert of the baseline runs.    *)
LEMMA StreamRow ==
  ASSUME CoreInv, Tracked, pc = "rows", NEW L, NEW K, RefAt(L, K), NEW v \in Value,
         NEW p, p = v.at + 1, NEW a, a = Upto(L, Cur, v.table)
  PROVE  /\ p \in DOMAIN symbols[v.table] <=>
              p <= a + (IF v.table = Table[op] THEN Len(staged) ELSE 0)
         /\ p \in DOMAIN symbols[v.table] =>
              NameOf(symbols[v.table][p]) = IF p <= a THEN At(K, v.table, p) ELSE <<Cur + 1, p - a>>
<1>1. v.table \in Tables
  BY DEF Value
<1>2. symbols[v.table] = applied[v.table] \o (IF v.table = Table[op] THEN staged ELSE <<>>)
  BY <1>1 DEF CoreInv, StreamInv, AddressesNameRows
<1>3. Covers(L, K, Cur, applied) /\ Numbered(Cur, staged)
  BY DEF RefAt, Staging, Busy
<1>4. applied \in [Tables -> Seq(Row)] /\ staged \in Seq(Row) /\ Cur \in Nat
  BY CoreFacts DEF TypeData
<1>5. PICK seen : seen = symbols[v.table]
  OBVIOUS
<1>6. seen = applied[v.table] \o (IF v.table = Table[op] THEN staged ELSE <<>>)
  BY <1>2, <1>5
<1>7. /\ p \in DOMAIN seen <=> p <= a + (IF v.table = Table[op] THEN Len(staged) ELSE 0)
      /\ p \in DOMAIN seen =>
           NameOf(seen[p]) = IF p <= a THEN At(K, v.table, p) ELSE <<Cur + 1, p - a>>
  <2>1. PICK c : c = Cur
    OBVIOUS
  <2>2. a = Upto(L, c, v.table)
    BY <2>1
  <2>3. c \in Nat /\ Covers(L, K, c, applied) /\ Numbered(c, staged)
    BY <1>3, <1>4, <2>1
  <2>4. /\ p \in DOMAIN seen <=> p <= a + (IF v.table = Table[op] THEN Len(staged) ELSE 0)
        /\ p \in DOMAIN seen =>
             /\ seen[p] \in Row
             /\ NameOf(seen[p]) = IF p <= a THEN At(K, v.table, p) ELSE <<c + 1, p - a>>
    <3>1. Addressed(L, K, c, applied, staged, op, v, seen, p, a)
      BY <1>4, <1>6, <2>2, <2>3 DEF Addressed
    <3>. QED
      BY <3>1, NamedRow
  <2>. QED
    BY <2>1, <2>4
<1>. QED
  BY <1>5, <1>7

(* A value that resolves names what its place says it does.                *)
LEMMA NamesNext ==
  ASSUME CoreInv, Tracked, pc = "rows", NEW L, NEW K, RefAt(L, K),
         Len(staged) < Len(Rows[op]), Resolves(Pending)
  PROVE  Names(L, K, Cur + 1, op, Len(staged) + 1, Named(Pending))
<1>1. PICK v : v = Pending
  OBVIOUS
<1>2. v \in Value /\ v = Rows[op][Len(staged) + 1]
  BY <1>1, PendingType, CoreFacts DEF Pending
<1>3. CASE v.form # "ref"
  BY <1>1, <1>2, <1>3 DEF Names, Points, Named
<1>4. CASE v.form = "ref"
  <2>1. PICK p, a : p = v.at + 1 /\ a = Upto(L, Cur, v.table)
    OBVIOUS
  <2>2. p \in DOMAIN symbols[v.table]
    BY <1>1, <1>4, <2>1 DEF Resolves
  <2>3. /\ p <= a + (IF v.table = Table[op] THEN Len(staged) ELSE 0)
        /\ NameOf(symbols[v.table][p]) = IF p <= a THEN At(K, v.table, p) ELSE <<Cur + 1, p - a>>
    BY <1>2, <2>1, <2>2, StreamRow
  <2>4. Named(Pending) = NameOf(symbols[v.table][p])
    BY <1>1, <1>4, <2>1 DEF Named, NameOf
  <2>5. PICK c, j, m, k : c = Cur /\ j = Cur + 1 /\ k = Len(staged) /\ m = Len(staged) + 1
    OBVIOUS
  <2>6. j - 1 = c /\ m - 1 = k /\ a = Upto(L, c, v.table)
    BY <2>1, <2>5, CoreFacts
  <2>7. PICK name : name = Named(Pending)
    OBVIOUS
  <2>8. Points(K, j, op, k, v, p, a, name)
    BY <1>4, <2>3, <2>4, <2>5, <2>7 DEF Points
  <2>9. Names(L, K, j, op, m, name)
    BY <1>2, <2>1, <2>5, <2>6, <2>8 DEF Names
  <2>. QED
    BY <2>5, <2>7, <2>9
<1>. QED
  BY <1>3, <1>4

(* A reference of a replayed operation resolves, to what it was.           *)
LEMMA ReplaySame ==
  ASSUME CoreInv, RefInv, mode = "reset", pc = "rows",
         Len(staged) < Len(Rows[op]), Pending.form = "ref"
  PROVE  Resolves(Pending) /\ Named(Pending) = first[replayed][Len(staged) + 1]
<1>1. PICK L, K : RefAt(L, K)
  BY DEF RefInv
<1>2. Tracked /\ Busy /\ Replaying
  BY DEF Tracked, Busy, Replaying
<1>3. /\ Cur + 1 <= Len(first) /\ op = Log[Cur + 1] /\ Cur \in Nat /\ replayed = Cur + 1
      /\ Len(staged) \in Nat /\ Len(first) \in Nat /\ Len(Rows[op]) \in Nat
  BY <1>2, NumberIsNext, CoreFacts DEF CoreInv, PlaceInv
<1>4. PICK v : v = Pending
  OBVIOUS
<1>5. v \in Value /\ v = Rows[op][Len(staged) + 1] /\ v.form = "ref"
  BY <1>4, PendingType, CoreFacts DEF Pending
<1>6. PICK m, j : m = Len(staged) + 1 /\ j = Cur + 1
  OBVIOUS
<1>7. /\ j \in 1..Len(first) /\ j = replayed /\ j - 1 = Cur /\ m - 1 = Len(staged)
      /\ m \in 1..Len(Rows[op])
  BY <1>3, <1>6
<1>8. Entry(L, K, j, op, first[j])
  BY <1>1, <1>3, <1>6, <1>7 DEF RefAt, Shape
<1>9. Names(L, K, j, op, m, first[j][m])
  BY <1>7, <1>8 DEF Entry, Binds
<1>10. PICK p, a : p = v.at + 1 /\ a = Upto(L, Cur, v.table)
  OBVIOUS
<1>11. /\ p <= a + (IF v.table = Table[op] THEN Len(staged) ELSE 0)
       /\ first[j][m] = IF p <= a THEN At(K, v.table, p) ELSE <<j, p - a>>
  <2>1. PICK c, k, name : c = Cur /\ k = Len(staged) /\ name = first[j][m]
    OBVIOUS
  <2>2. j - 1 = c /\ m - 1 = k /\ a = Upto(L, c, v.table)
    BY <1>7, <1>10, <2>1
  <2>3. Names(L, K, j, op, m, name)
    BY <1>9, <2>1
  <2>4. Points(K, j, op, k, v, p, a, name)
    BY <1>5, <1>6, <1>10, <2>2, <2>3 DEF Names
  <2>5. /\ p <= a + (IF v.table = Table[op] THEN k ELSE 0)
        /\ name = IF p <= a THEN At(K, v.table, p) ELSE <<j, p - a>>
    BY ONLY <1>5, <2>4 DEF Points
  <2>. QED
    BY <2>1, <2>5
<1>12. /\ p \in DOMAIN symbols[v.table]
       /\ NameOf(symbols[v.table][p]) = IF p <= a THEN At(K, v.table, p) ELSE <<j, p - a>>
  BY <1>1, <1>2, <1>5, <1>6, <1>10, <1>11, StreamRow
<1>13. Resolves(Pending) /\ Named(Pending) = NameOf(symbols[v.table][p])
  BY <1>4, <1>5, <1>10, <1>12 DEF Resolves, Named, NameOf
<1>. QED
  BY <1>6, <1>7, <1>11, <1>12, <1>13

(* An operation of the baseline returns.                                   *)
LEMMA ReturnRecords ==
  ASSUME CoreInv, RefInv, Busy, Return, Len(staged) = Len(Rows[op]), op \in Ops,
         applied' = [applied EXCEPT ![Table[op]] = @ \o staged],
         pc' \notin {"sql", "rows"}, UNCHANGED <<mode, tests>>
  PROVE  RefInv'
<1>1. PICK L, K : RefAt(L, K)
  BY DEF RefInv
<1>0. /\ TypeControl /\ Cur \in Nat /\ Len(first) \in Nat /\ Log \in Seq(Ops) /\ Len(again) \in Nat
      /\ applied \in [Tables -> Seq(Row)] /\ staged \in Seq(Row) /\ journal \in Seq(Ops)
      /\ bound \in Seq(Name) /\ first \in Seq(Seq(Name)) /\ again \in Seq(Seq(Name))
  BY CoreFacts DEF TypeData, CoreInv, NameInv
<1>2. ~Busy' /\ phase' = phase
  BY DEF Busy, Return
<1>3. CASE ~Tracked
  <2>1. mode \notin {"start", "seed", "reset"} /\ tests # 0
    BY <1>3 DEF CoreInv, StreamInv, Tracked, Replaying, Busy
  <2>2. UNCHANGED <<first, journal>> /\ ~Tracked' /\ ~Replaying'
    BY <1>2, <2>1 DEF Return, Tracked, Replaying
  <2>3. Log' = Log
    BY <1>2, <2>2 DEF Log
  <2>. QED
    BY <1>1, <1>2, <2>2, <2>3 DEF RefInv, RefAt
<1>4. CASE Tracked /\ mode # "reset"
  <2>1. tests = 0 /\ Cur = Len(first) /\ mode \in {"start", "seed"}
    BY <1>0, <1>4, NumberIsNext DEF TypeControl
  <2>2. first' = Append(first, bound)
    BY <2>1 DEF Return
  <2>3. Log' \in Seq(Ops) /\ Recorded(Log, Log', Cur, op)
    <3>1. CASE mode = "start"
      <4>1. /\ phase = "starting" /\ Log = Startup /\ Log' = Startup
            /\ Cur + 1 <= Len(Startup) /\ Startup[Cur + 1] = op
        BY <1>2, <2>1, <3>1 DEF CoreInv, StreamInv, PlaceInv, Busy, Log
      <4>. QED
        BY <1>0, <4>1 DEF Recorded
    <3>2. CASE mode = "seed"
      <4>1. phase = "boundary" /\ Log = journal /\ Log' = Append(journal, op) /\ Cur = Len(journal)
        BY <1>2, <2>1, <3>2 DEF CoreInv, StreamInv, PlaceInv, Busy, Log, Return
      <4>2. /\ Append(journal, op) \in Seq(Ops) /\ Len(Append(journal, op)) = Len(journal) + 1
            /\ Append(journal, op)[Len(journal) + 1] = op
            /\ \A j \in 1..Len(journal) : Append(journal, op)[j] = journal[j]
        BY <1>0, AppendProperties
      <4>3. PICK more : more = Append(journal, op)
        OBVIOUS
      <4>4. more \in Seq(Ops) /\ Recorded(journal, more, Cur, op)
        BY <1>0, <4>1, <4>2, <4>3 DEF Recorded
      <4>. QED
        BY <4>1, <4>3, <4>4
    <3>. QED
      BY <2>1, <3>1, <3>2
  <2>4. Shape(L, K, Log, first) /\ Covers(L, K, Cur, applied) /\ Staging(L, K, Cur, op, staged, bound)
    BY <1>1, <1>4 DEF RefAt
  <2>5. Len(bound) = Len(Rows[op]) /\ Binds(L, K, Cur + 1, op, bound) /\ Numbered(Cur, staged)
    BY <2>4 DEF Staging
  <2>6. PICK next : next = Log'
    OBVIOUS
  <2>7. PICK M, N : Shape(M, N, next, Append(first, bound)) /\ Grown(L, K, M, N, Cur, op)
    BY <1>0, <2>1, <2>3, <2>4, <2>5, <2>6, ShapeNext
  <2>8. Covers(M, N, Cur + 1, applied')
    BY <1>0, <2>4, <2>5, <2>7, CoversNext
  <2>9. Cur' = Cur + 1 /\ ~Replaying'
    <3>1. Len(Append(first, bound)) = Len(first) + 1
      BY <1>0, AppendProperties
    <3>. QED
      BY <1>4, <2>1, <2>2, <3>1 DEF Cur, Replaying
  <2>10. RefAt(M, N)'
    BY <1>2, <2>2, <2>6, <2>7, <2>8, <2>9 DEF RefAt
  <2>. QED
    BY <2>10 DEF RefInv
<1>5. CASE Tracked /\ mode = "reset"
  <2>1. /\ tests # 0 /\ Cur = Len(again) /\ Cur + 1 <= Len(first) /\ op = Log[Cur + 1] /\ Replaying
    BY <1>0, <1>5, NumberIsNext DEF CoreInv, PlaceInv
  <2>2. again' = Append(again, bound) /\ UNCHANGED <<first, journal>> /\ Log' = Log
    BY <1>2, <1>5 DEF Return, Log
  <2>3. Shape(L, K, Log, first) /\ Covers(L, K, Cur, applied) /\ Staging(L, K, Cur, op, staged, bound) /\ Same
    BY <1>1, <1>5, <2>1 DEF RefAt
  <2>4. Len(bound) = Len(Rows[op]) /\ Binds(L, K, Cur + 1, op, bound) /\ Numbered(Cur, staged)
    BY <2>3 DEF Staging
  <2>5. PICK c, j : c = Cur /\ j = Cur + 1
    OBVIOUS
  <2>6. j \in 1..Len(first) /\ j - 1 = c
    BY <1>0, <2>1, <2>5
  <2>7. Entry(L, K, j, op, first[j])
    BY <2>1, <2>3, <2>5, <2>6 DEF Shape
  <2>8. Grown(L, K, L, K, c, op) /\ Len(first[j]) = Len(Rows[op]) /\ Binds(L, K, j, op, first[j])
    BY <2>6, <2>7 DEF Entry
  <2>9. first[j] \in Seq(Name)
    BY <1>0, <2>6, ElementOfSeq
  <2>10. first[j] = bound
    BY <1>0, <2>4, <2>5, <2>8, <2>9, BindsOnce
  <2>11. Covers(L, K, c + 1, applied')
    BY <1>0, <2>3, <2>4, <2>5, <2>8, CoversNext
  <2>12. Cur' = Cur + 1 /\ Same'
    <3>1. /\ Len(Append(again, bound)) = Len(again) + 1 /\ Append(again, bound)[Len(again) + 1] = bound
          /\ \A i \in 1..Len(again) : Append(again, bound)[i] = again[i]
      BY <1>0, AppendProperties
    <3>2. Cur' = Cur + 1
      BY <2>1, <2>2, <3>1 DEF Cur
    <3>3. ASSUME NEW i \in 1..Len(again) + 1 PROVE again'[i] = first[i]
      <4>1. CASE i = Len(again) + 1
        BY <2>1, <2>2, <2>5, <2>10, <3>1, <4>1
      <4>2. CASE i \in 1..Len(again)
        BY <2>2, <2>3, <3>1, <4>2 DEF Same
      <4>. QED
        BY <1>0, <4>1, <4>2
    <3>. QED
      BY <2>2, <3>1, <3>2, <3>3 DEF Same
  <2>13. RefAt(L, K)'
    BY <1>2, <2>2, <2>3, <2>5, <2>11, <2>12 DEF RefAt
  <2>. QED
    BY <2>13 DEF RefInv
<1>. QED
  BY <1>3, <1>4, <1>5

(* A row of an operation of the baseline joins it where its place says.    *)
LEMMA InsertStages ==
  ASSUME CoreInv, RefInv, InsertRow
  PROVE  RefInv'
<1>1. PICK L, K : RefAt(L, K)
  BY DEF RefInv
<1>2. /\ pc = "rows" /\ Len(staged) < Len(Rows[op]) /\ Resolves(Pending)
      /\ bound' = Append(bound, Named(Pending))
      /\ UNCHANGED <<journal, pc, mode, op, replayed, phase, tests, applied, first, again>>
  BY DEF InsertRow, session, history
<1>3. PICK row \in Row : /\ row.by = Number /\ row.nth = Len(staged) + 1
                         /\ staged' = Append(staged, row)
  BY InsertedRow DEF CoreInv
<1>4. /\ Log' = Log /\ Cur' = Cur /\ (Tracked' <=> Tracked) /\ (Replaying' <=> Replaying)
      /\ Busy /\ Busy' /\ (Same' <=> Same)
  BY <1>2 DEF Log, Cur, Tracked, Replaying, Busy, Same
<1>5. ASSUME Tracked PROVE Staging(L, K, Cur, op, staged', bound')
  <2>1. Number = Cur + 1
    BY <1>4, <1>5, NumberIsNext
  <2>2. Numbered(Cur, staged) /\ Len(bound) = Len(staged) /\ Binds(L, K, Cur + 1, op, bound)
    BY <1>1, <1>4, <1>5 DEF RefAt, Staging
  <2>3. Names(L, K, Cur + 1, op, Len(staged) + 1, Named(Pending))
    BY <1>1, <1>2, <1>5, NamesNext
  <2>4. /\ staged \in Seq(Row) /\ bound \in Seq(Name) /\ Len(staged) \in Nat /\ Cur \in Nat
        /\ Named(Pending) \in Name
    BY <1>2, CoreFacts, NamedType DEF TypeData, CoreInv, NameInv
  <2>5. PICK name \in Name, k \in Nat, c \in Nat : name = Named(Pending) /\ k = Len(staged) /\ c = Cur
    BY <2>4
  <2>6. /\ Len(staged') = k + 1 /\ staged'[k + 1] = row /\ \A i \in 1..k : staged'[i] = staged[i]
    BY <1>3, <2>4, <2>5, AppendProperties
  <2>7. /\ Len(bound') = k + 1 /\ bound'[k + 1] = name /\ \A i \in 1..k : bound'[i] = bound[i]
    BY <1>2, <2>2, <2>4, <2>5, AppendProperties
  <2>8. \A i \in 1..k + 1 : i = k + 1 \/ i \in 1..k
    BY <2>5
  <2>9. Numbered(c, staged')
    <3>1. NameOf(row) = <<c + 1, k + 1>>
      BY <1>3, <2>1, <2>5 DEF NameOf
    <3>2. \A i \in 1..k : NameOf(staged[i]) = <<c + 1, i>>
      BY <2>2, <2>5 DEF Numbered
    <3>. QED
      BY <2>6, <2>8, <3>1, <3>2 DEF Numbered
  <2>10. Binds(L, K, c + 1, op, bound')
    <3>1. \A i \in 1..k : Names(L, K, c + 1, op, i, bound[i])
      BY <2>2, <2>5 DEF Binds
    <3>2. Names(L, K, c + 1, op, k + 1, name)
      BY <2>3, <2>5
    <3>. QED
      BY <2>7, <2>8, <3>1, <3>2 DEF Binds
  <2>. QED
    BY <2>5, <2>6, <2>7, <2>9, <2>10 DEF Staging
<1>6. RefAt(L, K)'
  BY <1>1, <1>2, <1>4, <1>5 DEF RefAt
<1>. QED
  BY <1>6 DEF RefInv

(* The first step of an operation has staged nothing.                      *)
LEMMA NothingStaged ==
  ASSUME NEW L, NEW K, NEW c, NEW o
  PROVE  Staging(L, K, c, o, <<>>, <<>>)
<1>1. Len(<<>>) = 0 /\ \A i \in 1..0 : FALSE
  OBVIOUS
<1>. QED
  BY <1>1 DEF Staging, Numbered, Binds

LEMMA RefStep ==
  ASSUME ~LateSeeding, CoreInv, RefInv, [Next]_vars, CoreInv'
  PROVE  RefInv'
<1>0. PICK L, K : RefAt(L, K)
  BY DEF RefInv
<1>c. /\ TypeControl /\ TypeData /\ IInv /\ StreamInv /\ PlaceInv /\ Len(first) \in Nat
      /\ Cur \in Nat
  BY CoreFacts DEF CoreInv
<1>w. ASSUME RefAt(L, K)' PROVE RefInv'
  BY <1>w DEF RefInv
<1>x. ASSUME NEW o, Execute(o),
             Tracked' => Tracked, Replaying' => Replaying,
             UNCHANGED <<phase, tests, journal, applied, first, again>>
      PROVE  RefInv'
  <2>1. staged' = <<>> /\ bound' = <<>>
    BY <1>x DEF Execute
  <2>2. Staging(L, K, Cur', op', staged', bound')
    BY <2>1, NothingStaged
  <2>3. Log' = Log /\ Cur' = Cur /\ (Same' <=> Same)
    BY <1>x DEF Log, Cur, Same
  <2>. QED
    BY <1>0, <1>w, <1>x, <2>2, <2>3 DEF RefAt
<1>y. ASSUME Tracked' => Tracked, ~Busy', ~Replaying', Log' = Log,
             UNCHANGED <<tests, applied, first, again>>
      PROVE  RefInv'
  <2>1. Tracked' => tests = 0 /\ tests' = 0 /\ Cur' = Cur
    BY <1>y DEF Tracked, Cur, CoreInv, PlaceInv
  <2>. QED
    BY <1>0, <1>w, <1>y, <2>1 DEF RefAt
<1>1. CASE StartNext
  <2>1. /\ phase = "starting" /\ mode = "start" /\ tests = 0
        /\ Execute(Startup[replayed + 1])
        /\ UNCHANGED <<mode, phase, tests, journal, applied, first, again>>
    BY <1>1, <1>c DEF StartNext, StreamInv, streams, session, history
  <2>. QED
    BY <1>x, <2>1 DEF Tracked, Replaying
<1>2. CASE Started \/ OpenBoundary \/ CloseBoundary \/ EndTest
  <2>1. /\ pc = "idle" /\ pc' = "idle" /\ UNCHANGED <<mode, tests, applied, first, again>>
    BY <1>2 DEF Started, OpenBoundary, CloseBoundary, EndTest, history
  <2>2. Log' = Log
    BY <1>2 DEF Started, OpenBoundary, CloseBoundary, EndTest, Log, streams
  <2>. QED
    BY <1>y, <2>1, <2>2 DEF Tracked, Replaying, Busy
<1>3. ASSUME NEW o \in Ops, Seed(o) PROVE RefInv'
  <2>1. /\ phase = "boundary" /\ mode' = "seed" /\ tests = 0 /\ Execute(o)
        /\ UNCHANGED <<phase, tests, journal, applied, first, again>>
    BY <1>3, <1>c DEF Seed, StreamInv, streams, history
  <2>. QED
    BY <1>x, <2>1 DEF Tracked, Replaying
<1>4. ASSUME NEW o \in Ops, Declare(o) PROVE RefInv'
  <2>1. /\ phase = "test" /\ mode' = "test" /\ tests # 0 /\ Execute(o)
        /\ UNCHANGED <<phase, tests, journal, applied, first, again>>
    BY <1>4, <1>c DEF Declare, PlaceInv, streams, history
  <2>. QED
    BY <1>x, <2>1 DEF Tracked, Replaying
<1>5. CASE Reset
  <2>1. /\ phase = "between" /\ pc = "idle" /\ pc' = "wipe" /\ tests' # 0
        /\ UNCHANGED <<phase, journal, applied, first, again>>
    BY <1>5, <1>c DEF Reset, TypeControl, history
  <2>2. ~Tracked' /\ ~Replaying' /\ Log' = Log
    BY <2>1 DEF Tracked, Replaying, Log
  <2>. QED
    BY <1>0, <1>w, <2>1, <2>2 DEF RefAt
<1>6. CASE Truncate
  <2>1. /\ mode = "reset" /\ tests # 0 /\ pc' = "replay" /\ applied' = Empty /\ again' = <<>>
        /\ UNCHANGED <<mode, phase, tests, journal, first>>
    BY <1>6, <1>c DEF Truncate, StreamInv, PlaceInv, session
  <2>2. Len(again') = 0 /\ Log' = Log /\ ~Busy' /\ Cur' = 0 /\ Same'
    BY <2>1 DEF Log, Busy, Cur, Same
  <2>3. Covers(L, K, 0, Empty)
    <3>1. Rising(L, Len(first))
      BY <1>0 DEF RefAt, Shape
    <3>2. ASSUME NEW t \in Tables PROVE Upto(L, 0, t) = 0 /\ Empty[t] = <<>>
      <4>1. 0 \in 0..Len(first)
        BY <1>c
      <4>. QED
        BY <3>1, <4>1 DEF Rising, Empty
    <3>3. Len(<<>>) = 0 /\ \A i \in 1..0 : FALSE
      OBVIOUS
    <3>. QED
      BY <3>2, <3>3 DEF Covers
  <2>. QED
    BY <1>0, <1>w, <2>1, <2>2, <2>3 DEF RefAt
<1>7. CASE TruncateFails \/ BeginTest
  <2>1. /\ pc \in {"wipe", "replay"} /\ phase = "between" /\ phase' \in {"between", "test"}
        /\ pc' = "idle" /\ UNCHANGED <<tests, journal, applied, first, again>>
    BY <1>7, <1>c DEF TruncateFails, BeginTest, StreamInv, streams, history
  <2>. QED
    BY <1>y, <2>1 DEF Tracked, Replaying, Busy, Log
<1>8. CASE ReplayNext
  <2>1. /\ pc = "replay" /\ mode = "reset" /\ Execute(journal[replayed + 1])
        /\ UNCHANGED <<mode, phase, tests, journal, applied, first, again>>
    BY <1>8, <1>c DEF ReplayNext, StreamInv, streams, session, history
  <2>. QED
    BY <1>x, <2>1 DEF Tracked, Replaying
<1>9. CASE RunStatement
  <2>1. /\ pc = "sql" /\ Busy /\ Return /\ pc' \notin {"sql", "rows"}
        /\ UNCHANGED <<mode, tests, applied>>
    BY <1>9 DEF RunStatement, Return, Busy
  <2>2. staged = <<>> /\ Rows[op] = <<>> /\ Table[op] \in Tables /\ op \in Ops
    BY <1>c, <2>1, SymbolsAssumption DEF PlaceInv, IInv, BaseInv, TypeData
  <2>3. applied' = [applied EXCEPT ![Table[op]] = @ \o staged]
    <3>1. applied[Table[op]] \o <<>> = applied[Table[op]]
      BY <1>c, <2>2, ConcatEmptySeq DEF TypeData
    <3>. QED
      BY <1>c, <2>1, <2>2, <3>1 DEF TypeData
  <2>4. Len(staged) = Len(Rows[op])
    BY <2>2
  <2>. QED
    BY <2>1, <2>2, <2>3, <2>4, ReturnRecords
<1>10. CASE Commit
  <2>1. /\ Busy /\ Return /\ pc' \notin {"sql", "rows"} /\ Len(staged) = Len(Rows[op])
        /\ UNCHANGED <<mode, tests>>
        /\ applied' = [applied EXCEPT ![Table[op]] = @ \o staged]
    BY <1>10 DEF Commit, Return, Busy
  <2>. QED
    BY <1>c, <2>1, ReturnRecords DEF TypeData
<1>11. CASE StatementFails \/ RowFails \/ CommitFails
  <2>1. /\ Busy /\ Raise /\ pc' = "idle" /\ UNCHANGED <<mode, tests, applied, first, again, journal>>
    BY <1>11 DEF StatementFails, RowFails, CommitFails, Raise, Busy
  <2>2. \/ phase = "starting" /\ phase' = "ended"
        \/ phase \in {"test", "boundary", "between"} /\ phase' \in {"test", "between"}
    BY <1>c, <2>1 DEF Raise, StreamInv, Busy, TypeControl
  <2>3. Log' = Log
    BY <2>1, <2>2 DEF Log
  <2>. QED
    BY <1>y, <2>1, <2>3 DEF Tracked, Replaying, Busy
<1>12. CASE InsertRow
  BY <1>12, InsertStages
<1>13. CASE InstanceWrites \/ UNCHANGED vars
  <2>1. UNCHANGED <<pc, mode, op, staged, bound, phase, tests, journal, applied, first, again>>
    BY <1>13 DEF InstanceWrites, vars, running, session, history
  <2>2. /\ Log' = Log /\ Cur' = Cur /\ (Tracked' <=> Tracked) /\ (Replaying' <=> Replaying)
        /\ (Busy' <=> Busy) /\ (Same' <=> Same)
    BY <2>1 DEF Log, Cur, Tracked, Replaying, Busy, Same
  <2>. QED
    BY <1>0, <1>w, <2>1, <2>2 DEF RefAt
<1>. QED
  BY <1>1, <1>2, <1>3, <1>4, <1>5, <1>6, <1>7, <1>8, <1>9, <1>10, <1>11, <1>12, <1>13 DEF Next

(* Before anything runs, no operation has been recorded.                   *)
LEMMA RefStart ==
  ASSUME Init
  PROVE  NameInv /\ PlaceInv /\ RefInv
<1>1. /\ first = <<>> /\ again = <<>> /\ bound = <<>> /\ staged = <<>> /\ replayed = 0
      /\ pc = "idle" /\ mode = "start" /\ phase = "starting" /\ tests = 0 /\ applied = Empty
  BY DEF Init
<1>2. Len(<<>>) = 0 /\ \A i \in 1..0 : FALSE
  OBVIOUS
<1>3. Len(Startup) \in Nat
  BY SymbolsAssumption, LenProperties
<1>4. NameInv
  BY <1>1 DEF NameInv
<1>5. PlaceInv
  BY <1>1, <1>2, <1>3 DEF PlaceInv, Busy, Replaying
<1>6. RefInv
  <2>1. PICK L : L = [j \in {0} |-> [t \in Tables |-> 0]]
    OBVIOUS
  <2>2. \A t \in Tables : Upto(L, 0, t) = 0
    BY <2>1 DEF Upto
  <2>3. \A t \in Tables : applied[t] = <<>>
    BY <1>1 DEF Empty
  <2>4. \A j \in 0..0 : j = 0
    OBVIOUS
  <2>5. Rising(L, 0)
    <3>1. ASSUME NEW j \in 0..0, NEW t \in Tables PROVE Upto(L, j, t) = 0 /\ Upto(L, 0, t) = 0
      BY <2>2, <2>4
    <3>2. 0 \in Nat /\ 0 <= 0
      OBVIOUS
    <3>. QED
      BY <3>1, <3>2 DEF Rising
  <2>6. Shape(L, L, Startup, first)
    BY <1>1, <1>2, <1>3, <2>5 DEF Shape
  <2>7. Covers(L, L, 0, applied)
    BY <1>2, <2>2, <2>3 DEF Covers
  <2>8. RefAt(L, L)
    BY <1>1, <1>2, <2>6, <2>7 DEF RefAt, Log, Cur, Busy, Replaying
  <2>. QED
    BY <2>8 DEF RefInv
<1>. QED
  BY <1>4, <1>5, <1>6

(* A reference of a baseline operation names, in every reset, the row it   *)
(* named when the operation was recorded, and no reset fails on it: for    *)
(* every journal, however many boundaries failed half way, resets failed   *)
(* and rows the instance wrote in between, in a suite whose session        *)
(* fixtures seed the baseline before the first test.                       *)
THEOREM BaselineRefsAreStable ==
  ASSUME ~LateSeeding
  PROVE  Spec => []BaselineRefsStable
<1>1. Init => StreamInv
  BY DEF Init, StreamInv, AddressesNameRows, Quiet
<1>2. Init => NameInv /\ PlaceInv /\ RefInv
  BY RefStart
<1>3. IInv /\ StreamInv /\ [Next]_vars => StreamInv'
  BY StreamStep
<1>4. IInv /\ StreamInv /\ NameInv /\ PlaceInv /\ [Next]_vars => NameInv' /\ PlaceInv'
  BY NameStep, PlaceStep
<1>5. /\ IInv /\ StreamInv /\ NameInv /\ PlaceInv /\ RefInv /\ [Next]_vars
      /\ IInv' /\ StreamInv' /\ NameInv' /\ PlaceInv'
      => RefInv'
  BY RefStep DEF CoreInv
<1>6. IInv /\ StreamInv /\ NameInv /\ PlaceInv /\ RefInv => BaselineRefsStable
  <2>1. ASSUME CoreInv, RefInv, mode = "reset", pc \in {"rows", "replay"}
        PROVE  \A i \in DOMAIN again : again[i] = first[i]
    <3>1. Same
      BY <2>1 DEF RefInv, RefAt, Replaying
    <3>2. DOMAIN again = 1..Len(again)
      BY <2>1, LenProperties DEF CoreInv, NameInv
    <3>. QED
      BY <3>1, <3>2 DEF Same
  <2>. QED
    BY <2>1, ReplaySame DEF CoreInv, BaselineRefsStable
<1>. QED
  BY <1>1, <1>2, <1>3, <1>4, <1>5, <1>6, SymbolsInvariant, PTL DEF Spec
=============================================================================
