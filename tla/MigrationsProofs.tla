-------------------------- MODULE MigrationsProofs --------------------------
(***************************************************************************)
(* Proofs about Migrations.  The inductive invariant says what a run may   *)
(* rely on: LoadInv, what it knows of the set at each step, and CountInv,  *)
(* how the counts of the database follow the loop: files done are whole,   *)
(* files to come are untouched and have higher versions, and the file in   *)
(* between has as many statements in the database as it ran, or none.      *)
(*                                                                         *)
(* The second half is about Goose, the parser of one file.  What it says   *)
(* of a file is recursive along the file, so it needs induction; FormInv   *)
(* says what the lines read so far have told the parser.                   *)
(***************************************************************************)
EXTENDS Migrations, Goose, SequenceTheorems, WellFoundedInduction, TLAPS

Running == {"next", "transaction", "autocommit"}

LoadInv ==
  /\ pc \in {"document", "declared", "clone", "load"} => set = {}
  /\ pc \in Running => set = folder /\ outcome = "none"
  /\ set # {} => set = folder /\ Loadable(folder)
  /\ outcome = "ok" => set = folder /\ todo = {}
  /\ pc \in {"clone", "leave"} => remote
  /\ clone => remote /\ pc \notin {"document", "declared", "end"}
  /\ pc \in {"document", "declared", "clone", "load"} => outcome = "none"

(* The statements of f the database keeps while the loop is at file. *)
Kept(f) == IF pc = "autocommit" /\ f = file THEN ran ELSE 0

CountInv ==
  /\ \A f \in Files \ set : committed[f] = 0
  /\ \A f \in set \ todo : committed[f] = Size[f]
  /\ \A f \in set \ todo, g \in todo : Version[f] < Version[g]
  /\ pc \in Running => \A f \in todo : committed[f] = Kept(f)
  /\ pc \in {"transaction", "autocommit"} =>
       /\ \A g \in todo : Version[file] <= Version[g]
       /\ pc = "autocommit" <=> file \in NoTransaction

IInv == TypeOK /\ LoadInv /\ CountInv /\ WholeFiles /\ VersionOrder

-----------------------------------------------------------------------------
LEMMA InitIInv == Init => IInv
<1> SUFFICES ASSUME Init PROVE IInv
  OBVIOUS
<1> USE MigrationsAssumption
<1>1. TypeOK
  BY DEF Init, TypeOK
<1>2. LoadInv
  BY DEF Init, LoadInv, Running
<1>3. CountInv
  BY DEF Init, CountInv, Running
<1>4. WholeFiles /\ VersionOrder
  BY DEF Init, WholeFiles, VersionOrder
<1> QED
  BY <1>1, <1>2, <1>3, <1>4 DEF IInv

(* Every variable keeps its type. *)
LEMMA TypeStep == TypeOK /\ [Next]_vars => TypeOK'
<1> SUFFICES ASSUME TypeOK, [Next]_vars PROVE TypeOK'
  OBVIOUS
<1> USE MigrationsAssumption DEF TypeOK, source, apply
<1>1. CASE Accept
  BY <1>1 DEF Accept
<1>2. CASE Reject
  BY <1>2 DEF Reject
<1>3. CASE Run
  BY <1>3 DEF Run
<1>4. CASE Clone
  BY <1>4 DEF Clone
<1>5. CASE LoadSet
  BY <1>5 DEF LoadSet
<1>6. CASE ResolveFails
  BY <1>6 DEF ResolveFails, Leave
<1>7. CASE ReadFails
  BY <1>7 DEF ReadFails, Leave
<1>8. ASSUME NEW f \in Files, TakeFile(f) PROVE TypeOK'
  BY <1>8 DEF TakeFile
<1>9. CASE Execute
  BY <1>9 DEF Execute
<1>10. CASE FinishFile
  BY <1>10 DEF FinishFile
<1>11. CASE Finish
  BY <1>11 DEF Finish, Leave
<1>12. CASE StatementFails
  BY <1>12 DEF StatementFails, Leave, InFlight
<1>13. CASE DeleteClone
  BY <1>13 DEF DeleteClone
<1>14. CASE EditFolder
  BY <1>14 DEF EditFolder
<1>15. CASE Interrupt
  BY <1>15 DEF Interrupt, Leave, InFlight
<1>16. CASE UNCHANGED vars
  BY <1>16 DEF vars
<1> QED
  BY <1>1, <1>2, <1>3, <1>4, <1>5, <1>6, <1>7, <1>8, <1>9, <1>10, <1>11,
     <1>12, <1>13, <1>14, <1>15, <1>16 DEF Next, Work

(* The set a run works on is the folder, and it was loadable. *)
LEMMA LoadStep == TypeOK /\ LoadInv /\ [Next]_vars => LoadInv'
<1> SUFFICES ASSUME TypeOK, LoadInv, [Next]_vars PROVE LoadInv'
  OBVIOUS
<1> USE DEF LoadInv, Running, Loadable, Shaped, Distinct, source, apply
<1>1. CASE Accept
  BY <1>1 DEF Accept
<1>2. CASE Reject
  BY <1>2 DEF Reject
<1>3. CASE Run
  BY <1>3 DEF Run
<1>4. CASE Clone
  BY <1>4 DEF Clone
<1>5. CASE LoadSet
  BY <1>5 DEF LoadSet
<1>6. CASE ResolveFails
  BY <1>6 DEF ResolveFails, Leave
<1>7. CASE ReadFails
  BY <1>7 DEF ReadFails, Leave
<1>8. ASSUME NEW f \in Files, TakeFile(f) PROVE LoadInv'
  BY <1>8 DEF TakeFile
<1>9. CASE Execute
  BY <1>9 DEF Execute
<1>10. CASE FinishFile
  BY <1>10 DEF FinishFile
<1>11. CASE Finish
  BY <1>11 DEF Finish, Leave
<1>12. CASE StatementFails
  BY <1>12 DEF StatementFails, Leave
<1>13. CASE DeleteClone
  BY <1>13 DEF DeleteClone
<1>14. CASE EditFolder
  BY <1>14 DEF EditFolder
<1>15. CASE Interrupt
  BY <1>15 DEF Interrupt, Leave
<1>16. CASE UNCHANGED vars
  BY <1>16 DEF vars
<1> QED
  BY <1>1, <1>2, <1>3, <1>4, <1>5, <1>6, <1>7, <1>8, <1>9, <1>10, <1>11,
     <1>12, <1>13, <1>14, <1>15, <1>16 DEF Next, Work

(* The counts follow the loop. *)
LEMMA CountStep == TypeOK /\ LoadInv /\ CountInv /\ [Next]_vars => CountInv'
<1> SUFFICES ASSUME TypeOK, LoadInv, CountInv, [Next]_vars PROVE CountInv'
  OBVIOUS
<1> USE MigrationsAssumption DEF TypeOK, CountInv, Kept, Running, source, apply
<1>1. CASE Accept
  BY <1>1 DEF Accept
<1>2. CASE Reject
  BY <1>2 DEF Reject
<1>3. CASE Run
  BY <1>3 DEF Run, LoadInv
<1>4. CASE Clone
  BY <1>4 DEF Clone, LoadInv
<1>5. CASE LoadSet
  BY <1>5 DEF LoadSet, LoadInv
<1>6. CASE ResolveFails
  BY <1>6 DEF ResolveFails, Leave
<1>7. CASE ReadFails
  BY <1>7 DEF ReadFails, Leave
<1>8. ASSUME NEW f \in Files, TakeFile(f) PROVE CountInv'
  BY <1>8 DEF TakeFile
<1>9. CASE Execute
  BY <1>9 DEF Execute
<1>10. CASE FinishFile
  <2>1. Distinct(set)
    BY <1>10 DEF FinishFile, LoadInv, Loadable, Shaped
  <2>2. \A g \in todo' : Version[file] < Version[g]
    BY <1>10, <2>1 DEF FinishFile, Distinct
  <2> QED
    BY <1>10, <2>2 DEF FinishFile
<1>11. CASE Finish
  BY <1>11 DEF Finish, Leave
<1>12. CASE StatementFails
  BY <1>12 DEF StatementFails, Leave, InFlight
<1>13. CASE DeleteClone
  BY <1>13 DEF DeleteClone
<1>14. CASE EditFolder
  BY <1>14 DEF EditFolder, LoadInv
<1>15. CASE Interrupt
  BY <1>15 DEF Interrupt, Leave, InFlight
<1>16. CASE UNCHANGED vars
  BY <1>16 DEF vars
<1> QED
  BY <1>1, <1>2, <1>3, <1>4, <1>5, <1>6, <1>7, <1>8, <1>9, <1>10, <1>11,
     <1>12, <1>13, <1>14, <1>15, <1>16 DEF Next, Work

-----------------------------------------------------------------------------
(* While a file is at work the ledger is due for it, unless it is whole. *)
LEMMA AtWork ==
  ASSUME TypeOK, LoadInv, CountInv, pc \in {"transaction", "autocommit"}
  PROVE  /\ file \in set
         /\ committed[file] < Size[file] => Ledger!Due(file)
         /\ pc = "transaction" => committed[file] = 0 /\ file \notin NoTransaction
         /\ pc = "autocommit" => committed[file] = ran /\ file \in NoTransaction
<1> USE MigrationsAssumption DEF TypeOK, CountInv, Running, Kept
<1>1. file \in todo /\ file \in set
  OBVIOUS
<1>2. \A g \in set : Version[g] < Version[file] => g \notin todo
  OBVIOUS
<1>3. \A g \in set : Version[g] < Version[file] => committed[g] = Size[g]
  BY <1>2
<1> QED
  BY <1>1, <1>3 DEF Ledger!Due

(* One step of the file at work is one step of the ledger, or none. *)
LEMMA FileStep ==
  ASSUME TypeOK, LoadInv, CountInv, pc \in {"transaction", "autocommit"},
         UNCHANGED set,
         \/ committed' \in InFlight
         \/ Execute \/ FinishFile
  PROVE  [Ledger!Next]_<<set, committed>>
<1> USE MigrationsAssumption, AtWork DEF TypeOK
<1>1. ASSUME pc = "transaction",
             committed' = [committed EXCEPT ![file] = Size[file]]
      PROVE  [Ledger!Next]_<<set, committed>>
  <2>1. CASE Size[file] = 0
    BY <1>1, <2>1
  <2>2. CASE Size[file] > 0
    <3>1. Ledger!File(file)
      BY <1>1, <2>2 DEF Ledger!File
    <3> QED
      BY <3>1, <1>1 DEF Ledger!Next
  <2> QED
    BY <2>1, <2>2
<1>2. ASSUME pc = "autocommit", ran < Size[file],
             committed' = [committed EXCEPT ![file] = ran + 1]
      PROVE  [Ledger!Next]_<<set, committed>>
  <2>1. Ledger!Statement(file)
    BY <1>2 DEF Ledger!Statement
  <2> QED
    BY <2>1, <1>2 DEF Ledger!Next
<1>3. ASSUME pc = "autocommit", ran = Size[file],
             committed' = [committed EXCEPT ![file] = Size[file]]
      PROVE  [Ledger!Next]_<<set, committed>>
  BY <1>3
<1>4. CASE committed' \in InFlight
  BY <1>1, <1>2, <1>4 DEF InFlight
<1>5. CASE Execute
  BY <1>2, <1>5 DEF Execute
<1>6. CASE FinishFile
  BY <1>1, <1>3, <1>6 DEF FinishFile
<1> QED
  BY <1>4, <1>5, <1>6

(* Every step of the run is a step of the ledger or leaves it alone. *)
LEMMA LedgerStep == TypeOK /\ LoadInv /\ CountInv /\ [Next]_vars
                      => [Ledger!Next]_<<set, committed>>
<1> SUFFICES ASSUME TypeOK, LoadInv, CountInv, [Next]_vars
             PROVE  [Ledger!Next]_<<set, committed>>
  OBVIOUS
<1>1. CASE LoadSet
  <2>1. set = {} /\ set' \in SUBSET Files /\ Distinct(set')
    BY <1>1 DEF LoadSet, LoadInv, TypeOK, Loadable, Shaped
  <2>2. Ledger!Load
    BY <1>1, <2>1 DEF LoadSet, Distinct, Ledger!Load, Ledger!Distinct
  <2> QED
    BY <2>2 DEF Ledger!Next
<1>2. CASE Execute \/ FinishFile
  BY <1>2, FileStep DEF Execute, FinishFile
<1>3. CASE StatementFails
  BY <1>3, FileStep DEF StatementFails, apply
<1>4. CASE Interrupt
  <2>1. CASE pc \in {"transaction", "autocommit"}
    BY <1>4, <2>1, FileStep DEF Interrupt, apply
  <2>2. CASE pc \notin {"transaction", "autocommit"}
    BY <1>4, <2>2 DEF Interrupt, InFlight, apply
  <2> QED
    BY <2>1, <2>2
<1>5. CASE \/ Accept \/ Reject \/ Run \/ Clone \/ ResolveFails \/ ReadFails
           \/ (\E f \in Files : TakeFile(f)) \/ Finish \/ DeleteClone
           \/ EditFolder \/ UNCHANGED vars
  BY <1>5 DEF Accept, Reject, Run, Clone, ResolveFails, ReadFails, TakeFile,
     Finish, DeleteClone, EditFolder, vars, apply
<1> QED
  BY <1>1, <1>2, <1>3, <1>4, <1>5 DEF Next, Work

(* What a ledger never breaks: whole files and the order of versions. *)
LEMMA LedgerKeeps ==
  ASSUME TypeOK, CountInv, WholeFiles, VersionOrder,
         [Ledger!Next]_<<set, committed>>
  PROVE  WholeFiles' /\ VersionOrder'
<1> USE MigrationsAssumption DEF TypeOK, WholeFiles, VersionOrder
<1>1. CASE Ledger!Load
  BY <1>1 DEF Ledger!Load, CountInv
<1>2. ASSUME NEW f \in set, Ledger!File(f) \/ Ledger!Statement(f)
      PROVE  WholeFiles' /\ VersionOrder'
  BY <1>2 DEF Ledger!File, Ledger!Statement, Ledger!Due
<1>3. CASE UNCHANGED <<set, committed>>
  BY <1>3
<1> QED
  BY <1>1, <1>2, <1>3 DEF Ledger!Next

-----------------------------------------------------------------------------
(* The inductive invariant holds in every reachable state. *)
THEOREM MigrationsInvariant == Spec => []IInv
<1>1. IInv /\ [Next]_vars => IInv'
  BY TypeStep, LoadStep, CountStep, LedgerStep, LedgerKeeps DEF IInv
<1> QED
  BY InitIInv, <1>1, PTL DEF Spec

(* Every variable of a migration run keeps its type, for all files. *)
THEOREM MigrationsTypeOK == Spec => []TypeOK
  BY MigrationsInvariant, PTL DEF IInv

(* A file in a transaction is in the database whole or not at all (goose    *)
(* files without NO TRANSACTION, apply.py _apply_in_transaction).           *)
THEOREM MigrationsWholeFiles == Spec => []WholeFiles
  BY MigrationsInvariant, PTL DEF IInv

(* Files apply in ascending version order without a gap. *)
THEOREM MigrationsOrder == Spec => []VersionOrder
  BY MigrationsInvariant, PTL DEF IInv

(* One file that cannot be used keeps the whole set out of the database. *)
THEOREM MigrationsBadSet == Spec => []BadSetUntouched
<1>1. IInv => BadSetUntouched
  BY DEF IInv, LoadInv, CountInv, TypeOK, BadSetUntouched
<1> QED
  BY MigrationsInvariant, <1>1, PTL

(* run_migrations returns only when exactly the folder is applied. *)
THEOREM MigrationsComplete == Spec => []ReturnsWhenAllApplied
<1>1. IInv => ReturnsWhenAllApplied
  BY DEF IInv, LoadInv, CountInv, TypeOK, ReturnsWhenAllApplied
<1> QED
  BY MigrationsInvariant, <1>1, PTL

(* The clone is deleted on every exit path. *)
THEOREM MigrationsClone == Spec => []CloneDeleted
<1>1. IInv => CloneDeleted
  BY DEF IInv, LoadInv, CloneDeleted
<1> QED
  BY MigrationsInvariant, <1>1, PTL

(* The run implements the ledger the documents promise. *)
THEOREM MigrationsKeepLedger == Spec => KeepsLedger
<1>1. Init => Ledger!Init
  BY DEF Init, Ledger!Init
<1>2. IInv /\ [Next]_vars => [Ledger!Next]_<<set, committed>>
  BY LedgerStep DEF IInv
<1> QED
  BY MigrationsInvariant, <1>1, <1>2, PTL DEF Spec, KeepsLedger, Ledger!Spec

-----------------------------------------------------------------------------
(***************************************************************************)
(* The parser.  First what a definition that is recursive along a sequence *)
(* computes, by induction over sets of numbers.                            *)
(***************************************************************************)

(* A set of naturals with an element has a least one: what holds for every *)
(* number is proved by the least one it does not hold for.                 *)
LEMMA LeastNatural ==
  ASSUME NEW T, T \subseteq Nat, T # {}
  PROVE  \E x \in T : \A y \in T : x <= y
<1>. DEFINE R == {p \in Nat \X Nat : p[1] < p[2]}
<1>1. IsWellFoundedOn(R, Nat)
  BY NatLessThanWellFounded DEF OpToRel
<1>2. PICK x \in T : \A y \in T : ~ (<<y, x>> \in R)
  <2>. HIDE DEF R
  <2>. QED
    BY <1>1, WFMin
<1>3. \A y \in T : ~(y < x)
  BY <1>2
<1>. QED
  BY <1>2, <1>3

LEMMA Induction ==
  ASSUME NEW n \in Nat, NEW T, T \subseteq 0..n, 0 \in T,
         \A i \in 0..n : i # 0 /\ i - 1 \in T => i \in T
  PROVE  \A i \in 0..n : i \in T
<1>. DEFINE M == {i \in 0..n : i \notin T}
<1>1. SUFFICES ASSUME M # {} PROVE FALSE
  OBVIOUS
<1>2. PICK m \in M : \A y \in M : m <= y
  <2>1. M \subseteq Nat
    OBVIOUS
  <2>. HIDE DEF M
  <2>. QED
    BY <1>1, <2>1, LeastNatural
<1>3. m \in 0..n /\ m # 0 /\ m \notin T
  BY <1>2
<1>4. m - 1 \in M
  BY <1>3
<1>. QED
  BY <1>2, <1>3, <1>4

(* Recursion over the numbers up to n, for functions whose values are in S. *)
Computes(g, n, S, base, step) ==
  /\ g \in [0..n -> S]
  /\ g[0] = base
  /\ \A i \in 1..n : g[i] = step[<<i, g[i - 1]>>]

LEMMA Recursion ==
  ASSUME NEW n \in Nat, NEW S, NEW base \in S, NEW step \in [(1..n) \X S -> S]
  PROVE  \E g : Computes(g, n, S, base, step)
<1>. DEFINE Is(g, m) == /\ g \in [0..m -> S]
                        /\ g = [i \in 0..m |-> IF i = 0 THEN base ELSE step[<<i, g[i - 1]>>]]
            T == {m \in 0..n : \E g : Is(g, m)}
<1>1. 0 \in T
  <2>1. Is([i \in 0..0 |-> base], 0)
    OBVIOUS
  <2>. HIDE DEF Is
  <2>. QED
    BY <2>1
<1>2. ASSUME NEW m \in 0..n, m # 0, m - 1 \in T PROVE m \in T
  <2>1. PICK g : Is(g, m - 1)
    BY <1>2
  <2>. DEFINE h == [i \in 0..m |-> IF i = m THEN step[<<m, g[m - 1]>>] ELSE g[i]]
  <2>2. g \in [0..(m - 1) -> S] /\ m \in 1..n
    BY <1>2, <2>1
  <2>3. step[<<m, g[m - 1]>>] \in S
    BY <2>2
  <2>4. h \in [0..m -> S]
    BY <1>2, <2>2, <2>3
  <2>5. \A i \in 0..m : h[i] = IF i = 0 THEN base ELSE step[<<i, h[i - 1]>>]
    <3>1. \A i \in 0..(m - 1) : g[i] = IF i = 0 THEN base ELSE step[<<i, g[i - 1]>>]
      BY <2>1
    <3>2. /\ h[m] = step[<<m, g[m - 1]>>]
          /\ \A i \in 0..(m - 1) : h[i] = g[i]
      BY <1>2
    <3>. HIDE DEF h
    <3>3. \A i \in 0..m : i # m /\ i # 0 => h[i] = step[<<i, h[i - 1]>>]
      BY <1>2, <3>1, <3>2
    <3>4. h[m] = step[<<m, h[m - 1]>>] /\ h[0] = base
      <4>1. m - 1 \in 0..(m - 1) /\ 0 \in 0..(m - 1)
        BY <2>2
      <4>. QED
        BY <3>1, <3>2, <4>1
    <3>. QED
      BY <1>2, <3>3, <3>4
  <2>6. Is(h, m)
    <3>. HIDE DEF h
    <3>. QED
      BY <1>2, <2>4, <2>5
  <2>. QED
    BY <1>2, <2>6
<1>3. n \in T
  <2>. HIDE DEF T
  <2>1. \A m \in 0..n : m \in T
    BY <1>1, <1>2, Induction DEF T
  <2>. QED
    BY <2>1
<1>4. PICK g : Is(g, n)
  BY <1>3
<1>5. \A i \in 1..n : g[i] = step[<<i, g[i - 1]>>]
  <2>1. \A i \in 1..n : i \in 0..n /\ i # 0
    OBVIOUS
  <2>2. \A i \in 0..n : g[i] = IF i = 0 THEN base ELSE step[<<i, g[i - 1]>>]
    BY <1>4
  <2>. HIDE DEF Is
  <2>. QED
    BY <2>1, <2>2
<1>6. g \in [0..n -> S] /\ g[0] = base
  BY <1>4
<1>. QED
  BY <1>5, <1>6 DEF Computes

(* The lines of a file, and what is left of a sequence after its first n.   *)
LEMMA Unread ==
  ASSUME NEW S, NEW s \in Seq(S), NEW n \in 0..Len(s)
  PROVE  LET r == SubSeq(s, n + 1, Len(s)) IN
         /\ r \in Seq(S)
         /\ r = <<>> <=> n = Len(s)
         /\ n # Len(s) => /\ n + 1 \in 0..Len(s)
                          /\ Head(r) = s[n + 1]
                          /\ Tail(r) = SubSeq(s, (n + 1) + 1, Len(s))
<1>1. Len(s) \in Nat /\ \A i \in (n + 1)..Len(s) : s[i] \in S
  OBVIOUS
<1>2. /\ SubSeq(s, n + 1, Len(s)) \in Seq(S)
      /\ Len(SubSeq(s, n + 1, Len(s))) = IF n + 1 <= Len(s) THEN Len(s) - (n + 1) + 1 ELSE 0
  <2>. DEFINE m == n + 1
              k == Len(s)
  <2>1. m \in Int /\ k \in Int /\ \A i \in m..k : s[i] \in S
    BY <1>1
  <2>. HIDE DEF m, k
  <2>2. /\ SubSeq(s, m, k) \in Seq(S)
        /\ Len(SubSeq(s, m, k)) = IF m <= k THEN k - m + 1 ELSE 0
    BY <2>1, SubSeqProperties
  <2>. QED
    BY <2>2 DEF m, k
<1>3. CASE n = Len(s)
  BY <1>2, <1>3
<1>4. CASE n # Len(s)
  <2>1. n + 1 \in 1..Len(s) /\ Len(s) \in (n + 1)..Len(s)
    BY <1>1, <1>4
  <2>2. /\ Head(SubSeq(s, n + 1, Len(s))) = s[n + 1]
        /\ Tail(SubSeq(s, n + 1, Len(s))) = SubSeq(s, (n + 1) + 1, Len(s))
    BY <2>1, HeadTailOfSubSeq
  <2>3. SubSeq(s, n + 1, Len(s)) # <<>> /\ n + 1 \in 0..Len(s)
    <3>1. n + 1 <= Len(s) /\ Len(s) - (n + 1) + 1 > 0
      BY <1>1, <1>4
    <3>2. Len(SubSeq(s, n + 1, Len(s))) # 0
      BY <1>1, <1>2, <3>1
    <3>3. n + 1 \in 0..Len(s)
      BY <1>1, <1>4
    <3>4. SubSeq(s, n + 1, Len(s)) # <<>>
      <4>. DEFINE r == SubSeq(s, n + 1, Len(s))
      <4>1. Len(r) # 0
        BY <3>2
      <4>. HIDE DEF r
      <4>2. r # <<>>
        BY <4>1
      <4>. QED
        BY <4>2 DEF r
    <3>. QED
      BY <3>3, <3>4
  <2>. QED
    BY <1>2, <1>4, <2>2, <2>3
<1>. QED
  BY <1>2, <1>3, <1>4

LEMMA OneMore ==
  ASSUME NEW S, NEW s \in Seq(S), NEW m \in 1..Len(s), NEW n \in m..Len(s)
  PROVE  /\ SubSeq(s, m, n) = Append(SubSeq(s, m, n - 1), s[n])
         /\ SubSeq(s, m, n - 1) \in Seq(S)
         /\ SubSeq(s, m, n) \in Seq(S)
<1>1. SubSeq(s, m, n) = SubSeq(s, m, n - 1) \o <<s[n]>>
  BY SubSeqRecursiveSecond
<1>2. SubSeq(s, m, n - 1) \in Seq(S) /\ SubSeq(s, m, n) \in Seq(S) /\ s[n] \in S
  <2>1. /\ m \in Int /\ n \in Int /\ n - 1 \in Int
        /\ \A i \in m..n : s[i] \in S
        /\ \A i \in m..(n - 1) : s[i] \in S
    OBVIOUS
  <2>2. SubSeq(s, m, n) \in Seq(S)
    BY <2>1, SubSeqProperties
  <2>. DEFINE k == n - 1
  <2>3. SubSeq(s, m, k) \in Seq(S)
    <3>. HIDE DEF k
    <3>. QED
      BY <2>1, SubSeqProperties DEF k
  <2>. QED
    BY <2>1, <2>2, <2>3
<1>. QED
  BY <1>1, <1>2, AppendIsConcat

LEMMA TextReplaced ==
  ASSUME NEW line \in FileLine, NEW text \in Seq(Chars)
  PROVE  /\ [line EXCEPT !.text = text] \in FileLine
         /\ [line EXCEPT !.text = text].text = text
         /\ [line EXCEPT !.text = text].mark = line.mark
BY DEF FileLine

(* str.splitlines finds the lines of the author when nothing but the end of *)
(* a line separates lines.                                                  *)
Plain(s) == \A i \in DOMAIN s : ~Contains(s[i].text, "ff")

PieceSteps(f, line) ==
  /\ Pieces(line) = f[Len(line.text)]
  /\ f[0] = <<[line EXCEPT !.text = <<>>]>>
  /\ \A i \in 1..Len(line.text) :
       f[i] = IF line.text[i] = "ff" THEN Append(f[i - 1], [line EXCEPT !.text = <<>>])
              ELSE [f[i - 1] EXCEPT ![Len(f[i - 1])].text = Append(f[i - 1][Len(f[i - 1])].text,
                                                                   line.text[i])]
  /\ \A i \in 0..Len(line.text) : f[i] \in Seq(FileLine) /\ f[i] # <<>>

LEMMA PiecesRecursion ==
  ASSUME NEW line \in FileLine
  PROVE  \E f : PieceSteps(f, line)
<1>. DEFINE n == Len(line.text)
            S == {s \in Seq(FileLine) : s # <<>>}
            bare == [line EXCEPT !.text = <<>>]
            base == <<bare>>
            e(i, was) == IF line.text[i] = "ff" THEN Append(was, bare)
                         ELSE [was EXCEPT ![Len(was)].text = Append(was[Len(was)].text, line.text[i])]
            step == [p \in (1..n) \X S |-> e(p[1], p[2])]
<1>1. n \in Nat /\ \A i \in 1..n : line.text[i] \in Chars
  BY DEF FileLine
<1>2. bare \in FileLine
  <2>1. <<>> \in Seq(Chars)
    OBVIOUS
  <2>. QED
    BY <2>1, TextReplaced
<1>3. \A i \in 1..n, was \in S : e(i, was) \in S
  <2>. SUFFICES ASSUME NEW i \in 1..n, NEW was \in S PROVE e(i, was) \in S
    OBVIOUS
  <2>1. was \in Seq(FileLine) /\ Len(was) \in 1..Len(was) /\ was[Len(was)] \in FileLine
    OBVIOUS
  <2>2. Append(was, bare) \in S
    <3>. HIDE DEF bare
    <3>. QED
      BY <1>2, <2>1, AppendProperties
  <2>. DEFINE longer == [was[Len(was)] EXCEPT !.text = Append(was[Len(was)].text, line.text[i])]
  <2>3. longer \in FileLine
    <3>1. Append(was[Len(was)].text, line.text[i]) \in Seq(Chars)
      BY <1>1, <2>1 DEF FileLine
    <3>. QED
      BY <2>1, <3>1, TextReplaced
  <2>4. [was EXCEPT ![Len(was)].text = Append(was[Len(was)].text, line.text[i])]
          = [was EXCEPT ![Len(was)] = longer]
    OBVIOUS
  <2>5. [was EXCEPT ![Len(was)] = longer] \in S
    <3>. HIDE DEF longer
    <3>1. /\ [was EXCEPT ![Len(was)] = longer] \in Seq(FileLine)
          /\ Len([was EXCEPT ![Len(was)] = longer]) = Len(was)
      BY <2>1, <2>3, ExceptSeq
    <3>. QED
      BY <2>1, <3>1
  <2>. QED
    BY <2>2, <2>4, <2>5
<1>4. base \in S
  BY <1>2
<1>5. step \in [(1..n) \X S -> S]
  <2>. HIDE DEF e, S, n
  <2>. QED
    BY <1>3
<1>6. PICK g : Computes(g, n, S, base, step)
  <2>. HIDE DEF step, S, n, base
  <2>. QED
    BY <1>1, <1>4, <1>5, Recursion
<1>7. \A i \in 1..n : g[i] = e(i, g[i - 1])
  <2>. HIDE DEF e, S, n, base
  <2>1. \A i \in 1..n : g[i - 1] \in S
    BY <1>1, <1>6 DEF Computes
  <2>. QED
    BY <1>6, <2>1 DEF Computes
<1>8. g = [i \in 0..n |-> IF i = 0 THEN base ELSE e(i, g[i - 1])]
  <2>. HIDE DEF e, S, n, base, step
  <2>. QED
    BY <1>1, <1>6, <1>7 DEF Computes
<1>. DEFINE Is(f) == f = [i \in 0..n |-> IF i = 0 THEN base ELSE e(i, f[i - 1])]
            f == CHOOSE h : Is(h)
<1>9. Is(f)
  <2>1. \E h : Is(h)
    BY <1>8
  <2>. HIDE DEF Is
  <2>. QED
    BY <2>1
<1>10. Pieces(line) = f[n]
  BY DEF Pieces
<1>11. f[0] = base /\ \A i \in 1..n : f[i] = e(i, f[i - 1])
  <2>. HIDE DEF f, e, base, n
  <2>. QED
    BY <1>1, <1>9
<1>12. \A i \in 0..n : f[i] \in S
  <2>. DEFINE T == {i \in 0..n : f[i] \in S}
  <2>. HIDE DEF f, e, base, S, n
  <2>1. 0 \in T
    BY <1>1, <1>4, <1>11
  <2>2. ASSUME NEW i \in 0..n, i # 0, i - 1 \in T PROVE i \in T
    BY <1>1, <1>3, <1>11, <2>2
  <2>3. T \subseteq 0..n
    OBVIOUS
  <2>. HIDE DEF T
  <2>4. \A i \in 0..n : i \in T
    BY <1>1, <2>1, <2>2, <2>3, Induction
  <2>. QED
    BY <2>4 DEF T
<1>. HIDE DEF f
<1>. QED
  BY <1>10, <1>11, <1>12 DEF PieceSteps

Longer(was, text) == [was EXCEPT ![Len(was)].text = text]

LEMMA OneLonger ==
  ASSUME NEW was, NEW line \in FileLine, was = <<line>>, NEW text
  PROVE  Longer(was, text) = <<[line EXCEPT !.text = text]>>
<1>. DEFINE new == [line EXCEPT !.text = text]
<1>1. Len(was) = 1 /\ was[1] = line
  OBVIOUS
<1>2. Longer(was, text) = [was EXCEPT ![1] = new]
  BY <1>1 DEF Longer
<1>. HIDE DEF new
<1>3. [was EXCEPT ![1] = new] = <<new>>
  OBVIOUS
<1>. QED
  BY <1>2, <1>3 DEF new

LEMMA PlainPieces ==
  ASSUME NEW line \in FileLine, ~Contains(line.text, "ff")
  PROVE  Pieces(line) = <<line>>
<1>. DEFINE n == Len(line.text)
            Read1(i) == [line EXCEPT !.text = SubSeq(line.text, 1, i)]
<1>0. PICK f : PieceSteps(f, line)
  BY PiecesRecursion
<1>1. /\ Pieces(line) = f[n]
      /\ f[0] = <<[line EXCEPT !.text = <<>>]>>
      /\ \A i \in 1..n :
           f[i] = IF line.text[i] = "ff" THEN Append(f[i - 1], [line EXCEPT !.text = <<>>])
                  ELSE [f[i - 1] EXCEPT ![Len(f[i - 1])].text =
                          Append(f[i - 1][Len(f[i - 1])].text, line.text[i])]
  BY <1>0 DEF PieceSteps
<1>2. /\ line.text \in Seq(Chars) /\ n \in Nat /\ \A i \in 1..n : line.text[i] # "ff"
      /\ \A i \in 1..n : line.text[i] \in Chars
  BY DEF FileLine, Contains
<1>3. \A i \in 0..n : SubSeq(line.text, 1, i) \in Seq(Chars)
  BY <1>2
<1>. DEFINE T == {i \in 0..n : f[i] = <<Read1(i)>>}
<1>4. 0 \in T
  <2>1. SubSeq(line.text, 1, 0) = <<>>
    BY <1>2
  <2>2. f[0] = <<Read1(0)>>
    BY <1>1, <2>1
  <2>. QED
    BY <1>2, <2>2
<1>5. ASSUME NEW i \in 0..n, i # 0, i - 1 \in T PROVE i \in T
  <2>1. i \in 1..n /\ f[i - 1] = <<Read1(i - 1)>>
    BY <1>2, <1>5
  <2>2. Append(SubSeq(line.text, 1, i - 1), line.text[i]) = SubSeq(line.text, 1, i)
    <3>1. 1 \in 1..Len(line.text) /\ i \in 1..Len(line.text)
      BY <1>2, <2>1
    <3>. QED
      BY <1>2, <3>1, OneMore
  <2>3. /\ Len(f[i - 1]) = 1 /\ f[i - 1][1] = Read1(i - 1)
        /\ Read1(i - 1).text = SubSeq(line.text, 1, i - 1)
    BY <1>3, <2>1, TextReplaced
  <2>4. f[i] = Longer(f[i - 1], SubSeq(line.text, 1, i))
    <3>1. f[i - 1][Len(f[i - 1])].text = SubSeq(line.text, 1, i - 1)
      BY <2>3
    <3>2. f[i] = [f[i - 1] EXCEPT ![Len(f[i - 1])].text
                                     = Append(f[i - 1][Len(f[i - 1])].text, line.text[i])]
      BY <1>1, <1>2, <2>1
    <3>. QED
      BY <2>2, <3>1, <3>2 DEF Longer
  <2>5. f[i] = <<[Read1(i - 1) EXCEPT !.text = SubSeq(line.text, 1, i)]>>
    <3>1. SubSeq(line.text, 1, i - 1) \in Seq(Chars)
      BY <1>3, <2>1
    <3>2. Read1(i - 1) \in FileLine
      BY <3>1, TextReplaced
    <3>. HIDE DEF Read1
    <3>. QED
      BY <2>1, <2>4, <3>2, OneLonger
  <2>6. [Read1(i - 1) EXCEPT !.text = SubSeq(line.text, 1, i)] = Read1(i)
    BY DEF FileLine
  <2>. QED
    BY <2>5, <2>6
<1>6. n \in T
  <2>1. T \subseteq 0..n
    OBVIOUS
  <2>. HIDE DEF T, n
  <2>2. \A i \in 0..n : i \in T
    BY <1>2, <1>4, <1>5, <2>1, Induction
  <2>. QED
    BY <1>2, <2>2
<1>7. f[n] = <<Read1(n)>>
  BY <1>6
<1>8. Read1(n) = line
  <2>1. SubSeq(line.text, 1, n) = line.text
    BY <1>2
  <2>. QED
    BY <2>1 DEF FileLine
<1>. QED
  BY <1>1, <1>7, <1>8

SplitSteps(f, lines) ==
  /\ SplitLines(lines) = f[Len(lines)]
  /\ f[0] = <<>>
  /\ \A i \in 1..Len(lines) : f[i] = f[i - 1] \o Pieces(lines[i])
  /\ \A i \in 0..Len(lines) : f[i] \in Seq(FileLine)

LEMMA SplitRecursion ==
  ASSUME NEW lines \in Seq(FileLine)
  PROVE  \E f : SplitSteps(f, lines)
<1>. DEFINE n == Len(lines)
            S == Seq(FileLine)
            e(i, was) == was \o Pieces(lines[i])
            step == [p \in (1..n) \X S |-> e(p[1], p[2])]
            Is(f) == f = [i \in 0..n |-> IF i = 0 THEN <<>> ELSE e(i, f[i - 1])]
            f == CHOOSE h : Is(h)
<1>1. n \in Nat /\ <<>> \in S /\ \A i \in 1..n : lines[i] \in FileLine
  OBVIOUS
<1>2. ASSUME NEW i \in 1..n PROVE Pieces(lines[i]) \in S
  <2>1. lines[i] \in FileLine
    BY <1>1
  <2>2. Len(lines[i].text) \in Nat
    BY <2>1 DEF FileLine
  <2>3. PICK f1 : PieceSteps(f1, lines[i])
    BY <2>1, PiecesRecursion
  <2>. QED
    BY <2>2, <2>3 DEF PieceSteps
<1>3. \A i \in 1..n, was \in S : e(i, was) \in S
  BY <1>2, ConcatProperties
<1>4. step \in [(1..n) \X S -> S]
  <2>. HIDE DEF S, n, e
  <2>. QED
    BY <1>3
<1>5. PICK g : Computes(g, n, S, <<>>, step)
  <2>. HIDE DEF step, S, n
  <2>. QED
    BY <1>1, <1>4, Recursion
<1>6. \A i \in 1..n : g[i] = e(i, g[i - 1])
  <2>. HIDE DEF S, n, e
  <2>1. \A i \in 1..n : g[i - 1] \in S
    BY <1>1, <1>5 DEF Computes
  <2>. QED
    BY <1>5, <2>1 DEF Computes
<1>7. Is(g)
  <2>. HIDE DEF S, n, e, step
  <2>. QED
    BY <1>1, <1>5, <1>6 DEF Computes
<1>8. Is(f)
  <2>. HIDE DEF Is
  <2>. QED
    BY <1>7
<1>9. SplitLines(lines) = f[n]
  BY DEF SplitLines
<1>10. f[0] = <<>> /\ \A i \in 1..n : f[i] = e(i, f[i - 1])
  <2>. HIDE DEF f, e, n
  <2>. QED
    BY <1>1, <1>8
<1>11. \A i \in 0..n : f[i] \in S
  <2>. DEFINE T == {i \in 0..n : f[i] \in S}
  <2>. HIDE DEF f, e, S, n
  <2>1. 0 \in T
    BY <1>1, <1>10
  <2>2. ASSUME NEW i \in 0..n, i # 0, i - 1 \in T PROVE i \in T
    BY <1>1, <1>3, <1>10, <2>2
  <2>3. T \subseteq 0..n
    OBVIOUS
  <2>. HIDE DEF T
  <2>4. \A i \in 0..n : i \in T
    BY <1>1, <2>1, <2>2, <2>3, Induction
  <2>. QED
    BY <2>4 DEF T
<1>. HIDE DEF f
<1>. QED
  BY <1>9, <1>10, <1>11 DEF SplitSteps

LEMMA PlainSplit ==
  ASSUME NEW lines \in Seq(FileLine)
  PROVE  SplitLines(lines) \in Seq(FileLine) /\ (Plain(lines) => SplitLines(lines) = lines)
<1>. DEFINE n == Len(lines)
<1>0. PICK f : SplitSteps(f, lines)
  BY SplitRecursion
<1>1. /\ SplitLines(lines) = f[n]
      /\ f[0] = <<>>
      /\ \A i \in 1..n : f[i] = f[i - 1] \o Pieces(lines[i])
      /\ \A i \in 0..n : f[i] \in Seq(FileLine)
  BY <1>0 DEF SplitSteps
<1>2. n \in Nat /\ n \in 0..n /\ \A i \in 1..n : lines[i] \in FileLine
  OBVIOUS
<1>3. ASSUME Plain(lines) PROVE f[n] = lines
  <2>. DEFINE T == {i \in 0..n : f[i] = SubSeq(lines, 1, i)}
  <2>1. 0 \in T
    BY <1>1, <1>2
  <2>2. ASSUME NEW i \in 0..n, i # 0, i - 1 \in T PROVE i \in T
    <3>1. i \in 1..n /\ f[i - 1] = SubSeq(lines, 1, i - 1)
      BY <1>2, <2>2
    <3>2. Pieces(lines[i]) = <<lines[i]>>
      BY <1>2, <1>3, <3>1, PlainPieces DEF Plain
    <3>3. f[i] = SubSeq(lines, 1, i - 1) \o <<lines[i]>>
      BY <1>1, <3>1, <3>2
    <3>4. SubSeq(lines, 1, i) = SubSeq(lines, 1, i - 1) \o <<lines[i]>>
      BY <1>2, <3>1
    <3>. QED
      BY <3>3, <3>4
  <2>3. T \subseteq 0..n
    OBVIOUS
  <2>4. n \in T
    <3>. HIDE DEF T, n
    <3>1. \A i \in 0..n : i \in T
      BY <1>2, <2>1, <2>2, <2>3, Induction
    <3>. QED
      BY <1>2, <3>1
  <2>5. SubSeq(lines, 1, n) = lines
    OBVIOUS
  <2>. QED
    BY <2>4, <2>5
<1>. QED
  BY <1>1, <1>2, <1>3

-----------------------------------------------------------------------------
(***************************************************************************)
(* What the parser accepts.                                                *)
(***************************************************************************)
LEMMA LeastIsMin ==
  ASSUME NEW I, I \subseteq Nat, I # {}
  PROVE  Min(I) \in I /\ \A i \in I : Min(I) <= i
<1>1. \E x \in I : \A y \in I : x <= y
  BY LeastNatural
<1>. QED
  BY <1>1 DEF Min

(* The first Up, and where the section behind it ends.                      *)
LEMMA FirstUpFacts ==
  ASSUME written \in Seq(FileLine)
  PROVE  /\ FirstUp \in 0..Len(written)
         /\ FirstUp = 0 => \A i \in 1..Len(written) : written[i].mark # "Up"
         /\ FirstUp # 0 => written[FirstUp].mark = "Up"
         /\ \A i \in 1..(FirstUp - 1) : written[i].mark # "Up"
<1>. DEFINE I == {i \in 1..Len(written) : written[i].mark = "Up"}
<1>1. FirstUp = IF I # {} THEN Min(I) ELSE 0
  BY DEF FirstUp, SelectInSeq
<1>2. Len(written) \in Nat /\ I \subseteq 1..Len(written) /\ I \subseteq Nat
  OBVIOUS
<1>3. CASE I = {}
  <2>1. FirstUp = 0
    BY <1>1, <1>3
  <2>2. \A i \in 1..Len(written) : written[i].mark # "Up"
    BY <1>3
  <2>. QED
    BY <1>2, <2>1, <2>2
<1>4. CASE I # {}
  <2>1. Min(I) \in I /\ \A i \in I : Min(I) <= i
    <3>. HIDE DEF I
    <3>. QED
      BY <1>2, <1>4, LeastIsMin
  <2>2. FirstUp \in I /\ \A i \in I : FirstUp <= i
    <3>. HIDE DEF I
    <3>. QED
      BY <1>1, <1>4, <2>1
  <2>. HIDE DEF FirstUp
  <2>3. FirstUp \in 1..Len(written) /\ written[FirstUp].mark = "Up"
    BY <2>2
  <2>4. \A i \in 1..(FirstUp - 1) : i \in 1..Len(written) /\ ~(FirstUp <= i)
    BY <1>2, <2>3
  <2>5. \A i \in 1..(FirstUp - 1) : written[i].mark # "Up"
    BY <2>2, <2>4
  <2>. QED
    BY <2>3, <2>5
<1>. QED
  BY <1>3, <1>4

LEMMA SectionFacts ==
  ASSUME written \in Seq(FileLine), FirstUp # 0
  PROVE  /\ FirstDown \in (FirstUp + 1)..(Len(written) + 1)
         /\ FirstDown # Len(written) + 1 => written[FirstDown].mark = "Down"
         /\ \A i \in (FirstUp + 1)..(FirstDown - 1) : written[i].mark # "Down"
<1>. DEFINE u == FirstUp
            I == {i \in (u + 1)..Len(written) : written[i].mark = "Down"}
<1>1. u \in 1..Len(written) /\ Len(written) \in Nat
  BY FirstUpFacts
<1>. HIDE DEF u
<1>2. FirstDown = IF (IF I # {} THEN Min(I) ELSE 0) = 0 THEN Len(written) + 1
                  ELSE (IF I # {} THEN Min(I) ELSE 0)
  BY DEF FirstDown, SelectInSubSeq, u
<1>3. I \subseteq (u + 1)..Len(written) /\ I \subseteq Nat
  BY <1>1
<1>4. CASE I = {}
  <2>1. FirstDown = Len(written) + 1
    BY <1>2, <1>4
  <2>2. \A i \in (u + 1)..Len(written) : written[i].mark # "Down"
    BY <1>4
  <2>. QED
    BY <1>1, <2>1, <2>2 DEF u
<1>5. CASE I # {}
  <2>1. Min(I) \in I /\ \A i \in I : Min(I) <= i
    <3>. HIDE DEF I
    <3>. QED
      BY <1>3, <1>5, LeastIsMin
  <2>2. Min(I) # 0
    BY <1>1, <2>1
  <2>3. FirstDown \in I /\ \A i \in I : FirstDown <= i
    <3>. HIDE DEF I
    <3>. QED
      BY <1>2, <1>5, <2>1, <2>2
  <2>. HIDE DEF FirstDown
  <2>4. FirstDown \in (u + 1)..Len(written) /\ written[FirstDown].mark = "Down"
    BY <2>3
  <2>5. \A i \in (u + 1)..(FirstDown - 1) : i \in (u + 1)..Len(written) /\ ~(FirstDown <= i)
    BY <1>1, <2>4
  <2>6. \A i \in (u + 1)..(FirstDown - 1) : written[i].mark # "Down"
    BY <2>3, <2>5
  <2>. QED
    BY <1>1, <2>4, <2>6 DEF u
<1>. QED
  BY <1>4, <1>5

(* The lines of the two parts.                                             *)
LEMMA PartLines ==
  ASSUME written \in Seq(FileLine), FirstUp # 0
  PROVE  /\ Section \in Seq(FileLine) /\ Preamble \in Seq(FileLine)
         /\ Len(Section) = FirstDown - 1 - FirstUp /\ Len(Preamble) = FirstUp - 1
         /\ \A i \in 1..Len(Section) : Section[i] = written[FirstUp + i]
         /\ \A i \in 1..Len(Preamble) : Preamble[i] = written[i]
<1>1. /\ FirstUp \in 1..Len(written) /\ FirstDown \in (FirstUp + 1)..(Len(written) + 1)
      /\ Len(written) \in Nat
  BY FirstUpFacts, SectionFacts
<1>. DEFINE a == FirstUp
            b == FirstDown
<1>. HIDE DEF FirstUp, FirstDown
<1>2. /\ \A i \in (a + 1)..(b - 1) : written[i] \in FileLine
      /\ \A i \in 1..(a - 1) : written[i] \in FileLine
  BY <1>1
<1>3. \A m \in Int, n \in Int :
        (\A i \in m..n : written[i] \in FileLine)
          => /\ SubSeq(written, m, n) \in Seq(FileLine)
             /\ Len(SubSeq(written, m, n)) = IF m <= n THEN n - m + 1 ELSE 0
             /\ \A i \in 1..(n - m + 1) : SubSeq(written, m, n)[i] = written[m + i - 1]
  BY SubSeqProperties
<1>4. a + 1 \in Int /\ b - 1 \in Int /\ a - 1 \in Int /\ 1 \in Int
  BY <1>1
<1>5. /\ Section \in Seq(FileLine)
      /\ Len(Section) = IF a + 1 <= b - 1 THEN b - 1 - (a + 1) + 1 ELSE 0
      /\ \A i \in 1..(b - 1 - (a + 1) + 1) : Section[i] = written[a + 1 + i - 1]
  BY <1>2, <1>3, <1>4 DEF Section
<1>6. /\ Preamble \in Seq(FileLine)
      /\ Len(Preamble) = IF 1 <= a - 1 THEN a - 1 - 1 + 1 ELSE 0
      /\ \A i \in 1..(a - 1 - 1 + 1) : Preamble[i] = written[1 + i - 1]
  BY <1>2, <1>3, <1>4 DEF Preamble
<1>7. Len(Section) = b - 1 - a /\ Len(Preamble) = a - 1
  BY <1>1, <1>5, <1>6
<1>8. \A i \in 1..(b - 1 - a) : /\ i \in 1..(b - 1 - (a + 1) + 1)
                                /\ a + 1 + i - 1 = a + i
  BY <1>1
<1>9. \A i \in 1..(a - 1) : i \in 1..(a - 1 - 1 + 1) /\ 1 + i - 1 = i
  BY <1>1
<1>. QED
  BY <1>5, <1>6, <1>7, <1>8, <1>9

(* Inside a body, line by line.                                            *)
LEMMA BodySteps ==
  ASSUME Section \in Seq(FileLine)
  PROVE  /\ \A i \in 0..Len(Section) : InBody[i] \in BOOLEAN
         /\ InBody[0] = FALSE
         /\ \A i \in 1..Len(Section) :
              InBody[i] = IF InBody[i - 1] THEN Section[i].mark # "End" ELSE Section[i].mark = "Begin"
<1>. DEFINE n == Len(Section)
            e(i, was) == IF was THEN Section[i].mark # "End" ELSE Section[i].mark = "Begin"
            step == [p \in (1..n) \X BOOLEAN |-> e(p[1], p[2])]
            Is(f) == f = [i \in 0..n |->
                            i > 0 /\ (IF f[i - 1] THEN Section[i].mark # "End"
                                      ELSE Section[i].mark = "Begin")]
            f == CHOOSE h : Is(h)
<1>1. n \in Nat /\ FALSE \in BOOLEAN
  OBVIOUS
<1>2. \A i, was : e(i, was) \in BOOLEAN
  OBVIOUS
<1>3. step \in [(1..n) \X BOOLEAN -> BOOLEAN]
  <2>. HIDE DEF e, n
  <2>. QED
    BY <1>2
<1>4. PICK g : Computes(g, n, BOOLEAN, FALSE, step)
  <2>. HIDE DEF step, n
  <2>. QED
    BY <1>1, <1>3, Recursion
<1>5. g \in [0..n -> BOOLEAN] /\ g[0] = FALSE /\ \A i \in 1..n : g[i] = e(i, g[i - 1])
  <2>. HIDE DEF n, e
  <2>1. \A i \in 1..n : g[i - 1] \in BOOLEAN
    BY <1>1, <1>4 DEF Computes
  <2>. QED
    BY <1>4, <2>1 DEF Computes
<1>6. Is(g)
  <2>1. \A i \in 0..n : g[i] = (i > 0 /\ e(i, g[i - 1]))
    <3>. HIDE DEF e, n
    <3>1. g[0] = (0 > 0 /\ e(0, g[0 - 1]))
      <4>1. ~(0 > 0)
        OBVIOUS
      <4>2. (0 > 0 /\ e(0, g[0 - 1])) = FALSE
        BY <4>1
      <4>. QED
        BY <1>5, <4>2
    <3>2. \A i \in 1..n : g[i] = (i > 0 /\ e(i, g[i - 1]))
      BY <1>2, <1>5
    <3>. QED
      BY <1>1, <3>1, <3>2
  <2>. HIDE DEF n
  <2>. QED
    BY <1>5, <2>1
<1>7. Is(f)
  <2>. HIDE DEF Is
  <2>. QED
    BY <1>6
<1>8. InBody = f
  BY DEF InBody
<1>9. /\ f[0] = (0 > 0 /\ e(0, f[0 - 1]))
      /\ \A i \in 1..n : f[i] = (i > 0 /\ e(i, f[i - 1]))
  <2>. HIDE DEF f, n
  <2>. QED
    BY <1>1, <1>7
<1>10. f[0] = FALSE /\ \A i \in 1..n : f[i] = e(i, f[i - 1])
  <2>. HIDE DEF f, e, n
  <2>1. ~(0 > 0) /\ \A i \in 1..n : i > 0
    BY <1>1
  <2>2. f[0] = FALSE
    BY <1>9, <2>1
  <2>3. \A i \in 1..n : f[i] = e(i, f[i - 1])
    BY <1>2, <1>9, <2>1
  <2>. QED
    BY <2>2, <2>3
<1>11. \A i \in 0..n : f[i] \in BOOLEAN
  <2>. HIDE DEF f, e, n
  <2>1. \A i \in 0..n : i = 0 \/ i \in 1..n
    BY <1>1
  <2>2. f[0] \in BOOLEAN /\ \A i \in 1..n : f[i] \in BOOLEAN
    BY <1>2, <1>10
  <2>. QED
    BY <2>1, <2>2
<1>. HIDE DEF f
<1>. QED
  BY <1>8, <1>10, <1>11

-----------------------------------------------------------------------------
(***************************************************************************)
(* The types, and the loops of the split one step at a time.               *)
(***************************************************************************)
Gathered == [text : Texts, quoted : BOOLEAN, comment : BOOLEAN, out : Seq(Texts)]
NothingGathered == [text |-> <<>>, quoted |-> FALSE, comment |-> FALSE, out |-> <<>>]

LEMMA GreatestIsMax ==
  ASSUME NEW n \in Nat, NEW I, I \subseteq 0..n, I # {}
  PROVE  Max(I) \in I /\ \A i \in I : i <= Max(I)
<1>. DEFINE J == {n - i : i \in I}
<1>1. J \subseteq Nat /\ J # {}
  <2>1. \A i \in I : n - i \in Nat
    OBVIOUS
  <2>. QED
    BY <2>1
<1>2. PICK x \in J : \A y \in J : x <= y
  <2>. HIDE DEF J
  <2>. QED
    BY <1>1, LeastNatural
<1>3. PICK m \in I : x = n - m
  BY <1>2
<1>4. \A i \in I : n - m <= n - i
  BY <1>2, <1>3
<1>5. \A i \in I : m >= i
  BY <1>3, <1>4
<1>6. \E k \in I : \A i \in I : k >= i
  BY <1>3, <1>5
<1>7. Max(I) \in I /\ \A i \in I : Max(I) >= i
  BY <1>6 DEF Max
<1>. QED
  BY <1>7

LEMMA StripTyped ==
  ASSUME NEW text \in Texts
  PROVE  Strip(text) \in Texts
<1>. DEFINE I == {i \in DOMAIN text : text[i] # NL}
<1>1. CASE I = {}
  BY <1>1 DEF Strip, Texts
<1>2. CASE I # {}
  <2>1. Strip(text) = SubSeq(text, Min(I), Max(I))
    BY <1>2 DEF Strip
  <2>2. I \subseteq 1..Len(text) /\ I \subseteq 0..Len(text) /\ I \subseteq Nat /\ Len(text) \in Nat
    BY DEF Texts
  <2>3. Min(I) \in I /\ Max(I) \in I
    <3>. HIDE DEF I
    <3>. QED
      BY <1>2, <2>2, LeastIsMin, GreatestIsMax
  <2>. DEFINE a == Min(I)
              b == Max(I)
  <2>4. a \in 1..Len(text) /\ b \in 1..Len(text)
    BY <2>2, <2>3
  <2>. HIDE DEF a, b
  <2>5. \A i \in a..b : text[i] \in Chars \cup {NL}
    BY <2>2, <2>4 DEF Texts
  <2>6. SubSeq(text, a, b) \in Seq(Chars \cup {NL})
    BY <2>2, <2>4, <2>5, SubSeqProperties
  <2>. QED
    BY <2>1, <2>6 DEF a, b, Texts
<1>. QED
  BY <1>1, <1>2

LEMMA RecordGathered ==
  ASSUME NEW text \in Texts, NEW quoted \in BOOLEAN, NEW comment \in BOOLEAN,
         NEW out \in Seq(Texts), NEW acc,
         acc = [text |-> text, quoted |-> quoted, comment |-> comment, out |-> out]
  PROVE  /\ acc \in Gathered
         /\ acc.text = text /\ acc.quoted = quoted /\ acc.comment = comment /\ acc.out = out
BY DEF Gathered

LEMMA FlushTyped ==
  ASSUME NEW acc \in Gathered
  PROVE  /\ Flush(acc) \in Gathered
         /\ Flush(acc).text = <<>>
         /\ Flush(acc).quoted = acc.quoted /\ Flush(acc).comment = acc.comment
         /\ Flush(acc).out = IF CommentOnly(Strip(acc.text)) THEN acc.out
                             ELSE Append(acc.out, Strip(acc.text))
<1>. DEFINE out == IF CommentOnly(Strip(acc.text)) THEN acc.out
                   ELSE Append(acc.out, Strip(acc.text))
<1>1. out \in Seq(Texts) /\ <<>> \in Texts
  BY StripTyped DEF Gathered, Texts
<1>2. Flush(acc) = [acc EXCEPT !.text = <<>>, !.out = out]
  BY DEF Flush, Gathered
<1>. HIDE DEF out
<1>3. Flush(acc) = [text |-> <<>>, quoted |-> acc.quoted, comment |-> acc.comment, out |-> out]
  BY <1>2 DEF Gathered
<1>4. Flush(acc) \in Gathered
  BY <1>1, <1>3 DEF Gathered
<1>. QED
  BY <1>3, <1>4 DEF out

(* A character that does not end a statement.                              *)
LEMMA ReadOn ==
  ASSUME NEW acc \in Gathered, NEW c \in Chars, ~(c = ";" /\ ~acc.quoted /\ ~acc.comment)
  PROVE  /\ Read(acc, c) \in Gathered
         /\ Read(acc, c).text = Append(acc.text, c)
         /\ Read(acc, c).quoted = IF c = "'" /\ ~acc.comment THEN ~acc.quoted ELSE acc.quoted
         /\ Read(acc, c).comment = (acc.comment \/ (c = "--" /\ ~acc.quoted))
         /\ Read(acc, c).out = acc.out
<1>. DEFINE quoted == IF c = "'" /\ ~acc.comment THEN ~acc.quoted ELSE acc.quoted
            comment == acc.comment \/ (c = "--" /\ ~acc.quoted)
            text == Append(acc.text, c)
<1>1. Read(acc, c) = [acc EXCEPT !.text = text, !.quoted = quoted, !.comment = comment]
  BY DEF Read, Gathered
<1>2. text \in Texts /\ acc.out \in Seq(Texts) /\ acc.quoted \in BOOLEAN /\ acc.comment \in BOOLEAN
  <2>1. acc.text \in Seq(Chars \cup {NL}) /\ c \in Chars \cup {NL}
    BY DEF Gathered, Texts
  <2>2. text \in Seq(Chars \cup {NL})
    BY <2>1, AppendProperties
  <2>. QED
    BY <2>2 DEF Gathered, Texts
<1>3. quoted \in BOOLEAN /\ comment \in BOOLEAN
  BY <1>2
<1>. HIDE DEF quoted, comment, text
<1>4. Read(acc, c) = [text |-> text, quoted |-> quoted, comment |-> comment, out |-> acc.out]
  BY <1>1 DEF Gathered
<1>5. /\ Read(acc, c) \in Gathered
      /\ Read(acc, c).text = text /\ Read(acc, c).quoted = quoted
      /\ Read(acc, c).comment = comment /\ Read(acc, c).out = acc.out
  <2>1. PICK q \in BOOLEAN, k \in BOOLEAN : q = quoted /\ k = comment
    BY <1>3
  <2>2. Read(acc, c) = [text |-> text, quoted |-> q, comment |-> k, out |-> acc.out]
    BY <1>4, <2>1
  <2>3. /\ Read(acc, c) \in Gathered
        /\ Read(acc, c).text = text /\ Read(acc, c).quoted = q
        /\ Read(acc, c).comment = k /\ Read(acc, c).out = acc.out
    <3>. DEFINE new == Read(acc, c)
    <3>1. new = [text |-> text, quoted |-> q, comment |-> k, out |-> acc.out]
      BY <2>2
    <3>. HIDE DEF new
    <3>2. new \in Gathered /\ new.text = text /\ new.quoted = q /\ new.comment = k /\ new.out = acc.out
      BY ONLY <1>2, <3>1, q \in BOOLEAN, k \in BOOLEAN, RecordGathered
    <3>. QED
      BY <3>2 DEF new
  <2>. QED
    BY <2>1, <2>3
<1>. QED
  BY <1>5 DEF quoted, comment, text

LEMMA ReadTyped ==
  ASSUME NEW acc \in Gathered, NEW c \in Chars
  PROVE  Read(acc, c) \in Gathered
<1>1. CASE c = ";" /\ ~acc.quoted /\ ~acc.comment
  BY <1>1, FlushTyped DEF Read
<1>2. CASE ~(c = ";" /\ ~acc.quoted /\ ~acc.comment)
  BY <1>2, ReadOn
<1>. QED
  BY <1>1, <1>2

LineSteps(f, acc, text) ==
  /\ ReadLine(acc, text) = f[Len(text)]
  /\ f[0] = acc
  /\ \A i \in 1..Len(text) : f[i] = Read(f[i - 1], text[i])
  /\ \A i \in 0..Len(text) : f[i] \in Gathered

LEMMA ReadLineRecursion ==
  ASSUME NEW acc \in Gathered, NEW text \in Seq(Chars)
  PROVE  \E f : LineSteps(f, acc, text)
<1>. DEFINE n == Len(text)
            e(i, was) == Read(was, text[i])
            step == [p \in (1..n) \X Gathered |-> e(p[1], p[2])]
            Is(f) == f = [i \in 0..n |-> IF i = 0 THEN acc ELSE e(i, f[i - 1])]
            f == CHOOSE h : Is(h)
<1>1. n \in Nat /\ \A i \in 1..n : text[i] \in Chars
  OBVIOUS
<1>2. \A i \in 1..n, was \in Gathered : e(i, was) \in Gathered
  BY <1>1, ReadTyped
<1>3. step \in [(1..n) \X Gathered -> Gathered]
  <2>. HIDE DEF e, n
  <2>. QED
    BY <1>2
<1>4. PICK g : Computes(g, n, Gathered, acc, step)
  <2>. HIDE DEF step, n
  <2>. QED
    BY <1>1, <1>3, Recursion
<1>5. \A i \in 1..n : g[i] = e(i, g[i - 1])
  <2>. HIDE DEF n, e
  <2>1. \A i \in 1..n : g[i - 1] \in Gathered
    BY <1>1, <1>4 DEF Computes
  <2>. QED
    BY <1>4, <2>1 DEF Computes
<1>6. Is(g)
  <2>. HIDE DEF n, e, step
  <2>. QED
    BY <1>1, <1>4, <1>5 DEF Computes
<1>7. Is(f)
  <2>. HIDE DEF Is
  <2>. QED
    BY <1>6
<1>8. ReadLine(acc, text) = f[n]
  BY DEF ReadLine
<1>9. f[0] = acc /\ \A i \in 1..n : f[i] = e(i, f[i - 1])
  <2>. HIDE DEF f, e, n
  <2>. QED
    BY <1>1, <1>7
<1>10. \A i \in 0..n : f[i] \in Gathered
  <2>. DEFINE T == {i \in 0..n : f[i] \in Gathered}
  <2>. HIDE DEF f, e, n
  <2>1. 0 \in T
    BY <1>1, <1>9
  <2>2. ASSUME NEW i \in 0..n, i # 0, i - 1 \in T PROVE i \in T
    BY <1>1, <1>2, <1>9, <2>2
  <2>3. T \subseteq 0..n
    OBVIOUS
  <2>. HIDE DEF T
  <2>4. \A i \in 0..n : i \in T
    BY <1>1, <2>1, <2>2, <2>3, Induction
  <2>. QED
    BY <2>4 DEF T
<1>. HIDE DEF f
<1>. QED
  BY <1>8, <1>9, <1>10 DEF LineSteps

LEMMA FragmentTyped ==
  ASSUME NEW acc \in Gathered, NEW text \in Seq(Chars)
  PROVE  LET line == ReadLine(acc, text) IN
         /\ line \in Gathered
         /\ ReadFragment(acc, text) \in Gathered
         /\ ReadFragment(acc, text) = [text |-> Append(line.text, NL), quoted |-> line.quoted,
                                       comment |-> FALSE, out |-> line.out]
<1>1. PICK f : LineSteps(f, acc, text)
  BY ReadLineRecursion
<1>. DEFINE line == ReadLine(acc, text)
<1>2. line \in Gathered
  <2>1. Len(text) \in 0..Len(text)
    OBVIOUS
  <2>. QED
    BY <1>1, <2>1 DEF LineSteps
<1>3. ReadFragment(acc, text) = [line EXCEPT !.text = Append(line.text, NL), !.comment = FALSE]
  BY DEF ReadFragment
<1>. HIDE DEF line
<1>4. ReadFragment(acc, text) = [text |-> Append(line.text, NL), quoted |-> line.quoted,
                                 comment |-> FALSE, out |-> line.out]
  BY <1>2, <1>3 DEF Gathered
<1>5. Append(line.text, NL) \in Texts
  BY <1>2 DEF Gathered, Texts
<1>6. ReadFragment(acc, text) \in Gathered
  BY <1>2, <1>4, <1>5 DEF Gathered
<1>. QED
  BY <1>2, <1>4, <1>6 DEF line

GatherSteps(f, texts) ==
  /\ Gather(texts) = f[Len(texts)]
  /\ f[0] = NothingGathered
  /\ \A i \in 1..Len(texts) : f[i] = ReadFragment(f[i - 1], texts[i])
  /\ \A i \in 0..Len(texts) : f[i] \in Gathered

LEMMA GatherRecursion ==
  ASSUME NEW texts \in Seq(Seq(Chars))
  PROVE  \E f : GatherSteps(f, texts)
<1>. DEFINE n == Len(texts)
            e(i, was) == ReadFragment(was, texts[i])
            step == [p \in (1..n) \X Gathered |-> e(p[1], p[2])]
            Is(f) == f = [i \in 0..n |-> IF i = 0 THEN NothingGathered ELSE e(i, f[i - 1])]
            f == CHOOSE h : Is(h)
<1>0. NothingGathered \in Gathered
  BY DEF NothingGathered, Gathered, Texts
<1>1. n \in Nat /\ \A i \in 1..n : texts[i] \in Seq(Chars)
  OBVIOUS
<1>2. \A i \in 1..n, was \in Gathered : e(i, was) \in Gathered
  BY <1>1, FragmentTyped
<1>3. step \in [(1..n) \X Gathered -> Gathered]
  <2>. HIDE DEF e, n
  <2>. QED
    BY <1>2
<1>4. PICK g : Computes(g, n, Gathered, NothingGathered, step)
  <2>. HIDE DEF step, n
  <2>. QED
    BY <1>0, <1>1, <1>3, Recursion
<1>5. \A i \in 1..n : g[i] = e(i, g[i - 1])
  <2>. HIDE DEF n, e
  <2>1. \A i \in 1..n : g[i - 1] \in Gathered
    BY <1>1, <1>4 DEF Computes
  <2>. QED
    BY <1>4, <2>1 DEF Computes
<1>6. Is(g)
  <2>. HIDE DEF n, e, step
  <2>. QED
    BY <1>1, <1>4, <1>5 DEF Computes
<1>7. Is(f)
  <2>. HIDE DEF Is
  <2>. QED
    BY <1>6
<1>8. Gather(texts) = f[n]
  BY DEF Gather, NothingGathered
<1>9. f[0] = NothingGathered /\ \A i \in 1..n : f[i] = e(i, f[i - 1])
  <2>. HIDE DEF f, e, n
  <2>. QED
    BY <1>1, <1>7
<1>10. \A i \in 0..n : f[i] \in Gathered
  <2>. DEFINE T == {i \in 0..n : f[i] \in Gathered}
  <2>. HIDE DEF f, e, n
  <2>1. 0 \in T
    BY <1>0, <1>1, <1>9
  <2>2. ASSUME NEW i \in 0..n, i # 0, i - 1 \in T PROVE i \in T
    BY <1>1, <1>2, <1>9, <2>2
  <2>3. T \subseteq 0..n
    OBVIOUS
  <2>. HIDE DEF T
  <2>4. \A i \in 0..n : i \in T
    BY <1>1, <2>1, <2>2, <2>3, Induction
  <2>. QED
    BY <2>4 DEF T
<1>. HIDE DEF f
<1>. QED
  BY <1>8, <1>9, <1>10 DEF GatherSteps

(* One more line gathered.                                                 *)
LEMMA GatherOneMore ==
  ASSUME NEW texts \in Seq(Seq(Chars)), NEW text \in Seq(Chars)
  PROVE  /\ Gather(texts) \in Gathered
         /\ Gather(<<>>) = NothingGathered
         /\ Gather(Append(texts, text)) = ReadFragment(Gather(texts), text)
<1>. DEFINE n == Len(texts)
            more == Append(texts, text)
<1>0. n \in Nat /\ Len(more) = n + 1 /\ more \in Seq(Seq(Chars)) /\ more[n + 1] = text
      /\ \A i \in 1..n : more[i] = texts[i]
  OBVIOUS
<1>1. PICK f : GatherSteps(f, texts)
  BY GatherRecursion
<1>2. PICK h : GatherSteps(h, more)
  <2>. HIDE DEF more
  <2>. QED
    BY <1>0, GatherRecursion
<1>3. Gather(<<>>) = NothingGathered
  <2>1. <<>> \in Seq(Seq(Chars)) /\ Len(<<>>) = 0
    OBVIOUS
  <2>2. PICK k : GatherSteps(k, <<>>)
    BY <2>1, GatherRecursion
  <2>. QED
    BY <2>1, <2>2 DEF GatherSteps
<1>. HIDE DEF more, n
<1>4. \A i \in 0..n : h[i] = f[i]
  <2>. DEFINE T == {i \in 0..n : h[i] = f[i]}
  <2>1. 0 \in T
    BY <1>0, <1>1, <1>2 DEF GatherSteps
  <2>2. ASSUME NEW i \in 0..n, i # 0, i - 1 \in T PROVE i \in T
    <3>1. i \in 1..n /\ i \in 1..(n + 1) /\ h[i - 1] = f[i - 1]
      BY <1>0, <2>2
    <3>2. h[i] = ReadFragment(h[i - 1], more[i]) /\ f[i] = ReadFragment(f[i - 1], texts[i])
      BY <1>0, <1>1, <1>2, <3>1 DEF GatherSteps, n
    <3>. QED
      BY <1>0, <3>1, <3>2
  <2>3. T \subseteq 0..n
    OBVIOUS
  <2>. HIDE DEF T
  <2>4. \A i \in 0..n : i \in T
    BY <1>0, <2>1, <2>2, <2>3, Induction
  <2>. QED
    BY <2>4 DEF T
<1>5. Gather(more) = ReadFragment(h[n], text)
  <2>1. n + 1 \in 1..Len(more) /\ (n + 1) - 1 = n
    BY <1>0
  <2>. QED
    BY <1>0, <1>2, <2>1 DEF GatherSteps
<1>6. n \in 0..n /\ Gather(texts) = f[n] /\ f[n] \in Gathered
  BY <1>0, <1>1 DEF GatherSteps, n
<1>. QED
  BY <1>3, <1>4, <1>5, <1>6 DEF more

LEMMA SplitTyped ==
  ASSUME NEW texts \in Seq(Seq(Chars))
  PROVE  SplitFragments(texts) \in Seq(Texts)
<1>1. <<>> \in Seq(Chars)
  OBVIOUS
<1>2. Gather(texts) \in Gathered
  BY <1>1, GatherOneMore
<1>3. Flush(Gather(texts)) \in Gathered
  BY <1>2, FlushTyped
<1>. QED
  BY <1>3 DEF SplitFragments, Gathered

(* What a step reads.                                                      *)
LEMMA LineRead ==
  ASSUME rest \in Seq(FileLine), rest # <<>>
  PROVE  /\ Line \in FileLine /\ Line.mark \in Marks /\ Line.text \in Seq(Chars)
         /\ Tail(rest) \in Seq(FileLine)
<1>1. Head(rest) \in FileLine /\ Tail(rest) \in Seq(FileLine)
  BY HeadTailProperties
<1>. QED
  BY <1>1 DEF Line, FileLine

LEMMA ParserTypeStep ==
  ASSUME ParserTypeOK, [ParserNext]_parserVars
  PROVE  ParserTypeOK'
<1>0. /\ written \in Seq(FileLine) /\ rest \in Seq(FileLine) /\ up \in Seq(FileLine)
      /\ noTransaction \in BOOLEAN
      /\ header \in Seq(Seq(Chars)) /\ fragments \in Seq(Seq(Chars))
      /\ statements \in Seq(Texts)
      /\ body \in [open : BOOLEAN, text : Texts]
      /\ pass \in {"header", "up", "split", "check", "parsed", "error"}
      /\ pass = "header" => up = <<>>
  BY DEF ParserTypeOK
<1>a. ASSUME rest # <<>>, Consume
      PROVE  written' \in Seq(FileLine) /\ rest' \in Seq(FileLine)
  BY <1>0, <1>a, LineRead DEF Consume
<1>1. CASE HeaderLine
  <2>1. Append(header, Line.text) \in Seq(Seq(Chars))
    BY <1>0, <1>1, LineRead, AppendProperties DEF HeaderLine, AtLine
  <2>2. rest # <<>> /\ Consume
    BY <1>1 DEF HeaderLine, AtLine
  <2>. QED
    BY <1>0, <1>a, <1>1, <2>1, <2>2 DEF HeaderLine, split, ParserTypeOK
<1>2. CASE HeaderNoTransaction
  <2>1. rest # <<>> /\ Consume
    BY <1>2 DEF HeaderNoTransaction, AtLine
  <2>. QED
    BY <1>0, <1>a, <1>2, <2>1 DEF HeaderNoTransaction, split, ParserTypeOK
<1>3. CASE HeaderUp
  <2>1. rest # <<>> /\ Consume
    BY <1>3 DEF HeaderUp, AtLine
  <2>. QED
    BY <1>0, <1>a, <1>3, <2>1 DEF HeaderUp, scanned, split, ParserTypeOK
<1>4. CASE HeaderFails
  BY <1>0, <1>4 DEF HeaderFails, scanned, split, ParserTypeOK
<1>5. CASE UpLine
  <2>1. rest # <<>> /\ Consume /\ pass = "up"
    BY <1>5 DEF UpLine, AtLine
  <2>2. Append(up, Line) \in Seq(FileLine)
    BY <1>0, <2>1, LineRead, AppendProperties
  <2>. QED
    BY <1>0, <1>a, <1>5, <2>1, <2>2 DEF UpLine, split, ParserTypeOK
<1>6. CASE UpEnds
  BY <1>0, <1>6 DEF UpEnds, scanned, split, ParserTypeOK
<1>7. CASE BodyLine
  <2>1. rest # <<>> /\ Consume /\ pass = "split"
    BY <1>7 DEF BodyLine, AtLine
  <2>2. Append(Line.text, NL) \in Texts
    <3>1. Line.text \in Seq(Chars \cup {NL})
      BY <1>0, <2>1, LineRead
    <3>. QED
      BY <3>1, AppendProperties DEF Texts
  <2>3. body.text \o Append(Line.text, NL) \in Texts
    BY <1>0, <2>2, ConcatProperties DEF Texts
  <2>4. body' = [open |-> body.open, text |-> body.text \o Append(Line.text, NL)]
    BY <1>0, <1>7 DEF BodyLine
  <2>5. body' \in [open : BOOLEAN, text : Texts]
    BY <1>0, <2>3, <2>4
  <2>. QED
    BY <1>0, <1>a, <1>7, <2>1, <2>5 DEF BodyLine, scanned, ParserTypeOK
<1>8. CASE BodyEnds
  <2>1. rest # <<>> /\ Consume /\ pass = "split"
    BY <1>8 DEF BodyEnds, AtLine
  <2>2. Append(statements, Strip(body.text)) \in Seq(Texts)
    BY <1>0, StripTyped, AppendProperties
  <2>3. NoBody \in [open : BOOLEAN, text : Texts]
    BY DEF NoBody, Texts
  <2>. QED
    BY <1>0, <1>a, <1>8, <2>1, <2>2, <2>3 DEF BodyEnds, scanned, ParserTypeOK
<1>9. CASE Fragment
  <2>1. rest # <<>> /\ Consume /\ pass = "split"
    BY <1>9 DEF Fragment, AtLine
  <2>2. Append(fragments, Line.text) \in Seq(Seq(Chars))
    BY <1>0, <2>1, LineRead, AppendProperties
  <2>. QED
    BY <1>0, <1>a, <1>9, <2>1, <2>2 DEF Fragment, scanned, ParserTypeOK
<1>10. CASE BodyBegins
  <2>1. rest # <<>> /\ Consume /\ pass = "split"
    BY <1>10 DEF BodyBegins, AtLine
  <2>2. statements \o SplitFragments(fragments) \in Seq(Texts)
    BY <1>0, SplitTyped, ConcatProperties
  <2>3. body' = [open |-> TRUE, text |-> body.text]
    BY <1>0, <1>10 DEF BodyBegins
  <2>4. body' \in [open : BOOLEAN, text : Texts] /\ <<>> \in Seq(Seq(Chars))
    BY <1>0, <2>3
  <2>. QED
    BY <1>0, <1>a, <1>10, <2>1, <2>2, <2>4 DEF BodyBegins, scanned, ParserTypeOK
<1>11. CASE SplitFails
  BY <1>0, <1>11 DEF SplitFails, AtLine, scanned, split, ParserTypeOK
<1>12. CASE SplitEnds
  <2>1. statements \o SplitFragments(fragments) \in Seq(Texts)
    BY <1>0, SplitTyped, ConcatProperties
  <2>. QED
    BY <1>0, <1>12, <2>1 DEF SplitEnds, scanned, ParserTypeOK
<1>13. CASE Check
  BY <1>0, <1>13 DEF Check, scanned, split, ParserTypeOK
<1>14. CASE UNCHANGED parserVars
  BY <1>0, <1>14 DEF parserVars, ParserTypeOK
<1>. QED
  BY <1>1, <1>2, <1>3, <1>4, <1>5, <1>6, <1>7, <1>8, <1>9, <1>10, <1>11, <1>12, <1>13, <1>14
     DEF ParserNext

LEMMA ParserTypeInit == ParserInit => ParserTypeOK
<1> SUFFICES ASSUME ParserInit PROVE ParserTypeOK
  OBVIOUS
<1>1. written \in Seq(FileLine)
  BY GooseAssumption DEF ParserInit
<1>2. rest \in Seq(FileLine)
  BY <1>1, PlainSplit DEF ParserInit
<1>3. NoBody \in [open : BOOLEAN, text : Texts]
  BY DEF NoBody, Texts
<1>4. /\ <<>> \in Seq(FileLine) /\ <<>> \in Seq(Seq(Chars)) /\ <<>> \in Seq(Texts)
      /\ FALSE \in BOOLEAN
  OBVIOUS
<1>5. /\ pass = "header" /\ up = <<>> /\ header = <<>> /\ fragments = <<>> /\ statements = <<>>
      /\ noTransaction = FALSE /\ body = NoBody
  BY DEF ParserInit
<1>. QED
  BY <1>1, <1>2, <1>3, <1>4, <1>5 DEF ParserTypeOK

(* The parser keeps what it collects apart: texts of lines, statements,    *)
(* and the body it is in.                                                  *)
THEOREM ParserTypeCorrect == ParserSpec => []ParserTypeOK
<1>1. ParserTypeOK /\ [ParserNext]_parserVars => ParserTypeOK'
  BY ParserTypeStep
<1>. QED
  BY <1>1, ParserTypeInit, PTL DEF ParserSpec

-----------------------------------------------------------------------------
(***************************************************************************)
(* The form of a file, as far as the parser has read it.                   *)
(***************************************************************************)

(* Only the ends of lines separate lines.                                  *)
PlainFiles == \A f \in Inputs : Plain(f)

(* What the first n lines leave when they are the header.                  *)
HeaderRead(n) ==
  /\ \A i \in 1..n : written[i].mark \in {"none", "NoTransaction"}
  /\ Range(header) = {written[i].text : i \in {j \in 1..n : written[j].mark = "none"}}
  /\ noTransaction <=> \E i \in 1..n : written[i].mark = "NoTransaction"

HeaderInv ==
  pass = "header" =>
    \E n \in 0..Len(written) : HeaderRead(n) /\ rest = SubSeq(written, n + 1, Len(written))

(* Behind the first Up, at u, n lines have been read.                      *)
UpRead(u, n) ==
  /\ u <= n /\ written[u].mark = "Up" /\ HeaderRead(u - 1)
  /\ up = SubSeq(written, u + 1, n) /\ rest = SubSeq(written, n + 1, Len(written))
  /\ \A i \in (u + 1)..n : written[i].mark # "Down"

UpInv ==
  pass = "up" => \E u \in 1..Len(written), n \in 0..Len(written) : UpRead(u, n)

SectionInv ==
  pass \in {"split", "check", "parsed"} =>
    FirstUp # 0 /\ HeaderRead(FirstUp - 1) /\ up = Section

(* The first m lines of the section have the form.                         *)
Formed(m) == \A i \in 1..m : InBody[i - 1] \/ Section[i].mark \in {"none", "Begin"}

SplitInv ==
  /\ pass = "split" =>
       \E m \in 0..Len(Section) : /\ rest = SubSeq(Section, m + 1, Len(Section))
                                  /\ Formed(m) /\ body.open = InBody[m]
  /\ pass \in {"check", "parsed"} => Formed(Len(Section)) /\ ~InBody[Len(Section)]

StartInv == pass \in {"header", "up"} => body = NoBody /\ fragments = <<>> /\ statements = <<>>

Verdict == /\ pass = "parsed" => FormOutsideBodies
           /\ pass = "error" => ~FormOutsideBodies

FormInv ==
  /\ StartInv
  /\ written \in Inputs /\ HeaderInv /\ UpInv /\ SectionInv /\ SplitInv /\ Verdict

(* A file whose first mark behind a header of n good lines is none a       *)
(* header may have has not the form.                                       *)
LEMMA BadHeader ==
  ASSUME written \in Seq(FileLine), NEW n \in 0..Len(written),
         \A i \in 1..n : written[i].mark \in {"none", "NoTransaction"},
         n # Len(written) => written[n + 1].mark \notin {"none", "NoTransaction", "Up"}
  PROVE  ~FormOutsideBodies
<1>. SUFFICES ASSUME FormOutsideBodies PROVE FALSE
  OBVIOUS
<1>1. FirstUp # 0 /\ \A i \in DOMAIN Preamble : Preamble[i].mark \in {"none", "NoTransaction"}
  <2>1. FirstUp > 0 /\ \A i \in DOMAIN Preamble : Preamble[i].mark \in {"none", "NoTransaction"}
    BY DEF FormOutsideBodies
  <2>2. FirstUp \in Nat
    BY FirstUpFacts
  <2>. HIDE DEF FirstUp, Preamble
  <2>. QED
    BY <2>1, <2>2
<1>2. /\ FirstUp \in 1..Len(written) /\ written[FirstUp].mark = "Up" /\ Len(written) \in Nat
  BY <1>1, FirstUpFacts
<1>3. /\ Preamble \in Seq(FileLine) /\ Len(Preamble) = FirstUp - 1
      /\ \A i \in 1..Len(Preamble) : Preamble[i] = written[i]
  BY <1>1, PartLines
<1>. HIDE DEF FirstUp, Preamble
<1>4. ~(FirstUp <= n)
  BY <1>2
<1>5. n + 1 # FirstUp
  BY <1>2
<1>6. n + 1 \in 1..(FirstUp - 1) /\ n # Len(written)
  BY <1>2, <1>4, <1>5
<1>7. n + 1 \in DOMAIN Preamble
  BY <1>3, <1>6
<1>8. Preamble[n + 1] = written[n + 1]
  BY <1>3, <1>6
<1>. QED
  BY <1>1, <1>6, <1>7, <1>8

(* The end of the first pass: it has found the section.                    *)
LEMMA SectionFound ==
  ASSUME written \in Seq(FileLine), NEW u \in 1..Len(written), NEW n \in 0..Len(written),
         UpRead(u, n), n # Len(written) => written[n + 1].mark = "Down"
  PROVE  FirstUp = u /\ up = Section
<1>1. /\ u <= n /\ written[u].mark = "Up" /\ \A i \in (u + 1)..n : written[i].mark # "Down"
      /\ \A i \in 1..(u - 1) : written[i].mark \in {"none", "NoTransaction"}
      /\ up = SubSeq(written, u + 1, n)
  BY DEF UpRead, HeaderRead
<1>2. /\ FirstUp \in 0..Len(written) /\ Len(written) \in Nat
      /\ FirstUp = 0 => \A i \in 1..Len(written) : written[i].mark # "Up"
      /\ FirstUp # 0 => written[FirstUp].mark = "Up"
      /\ \A i \in 1..(FirstUp - 1) : written[i].mark # "Up"
  BY FirstUpFacts
<1>3. FirstUp = u
  <2>. HIDE DEF FirstUp
  <2>1. FirstUp # 0
    BY <1>1, <1>2
  <2>2. ~(u < FirstUp)
    <3>1. u < FirstUp => u \in 1..(FirstUp - 1)
      BY <1>2
    <3>. QED
      BY <1>1, <1>2, <3>1
  <2>3. ~(FirstUp < u)
    <3>1. FirstUp < u => FirstUp \in 1..(u - 1)
      BY <1>2, <2>1
    <3>. QED
      BY <1>1, <1>2, <2>1, <3>1
  <2>. QED
    BY <1>2, <2>2, <2>3
<1>4. /\ FirstDown \in (FirstUp + 1)..(Len(written) + 1)
      /\ FirstDown # Len(written) + 1 => written[FirstDown].mark = "Down"
      /\ \A i \in (FirstUp + 1)..(FirstDown - 1) : written[i].mark # "Down"
  BY <1>3, SectionFacts
<1>. HIDE DEF FirstUp, FirstDown
<1>5. FirstDown - 1 = n
  <2>1. ~(FirstDown <= n)
    <3>1. FirstDown <= n => FirstDown \in (u + 1)..n /\ FirstDown # Len(written) + 1
      BY <1>2, <1>3, <1>4
    <3>. QED
      BY <1>1, <1>4, <3>1
  <2>2. ~(n + 1 < FirstDown)
    <3>1. n + 1 < FirstDown => n + 1 \in (FirstUp + 1)..(FirstDown - 1) /\ n # Len(written)
      BY <1>1, <1>2, <1>3, <1>4
    <3>. QED
      BY <1>4, <3>1
  <2>. QED
    BY <1>2, <1>4, <2>1, <2>2
<1>6. Section = SubSeq(written, u + 1, n)
  BY <1>3, <1>5 DEF Section
<1>. QED
  BY <1>1, <1>3, <1>6

(* What is said of the file alone stays true.                              *)
LEMMA FileStays ==
  ASSUME written' = written
  PROVE  /\ FirstUp' = FirstUp /\ FirstDown' = FirstDown
         /\ Section' = Section /\ Preamble' = Preamble /\ InBody' = InBody
         /\ (FormOutsideBodies' <=> FormOutsideBodies)
<1>1. FirstUp' = FirstUp
  BY DEF FirstUp, SelectInSeq
<1>2. FirstDown' = FirstDown
  BY <1>1 DEF FirstDown, SelectInSubSeq
<1>3. Section' = Section /\ Preamble' = Preamble
  BY <1>1, <1>2 DEF Section, Preamble
<1>4. InBody' = InBody
  BY <1>3 DEF InBody
<1>5. FormOutsideBodies' <=> FormOutsideBodies
  BY <1>1, <1>3, <1>4 DEF FormOutsideBodies
<1>. QED
  BY <1>1, <1>2, <1>3, <1>4, <1>5

(* The next line of the file, and of the section.                          *)
LEMMA NextLine ==
  ASSUME NEW s \in Seq(FileLine), NEW n \in 0..Len(s), rest = SubSeq(s, n + 1, Len(s))
  PROVE  /\ rest = <<>> <=> n = Len(s)
         /\ rest # <<>> => /\ n + 1 \in 0..Len(s) /\ n + 1 \in 1..Len(s)
                           /\ Line = s[n + 1] /\ Line \in FileLine
                           /\ Tail(rest) = SubSeq(s, (n + 1) + 1, Len(s))
<1>1. /\ rest = <<>> <=> n = Len(s)
      /\ n # Len(s) => /\ n + 1 \in 0..Len(s)
                       /\ Head(rest) = s[n + 1]
                       /\ Tail(rest) = SubSeq(s, (n + 1) + 1, Len(s))
  BY Unread
<1>. QED
  BY <1>1 DEF Line

LEMMA HeaderOneMore ==
  ASSUME written \in Seq(FileLine), NEW n \in Nat, n + 1 \in 1..Len(written), HeaderRead(n),
         written' = written, header \in Seq(Seq(Chars)),
         \/ /\ written[n + 1].mark = "none" /\ noTransaction' = noTransaction
            /\ header' = Append(header, written[n + 1].text)
         \/ written[n + 1].mark = "NoTransaction" /\ noTransaction' = TRUE /\ header' = header
  PROVE  HeaderRead(n + 1)'
<1>1. /\ \A i \in 1..n : written[i].mark \in {"none", "NoTransaction"}
      /\ Range(header) = {written[i].text : i \in {j \in 1..n : written[j].mark = "none"}}
      /\ noTransaction <=> \E i \in 1..n : written[i].mark = "NoTransaction"
  BY DEF HeaderRead
<1>2. \A i : i \in 1..(n + 1) <=> i \in 1..n \/ i = n + 1
  OBVIOUS
<1>3. \A i \in 1..(n + 1) : written[i].mark \in {"none", "NoTransaction"}
  BY <1>1, <1>2
<1>4. CASE written[n + 1].mark = "none" /\ noTransaction' = noTransaction
           /\ header' = Append(header, written[n + 1].text)
  <2>. DEFINE t == written[n + 1].text
  <2>1. t \in Seq(Chars)
    <3>1. written[n + 1] \in FileLine
      BY ElementOfSeq
    <3>. QED
      BY <3>1 DEF FileLine
  <2>2. Range(header') = Range(header) \cup {t}
    <3>. HIDE DEF t
    <3>1. /\ Len(header') = Len(header) + 1 /\ header' \in Seq(Seq(Chars)) /\ Len(header) \in Nat
          /\ \A i \in 1..Len(header) : header'[i] = header[i]
          /\ header'[Len(header) + 1] = t
      BY <1>4, <2>1, AppendProperties DEF t
    <3>2. DOMAIN header = 1..Len(header) /\ DOMAIN header' = 1..(Len(header) + 1)
      BY <3>1
    <3>3. \A i \in DOMAIN header' : i \in DOMAIN header \/ i = Len(header) + 1
      BY <3>1, <3>2
    <3>4. Len(header) + 1 \in DOMAIN header' /\ DOMAIN header \subseteq DOMAIN header'
      BY <3>1, <3>2
    <3>5. \A x : x \in Range(header') <=> x \in Range(header) \/ x = t
      <4>. HIDE DEF t
      <4>. QED
        BY <3>1, <3>2, <3>3, <3>4 DEF Range
    <3>. QED
      BY <3>5
  <2>3. {written[i].text : i \in {j \in 1..(n + 1) : written[j].mark = "none"}}
          = {written[i].text : i \in {j \in 1..n : written[j].mark = "none"}} \cup {t}
    BY <1>2, <1>4
  <2>4. (\E i \in 1..(n + 1) : written[i].mark = "NoTransaction")
          <=> \E i \in 1..n : written[i].mark = "NoTransaction"
    BY <1>2, <1>4
  <2>5. noTransaction' <=> \E i \in 1..(n + 1) : written[i].mark = "NoTransaction"
    BY <1>1, <1>4, <2>4
  <2>. QED
    BY <1>1, <1>3, <2>2, <2>3, <2>5 DEF HeaderRead
<1>5. CASE written[n + 1].mark = "NoTransaction" /\ noTransaction' = TRUE /\ header' = header
  <2>1. {written[i].text : i \in {j \in 1..(n + 1) : written[j].mark = "none"}}
          = {written[i].text : i \in {j \in 1..n : written[j].mark = "none"}}
    BY <1>2, <1>5
  <2>2. \E i \in 1..(n + 1) : written[i].mark = "NoTransaction"
    BY <1>5
  <2>3. Range(header)' = Range(header)
    BY <1>5
  <2>. QED
    BY <1>1, <1>3, <1>5, <2>1, <2>2, <2>3 DEF HeaderRead
<1>. QED
  BY <1>4, <1>5

LEMMA HeaderStays ==
  ASSUME NEW n, HeaderRead(n), UNCHANGED <<written, header, noTransaction>>
  PROVE  HeaderRead(n)'
BY DEF HeaderRead

(* A line of the section that may not be there, and a body left open.      *)
LEMMA BadSection ==
  ASSUME FirstUp # 0, written \in Seq(FileLine),
         \/ \E m \in 1..Len(Section) : ~InBody[m - 1] /\ Section[m].mark \notin {"none", "Begin"}
         \/ InBody[Len(Section)]
  PROVE  ~FormOutsideBodies
<1>1. Section \in Seq(FileLine)
  BY PartLines
<1>. HIDE DEF FirstUp, Section, InBody
<1>2. DOMAIN Section = 1..Len(Section)
  BY <1>1
<1>. QED
  BY <1>2 DEF FormOutsideBodies

(* The verdict of the last check is that of the form.                      *)
LEMMA CheckDecides ==
  ASSUME ParserTypeOK, written \in Inputs, FirstUp # 0, HeaderRead(FirstUp - 1), up = Section,
         Formed(Len(Section)), ~InBody[Len(Section)]
  PROVE  FormOutsideBodies <=> ~ \E text \in Range(header) \cup {up[i].text : i \in DOMAIN up} :
                              Contains(text, "{{")
<1>1. written \in Seq(FileLine)
  BY DEF ParserTypeOK
<1>2. /\ Section \in Seq(FileLine) /\ Preamble \in Seq(FileLine)
      /\ Len(Preamble) = FirstUp - 1
      /\ \A i \in 1..Len(Preamble) : Preamble[i] = written[i]
  BY <1>1, PartLines
<1>3. FirstUp \in 1..Len(written) /\ Len(written) \in Nat
  BY <1>1, FirstUpFacts
<1>. HIDE DEF FirstUp, Section, Preamble, InBody
<1>4. DOMAIN Section = 1..Len(Section) /\ DOMAIN Preamble = 1..Len(Preamble)
  BY <1>2
<1>5. \A i \in DOMAIN Preamble : /\ i \in 1..(FirstUp - 1) /\ i \in 1..Len(written)
                                 /\ i \in DOMAIN written /\ Preamble[i] = written[i]
  BY <1>1, <1>2, <1>3, <1>4
<1>6. \A i \in DOMAIN Preamble : Preamble[i].mark \in {"none", "NoTransaction"}
  BY <1>5 DEF HeaderRead
<1>7. \A i \in DOMAIN Section : InBody[i - 1] \/ Section[i].mark \in {"none", "Begin"}
  BY <1>4 DEF Formed
<1>8. (\E l \in Range(Section) : Contains(l.text, "{{"))
        <=> \E text \in {up[i].text : i \in DOMAIN up} : Contains(text, "{{")
  BY DEF Range
<1>9. (\E l \in Range(Preamble) : Contains(l.text, "{{"))
        <=> \E text \in Range(header) : Contains(text, "{{")
  <2>1. \A i \in DOMAIN Preamble : Contains(Preamble[i].text, "{{") => Preamble[i].mark = "none"
    BY <1>5, <1>6, GooseAssumption
  <2>2. Range(header) = {written[i].text : i \in {j \in 1..(FirstUp - 1) : written[j].mark = "none"}}
    BY DEF HeaderRead
  <2>3. \A i \in 1..(FirstUp - 1) : i \in DOMAIN Preamble
    BY <1>2, <1>4
  <2>4. ASSUME NEW l \in Range(Preamble), Contains(l.text, "{{")
        PROVE  \E text \in Range(header) : Contains(text, "{{")
    <3>1. PICK i \in DOMAIN Preamble : l = Preamble[i]
      BY DEF Range
    <3>2. written[i].mark = "none" /\ i \in 1..(FirstUp - 1) /\ l.text = written[i].text
      BY <1>5, <2>1, <2>4, <3>1
    <3>. QED
      BY <2>2, <2>4, <3>2
  <2>5. ASSUME NEW text \in Range(header), Contains(text, "{{")
        PROVE  \E l \in Range(Preamble) : Contains(l.text, "{{")
    <3>1. PICK i \in 1..(FirstUp - 1) : text = written[i].text
      BY <2>2
    <3>2. Preamble[i] \in Range(Preamble) /\ Preamble[i].text = text
      BY <1>5, <2>3, <3>1 DEF Range
    <3>. QED
      BY <2>5, <3>2
  <2>. QED
    BY <2>4, <2>5
<1>10. FormOutsideBodies <=> /\ ~ \E l \in Range(Preamble) : Contains(l.text, "{{")
                      /\ ~ \E l \in Range(Section) : Contains(l.text, "{{")
  <2>1. FirstUp > 0
    BY <1>3
  <2>. QED
    BY <1>6, <1>7, <2>1 DEF FormOutsideBodies
<1>. QED
  BY <1>8, <1>9, <1>10

LEMMA FormInit ==
  ASSUME ParserInit, PlainFiles
  PROVE  FormInv
<1>1. /\ written \in Inputs /\ pass = "header" /\ rest = SplitLines(written)
      /\ noTransaction = FALSE /\ header = <<>> /\ statements = <<>> /\ fragments = <<>>
      /\ body = NoBody
  BY DEF ParserInit
<1>2. written \in Seq(FileLine)
  BY <1>1, GooseAssumption
<1>3. rest = written
  BY <1>1, <1>2, PlainSplit DEF PlainFiles
<1>4. Len(written) \in Nat /\ SubSeq(written, 0 + 1, Len(written)) = written
  BY <1>2, SubSeqFull
<1>5. HeaderRead(0)
  <2>1. Range(header) = {}
    BY <1>1 DEF Range
  <2>. QED
    BY <1>1, <2>1 DEF HeaderRead
<1>6. HeaderInv
  <2>1. 0 \in 0..Len(written)
    BY <1>4
  <2>. QED
    BY <1>3, <1>4, <1>5, <2>1 DEF HeaderInv
<1>. QED
  BY <1>1, <1>6 DEF FormInv, StartInv, UpInv, SectionInv, SplitInv, Verdict

LEMMA FormStep ==
  ASSUME ParserTypeOK, FormInv, [ParserNext]_parserVars
  PROVE  FormInv'
<1>0. /\ written \in Seq(FileLine) /\ rest \in Seq(FileLine) /\ up \in Seq(FileLine)
      /\ header \in Seq(Seq(Chars)) /\ body \in [open : BOOLEAN, text : Texts]
      /\ pass \in {"header", "up", "split", "check", "parsed", "error"}
      /\ pass = "header" => up = <<>>
      /\ written \in Inputs /\ Len(written) \in Nat
  BY DEF ParserTypeOK, FormInv
<1>a. written' = written
  BY DEF ParserNext, HeaderLine, HeaderNoTransaction, HeaderUp, HeaderFails, UpLine, UpEnds, BodyLine,
     BodyEnds, Fragment, BodyBegins, SplitFails, SplitEnds, Check, Consume, parserVars
<1>b. /\ FirstUp' = FirstUp /\ Section' = Section /\ InBody' = InBody
      /\ (FormOutsideBodies' <=> FormOutsideBodies)
  BY <1>a, FileStays
<1>c. ASSUME FirstUp # 0
      PROVE  Section \in Seq(FileLine) /\ Len(Section) \in Nat
  BY <1>0, <1>c, PartLines
<1>. HIDE DEF FirstUp, Section, InBody, FormOutsideBodies
<1>d. ASSUME pass = "header"
      PROVE  \E n \in 0..Len(written) :
               /\ HeaderRead(n) /\ rest = SubSeq(written, n + 1, Len(written))
               /\ rest = <<>> <=> n = Len(written)
               /\ rest # <<>> => /\ n + 1 \in 0..Len(written) /\ n + 1 \in 1..Len(written)
                                 /\ Line = written[n + 1] /\ Line \in FileLine
                                 /\ Tail(rest) = SubSeq(written, (n + 1) + 1, Len(written))
  <2>1. PICK n \in 0..Len(written) : HeaderRead(n) /\ rest = SubSeq(written, n + 1, Len(written))
    BY <1>d DEF FormInv, HeaderInv
  <2>. QED
    BY <1>0, <2>1, NextLine
<1>e. ASSUME pass = "split"
      PROVE  /\ FirstUp # 0 /\ HeaderRead(FirstUp - 1) /\ up = Section
             /\ \E m \in 0..Len(Section) :
                  /\ Formed(m) /\ body.open = InBody[m]
                  /\ rest = <<>> <=> m = Len(Section)
                  /\ rest # <<>> => /\ m + 1 \in 0..Len(Section) /\ m + 1 \in 1..Len(Section)
                                    /\ Line = Section[m + 1] /\ Line \in FileLine
                                    /\ Tail(rest) = SubSeq(Section, (m + 1) + 1, Len(Section))
                                    /\ InBody[m + 1] = IF InBody[m] THEN Line.mark # "End"
                                                       ELSE Line.mark = "Begin"
  <2>1. PICK m \in 0..Len(Section) : /\ rest = SubSeq(Section, m + 1, Len(Section))
                                     /\ Formed(m) /\ body.open = InBody[m]
    BY <1>e DEF FormInv, SplitInv
  <2>2. FirstUp # 0 /\ HeaderRead(FirstUp - 1) /\ up = Section
    BY <1>e DEF FormInv, SectionInv
  <2>3. \A i \in 1..Len(Section) :
          InBody[i] = IF InBody[i - 1] THEN Section[i].mark # "End" ELSE Section[i].mark = "Begin"
    BY <1>c, <2>2, BodySteps
  <2>4. /\ rest = <<>> <=> m = Len(Section)
        /\ rest # <<>> => /\ m + 1 \in 0..Len(Section) /\ m + 1 \in 1..Len(Section)
                          /\ Line = Section[m + 1] /\ Line \in FileLine
                          /\ Tail(rest) = SubSeq(Section, (m + 1) + 1, Len(Section))
    BY <1>c, <2>1, <2>2, NextLine
  <2>5. rest # <<>> => InBody[m + 1] = IF InBody[m] THEN Line.mark # "End" ELSE Line.mark = "Begin"
    <3>1. rest # <<>> => m + 1 \in 1..Len(Section) /\ (m + 1) - 1 = m /\ Line = Section[m + 1]
      BY <1>c, <2>2, <2>4
    <3>. QED
      BY <2>3, <3>1
  <2>. QED
    BY <2>1, <2>2, <2>4, <2>5
<1>1. CASE HeaderLine \/ HeaderNoTransaction
  <2>1. /\ pass = "header" /\ rest # <<>> /\ Line.mark \in {"none", "NoTransaction"}
        /\ pass' = "header" /\ rest' = Tail(rest) /\ UNCHANGED <<body, fragments, statements>>
        /\ \/ /\ Line.mark = "none" /\ noTransaction' = noTransaction
              /\ header' = Append(header, Line.text)
           \/ Line.mark = "NoTransaction" /\ noTransaction' = TRUE /\ header' = header
    BY <1>0, <1>1 DEF HeaderLine, HeaderNoTransaction, AtLine, Consume, split
  <2>2. PICK n \in 0..Len(written) :
               /\ HeaderRead(n) /\ n + 1 \in 0..Len(written) /\ n + 1 \in 1..Len(written)
               /\ Line = written[n + 1]
               /\ Tail(rest) = SubSeq(written, (n + 1) + 1, Len(written))
    BY <1>d, <2>1
  <2>3. HeaderRead(n + 1)'
    <3>1. \/ /\ written[n + 1].mark = "none" /\ noTransaction' = noTransaction
             /\ header' = Append(header, written[n + 1].text)
          \/ written[n + 1].mark = "NoTransaction" /\ noTransaction' = TRUE /\ header' = header
      BY <2>1, <2>2
    <3>2. n \in Nat /\ n + 1 \in 1..Len(written) /\ HeaderRead(n)
      BY <2>2
    <3>. HIDE DEF HeaderRead
    <3>. QED
      BY <1>0, <1>a, <3>1, <3>2, HeaderOneMore
  <2>4. HeaderInv'
    BY <1>a, <2>1, <2>2, <2>3 DEF HeaderInv
  <2>. QED
    BY <1>0, <1>a, <2>1, <2>4 DEF FormInv, StartInv, UpInv, SectionInv, SplitInv, Verdict
<1>2. CASE HeaderUp
  <2>1. /\ pass = "header" /\ rest # <<>> /\ Line.mark = "Up"
        /\ pass' = "up" /\ rest' = Tail(rest)
        /\ UNCHANGED <<noTransaction, header, up, body, fragments, statements>>
    BY <1>2 DEF HeaderUp, AtLine, Consume, split, scanned
  <2>2. PICK n \in 0..Len(written) :
               /\ HeaderRead(n) /\ n + 1 \in 0..Len(written) /\ n + 1 \in 1..Len(written)
               /\ Line = written[n + 1]
               /\ Tail(rest) = SubSeq(written, (n + 1) + 1, Len(written))
    BY <1>d, <2>1
  <2>. DEFINE u == n + 1
  <2>3. HeaderRead(u - 1)'
    <3>1. u - 1 = n
      OBVIOUS
    <3>. QED
      BY <1>a, <2>1, <2>2, <3>1, HeaderStays
  <2>4. up' = SubSeq(written, u + 1, u)
    <3>1. SubSeq(written, u + 1, u) = <<>>
      BY SubSeqEmpty
    <3>. QED
      BY <1>0, <2>1, <3>1
  <2>5. UpRead(u, u)'
    <3>1. u <= u /\ \A i \in (u + 1)..u : written[i].mark # "Down"
      OBVIOUS
    <3>. QED
      BY <1>a, <2>1, <2>2, <2>3, <2>4, <3>1 DEF UpRead
  <2>6. UpInv'
    BY <1>a, <2>2, <2>5 DEF UpInv
  <2>. QED
    BY <1>0, <1>a, <2>1, <2>6 DEF FormInv, StartInv, HeaderInv, SectionInv, SplitInv, Verdict
<1>3. CASE HeaderFails
  <2>1. /\ pass = "header" /\ pass' = "error"
        /\ rest = <<>> \/ Line.mark \in {"Down", "Begin", "End", "unknown"}
    BY <1>3 DEF HeaderFails, AtLine
  <2>2. PICK n \in 0..Len(written) :
               /\ HeaderRead(n)
               /\ rest = <<>> <=> n = Len(written)
               /\ rest # <<>> => Line = written[n + 1]
    BY <1>d, <2>1
  <2>3. n # Len(written) => written[n + 1].mark \notin {"none", "NoTransaction", "Up"}
    BY <2>1, <2>2
  <2>4. ~FormOutsideBodies
    BY <1>0, <2>2, <2>3, BadHeader DEF HeaderRead
  <2>. QED
    BY <1>0, <1>a, <1>b, <2>1, <2>4
       DEF FormInv, StartInv, HeaderInv, UpInv, SectionInv, SplitInv, Verdict
<1>4. CASE UpLine
  <2>1. /\ pass = "up" /\ rest # <<>> /\ Line.mark # "Down"
        /\ pass' = "up" /\ rest' = Tail(rest) /\ up' = Append(up, Line)
        /\ UNCHANGED <<noTransaction, header, body, fragments, statements>>
    BY <1>4 DEF UpLine, AtLine, Consume, split
  <2>2. PICK u \in 1..Len(written), n \in 0..Len(written) : UpRead(u, n)
    BY <2>1 DEF FormInv, UpInv
  <2>3. /\ u <= n /\ written[u].mark = "Up" /\ HeaderRead(u - 1)
        /\ up = SubSeq(written, u + 1, n) /\ rest = SubSeq(written, n + 1, Len(written))
        /\ \A i \in (u + 1)..n : written[i].mark # "Down"
    BY <2>2 DEF UpRead
  <2>4. /\ n + 1 \in 0..Len(written) /\ n + 1 \in 1..Len(written) /\ Line = written[n + 1]
        /\ Tail(rest) = SubSeq(written, (n + 1) + 1, Len(written))
    BY <1>0, <2>1, <2>3, NextLine
  <2>5. up' = SubSeq(written, u + 1, n + 1)
    <3>1. u + 1 \in 1..Len(written) /\ n + 1 \in (u + 1)..Len(written) /\ (n + 1) - 1 = n
      BY <1>0, <2>3, <2>4
    <3>. DEFINE a == u + 1
                b == n + 1
    <3>. HIDE DEF a, b
    <3>2. SubSeq(written, a, b) = Append(SubSeq(written, a, b - 1), written[b])
      BY <1>0, <3>1, OneMore DEF a, b
    <3>. QED
      BY <2>1, <2>3, <2>4, <3>1, <3>2 DEF a, b
  <2>6. HeaderRead(u - 1)'
    BY <1>a, <2>1, <2>3, HeaderStays
  <2>7. u <= n + 1 /\ \A i \in (u + 1)..(n + 1) : written[i].mark # "Down"
    <3>1. \A i \in (u + 1)..(n + 1) : i \in (u + 1)..n \/ i = n + 1
      OBVIOUS
    <3>. QED
      BY <2>1, <2>3, <2>4, <3>1
  <2>8. UpRead(u, n + 1)'
    BY <1>a, <2>1, <2>3, <2>4, <2>5, <2>6, <2>7 DEF UpRead
  <2>9. UpInv'
    BY <1>a, <2>4, <2>8 DEF UpInv
  <2>. QED
    BY <1>0, <1>a, <2>1, <2>9 DEF FormInv, StartInv, HeaderInv, SectionInv, SplitInv, Verdict
<1>5. CASE UpEnds
  <2>1. /\ pass = "up" /\ (rest = <<>> \/ Line.mark = "Down")
        /\ pass' = "split" /\ rest' = up
        /\ UNCHANGED <<noTransaction, header, up, body, fragments, statements>>
    BY <1>5 DEF UpEnds, AtLine, split, scanned
  <2>2. PICK u \in 1..Len(written), n \in 0..Len(written) : UpRead(u, n)
    BY <2>1 DEF FormInv, UpInv
  <2>3. HeaderRead(u - 1) /\ rest = SubSeq(written, n + 1, Len(written))
    BY <2>2 DEF UpRead
  <2>4. n # Len(written) => written[n + 1].mark = "Down"
    BY <1>0, <2>1, <2>3, NextLine
  <2>5. FirstUp = u /\ up = Section
    BY <1>0, <2>2, <2>4, SectionFound
  <2>6. HeaderRead(FirstUp - 1)'
    BY <1>a, <1>b, <2>1, <2>3, <2>5, HeaderStays
  <2>7. Section \in Seq(FileLine) /\ Len(Section) \in Nat
    BY <1>c, <2>5
  <2>8. InBody[0] = FALSE
    BY <2>7, BodySteps
  <2>9. body.open = FALSE
    BY <2>1 DEF FormInv, StartInv, NoBody
  <2>10. rest' = SubSeq(Section, 0 + 1, Len(Section))
    BY <2>1, <2>5, <2>7, SubSeqFull
  <2>11. SplitInv'
    <3>1. Formed(0)'
      BY DEF Formed
    <3>2. 0 \in 0..Len(Section)
      BY <2>7
    <3>. QED
      BY <1>b, <2>1, <2>8, <2>9, <2>10, <3>1, <3>2 DEF SplitInv
  <2>12. SectionInv'
    BY <1>b, <2>1, <2>5, <2>6 DEF SectionInv
  <2>. QED
    BY <1>0, <1>a, <2>1, <2>11, <2>12 DEF FormInv, StartInv, HeaderInv, UpInv, Verdict
<1>6. CASE BodyLine \/ BodyEnds \/ Fragment \/ BodyBegins
  <2>1. /\ pass = "split" /\ rest # <<>> /\ pass' = "split" /\ rest' = Tail(rest)
        /\ UNCHANGED <<noTransaction, header, up>>
        /\ body.open \/ Line.mark \in {"none", "Begin"}
        /\ body'.open = IF body.open THEN Line.mark # "End" ELSE Line.mark = "Begin"
    <3>1. Line.mark \in Marks /\ body.open \in BOOLEAN /\ DOMAIN body = {"open", "text"}
      <4>1. rest # <<>>
        BY <1>6 DEF BodyLine, BodyEnds, Fragment, BodyBegins, AtLine
      <4>2. Line \in FileLine
        BY <1>0, <4>1, HeadTailProperties DEF Line
      <4>. QED
        BY <1>0, <4>2 DEF FileLine
    <3>2. CASE BodyLine
      <4>1. body'.open = body.open
        BY <3>1, <3>2 DEF BodyLine
      <4>. QED
        BY <3>1, <3>2, <4>1 DEF BodyLine, AtLine, Consume, scanned
    <3>3. CASE BodyEnds
      BY <3>1, <3>3 DEF BodyEnds, AtLine, Consume, scanned, NoBody
    <3>4. CASE Fragment
      BY <3>1, <3>4 DEF Fragment, AtLine, Consume, scanned
    <3>5. CASE BodyBegins
      <4>1. body'.open = TRUE
        BY <3>1, <3>5 DEF BodyBegins
      <4>. QED
        BY <3>1, <3>5, <4>1 DEF BodyBegins, AtLine, Consume, scanned
    <3>. QED
      BY <1>6, <3>2, <3>3, <3>4, <3>5
  <2>2. PICK m \in 0..Len(Section) :
               /\ Formed(m) /\ body.open = InBody[m]
               /\ m + 1 \in 0..Len(Section) /\ m + 1 \in 1..Len(Section)
               /\ Line = Section[m + 1]
               /\ Tail(rest) = SubSeq(Section, (m + 1) + 1, Len(Section))
               /\ InBody[m + 1] = IF InBody[m] THEN Line.mark # "End" ELSE Line.mark = "Begin"
    BY <1>e, <2>1
  <2>3. FirstUp # 0 /\ HeaderRead(FirstUp - 1) /\ up = Section
    BY <1>e, <2>1
  <2>4. Formed(m + 1)'
    <3>1. \A i \in 1..(m + 1) : i \in 1..m \/ i = m + 1
      OBVIOUS
    <3>2. (m + 1) - 1 = m
      OBVIOUS
    <3>3. InBody[m] \/ Section[m + 1].mark \in {"none", "Begin"}
      BY <2>1, <2>2
    <3>4. \A i \in 1..(m + 1) : InBody[i - 1] \/ Section[i].mark \in {"none", "Begin"}
      BY <2>2, <3>1, <3>2, <3>3 DEF Formed
    <3>. QED
      BY <1>b, <3>4 DEF Formed
  <2>5. body'.open = InBody[m + 1]
    BY <2>1, <2>2
  <2>6. SplitInv'
    BY <1>b, <2>1, <2>2, <2>4, <2>5 DEF SplitInv
  <2>7. SectionInv'
    BY <1>a, <1>b, <2>1, <2>3, HeaderStays DEF SectionInv
  <2>. QED
    BY <1>0, <1>a, <2>1, <2>6, <2>7 DEF FormInv, StartInv, HeaderInv, UpInv, Verdict
<1>7. CASE SplitFails
  <2>1. /\ pass = "split" /\ pass' = "error"
        /\ \/ rest # <<>> /\ ~body.open /\ Line.mark \in {"End", "Up", "NoTransaction", "unknown"}
           \/ rest = <<>> /\ body.open
    BY <1>7 DEF SplitFails, AtLine
  <2>2. PICK m \in 0..Len(Section) :
                  /\ body.open = InBody[m]
                  /\ rest = <<>> <=> m = Len(Section)
                  /\ rest # <<>> => m + 1 \in 1..Len(Section) /\ Line = Section[m + 1]
    BY <1>e, <2>1
  <2>3. FirstUp # 0
    BY <1>e, <2>1
  <2>4. ASSUME rest = <<>> /\ body.open
        PROVE  ~FormOutsideBodies
    <3>1. InBody[Len(Section)]
      BY <2>2, <2>4
    <3>. QED
      BY <1>0, <2>3, <3>1, BadSection
  <2>5. ASSUME rest # <<>>, ~body.open, Line.mark \in {"End", "Up", "NoTransaction", "unknown"}
        PROVE  ~FormOutsideBodies
    <3>1. m + 1 \in 1..Len(Section) /\ ~InBody[(m + 1) - 1]
          /\ Section[m + 1].mark \notin {"none", "Begin"}
      <4>1. (m + 1) - 1 = m
        OBVIOUS
      <4>. QED
        BY <2>2, <2>5, <4>1
    <3>2. \E i \in 1..Len(Section) : ~InBody[i - 1] /\ Section[i].mark \notin {"none", "Begin"}
      BY <3>1
    <3>. QED
      BY <1>0, <2>3, <3>2, BadSection
  <2>6. ~FormOutsideBodies
    BY <2>1, <2>4, <2>5
  <2>. QED
    BY <1>0, <1>a, <1>b, <2>1, <2>6
       DEF FormInv, StartInv, HeaderInv, UpInv, SectionInv, SplitInv, Verdict
<1>8. CASE SplitEnds
  <2>1. /\ pass = "split" /\ pass' = "check" /\ rest = <<>> /\ ~body.open
        /\ UNCHANGED <<noTransaction, header, up>>
    BY <1>8 DEF SplitEnds, scanned
  <2>2. PICK m \in 0..Len(Section) : Formed(m) /\ body.open = InBody[m] /\ m = Len(Section)
    BY <1>e, <2>1
  <2>3. FirstUp # 0 /\ HeaderRead(FirstUp - 1) /\ up = Section
    BY <1>e, <2>1
  <2>4. SplitInv'
    BY <1>b, <2>1, <2>2 DEF SplitInv, Formed
  <2>5. SectionInv'
    BY <1>a, <1>b, <2>1, <2>3, HeaderStays DEF SectionInv
  <2>. QED
    BY <1>0, <1>a, <2>1, <2>4, <2>5 DEF FormInv, StartInv, HeaderInv, UpInv, Verdict
<1>9. CASE Check
  <2>1. /\ pass = "check"
        /\ pass' = IF \E text \in Range(header) \cup {up[i].text : i \in DOMAIN up} :
                        Contains(text, "{{")
                   THEN "error" ELSE "parsed"
        /\ UNCHANGED <<noTransaction, header, up>>
    BY <1>9 DEF Check, scanned
  <2>2. /\ FirstUp # 0 /\ HeaderRead(FirstUp - 1) /\ up = Section
        /\ Formed(Len(Section)) /\ ~InBody[Len(Section)]
    BY <2>1 DEF FormInv, SectionInv, SplitInv
  <2>3. FormOutsideBodies <=> ~ \E text \in Range(header) \cup {up[i].text : i \in DOMAIN up} :
                              Contains(text, "{{")
    BY <1>0, <2>2, CheckDecides
  <2>4. pass' \in {"error", "parsed"} /\ (FormOutsideBodies <=> pass' = "parsed")
    BY <2>1, <2>3
  <2>5. SplitInv'
    BY <1>b, <2>2, <2>4 DEF SplitInv, Formed
  <2>6. SectionInv'
    BY <1>a, <1>b, <2>1, <2>2, HeaderStays DEF SectionInv
  <2>. QED
    BY <1>0, <1>a, <1>b, <2>4, <2>5, <2>6
       DEF FormInv, StartInv, HeaderInv, UpInv, Verdict
<1>10. CASE UNCHANGED parserVars
  <2>1. UNCHANGED <<written, pass, rest, noTransaction, header, up, statements, fragments, body>>
    BY <1>10 DEF parserVars
  <2>2. HeaderInv'
    BY <2>1 DEF FormInv, HeaderInv, HeaderRead
  <2>3. UpInv'
    <3>1. SUFFICES ASSUME pass = "up"
                   PROVE  \E u \in 1..Len(written), n \in 0..Len(written) : UpRead(u, n)'
      BY <2>1 DEF UpInv
    <3>2. PICK u \in 1..Len(written), n \in 0..Len(written) : UpRead(u, n)
      BY <3>1 DEF FormInv, UpInv
    <3>3. UpRead(u, n)'
      BY <2>1, <3>2 DEF UpRead, HeaderRead
    <3>. QED
      BY <3>3
  <2>4. SectionInv'
    BY <1>b, <2>1 DEF FormInv, SectionInv, HeaderRead
  <2>5. SplitInv'
    BY <1>b, <2>1 DEF FormInv, SplitInv, Formed
  <2>6. StartInv' /\ Verdict'
    BY <1>b, <2>1 DEF FormInv, StartInv, Verdict
  <2>. QED
    BY <2>1, <2>2, <2>3, <2>4, <2>5, <2>6 DEF FormInv
<1>. QED
  BY <1>1, <1>2, <1>3, <1>4, <1>5, <1>6, <1>7, <1>8, <1>9, <1>10 DEF ParserNext

LEMMA FormInvariant ==
  ASSUME PlainFiles
  PROVE  ParserSpec => [](ParserTypeOK /\ FormInv)
<1>1. ParserInit => FormInv
  BY FormInit
<1>2. ParserTypeOK /\ FormInv /\ [ParserNext]_parserVars => FormInv'
  BY FormStep
<1>. QED
  BY <1>1, <1>2, ParserTypeCorrect, PTL DEF ParserSpec

(* A migration file is accepted exactly when it has the documented form    *)
(* outside its bodies, whatever its length, so that no file of that form   *)
(* is rejected; the annotations the parser takes for text within a body    *)
(* are all it accepts besides.  Nothing but the end of a line separates    *)
(* lines here.                                                             *)
THEOREM ParserDecidesForm ==
  ASSUME PlainFiles
  PROVE  ParserSpec => []DecidesForm
<1>1. FormInv => DecidesForm
  BY DEF FormInv, Verdict, DecidesForm
<1>. QED
  BY <1>1, FormInvariant, PTL

-----------------------------------------------------------------------------
(***************************************************************************)
(* What the recursive definitions of the format compute.                   *)
(***************************************************************************)
Tokens == Chars \cup {NL, "Begin", "End"}
Places == {"code", "literal", "comment", "body"}

LEMMA AfterTyped ==
  ASSUME NEW was \in Places, NEW c
  PROVE  After(was, c) \in Places
BY DEF After, Places

LEMMA WithinSteps ==
  ASSUME NEW S, NEW s \in Seq(S)
  PROVE  /\ Within(s)[0] = "code"
         /\ \A i \in 1..Len(s) : Within(s)[i] = After(Within(s)[i - 1], s[i])
<1>. DEFINE n == Len(s)
            e(i, was) == After(was, s[i])
            step == [p \in (1..n) \X Places |-> e(p[1], p[2])]
            Is(f) == f = [i \in 0..n |-> IF i = 0 THEN "code" ELSE e(i, f[i - 1])]
            f == CHOOSE h : Is(h)
<1>1. n \in Nat /\ "code" \in Places
  BY DEF Places
<1>2. \A i \in 1..n, was \in Places : e(i, was) \in Places
  BY AfterTyped
<1>3. step \in [(1..n) \X Places -> Places]
  <2>. HIDE DEF e, n
  <2>. QED
    BY <1>2
<1>4. PICK g : Computes(g, n, Places, "code", step)
  <2>. HIDE DEF step, n
  <2>. QED
    BY <1>1, <1>3, Recursion
<1>5. \A i \in 1..n : g[i] = e(i, g[i - 1])
  <2>. HIDE DEF n, e
  <2>1. \A i \in 1..n : g[i - 1] \in Places
    BY <1>1, <1>4 DEF Computes
  <2>. QED
    BY <1>4, <2>1 DEF Computes
<1>6. Is(g)
  <2>. HIDE DEF n, e, step
  <2>. QED
    BY <1>1, <1>4, <1>5 DEF Computes
<1>7. Is(f)
  <2>. HIDE DEF Is
  <2>. QED
    BY <1>6
<1>8. Within(s) = f
  BY DEF Within
<1>9. f[0] = "code" /\ \A i \in 1..n : f[i] = e(i, f[i - 1])
  <2>. HIDE DEF f, e, n
  <2>. QED
    BY <1>1, <1>7
<1>. HIDE DEF f
<1>. QED
  BY <1>8, <1>9

LEMMA WithinTyped ==
  ASSUME NEW S, NEW s \in Seq(S)
  PROVE  \A i \in 0..Len(s) : Within(s)[i] \in Places
<1>. DEFINE n == Len(s)
            w == Within(s)
            T == {i \in 0..n : w[i] \in Places}
<1>0. n \in Nat
  OBVIOUS
<1>1. w[0] = "code" /\ \A i \in 1..n : w[i] = After(w[i - 1], s[i])
  BY WithinSteps
<1>. HIDE DEF n, w
<1>2. 0 \in T
  BY <1>0, <1>1 DEF Places
<1>3. ASSUME NEW i \in 0..n, i # 0, i - 1 \in T PROVE i \in T
  <2>1. i \in 1..n /\ w[i - 1] \in Places
    BY <1>0, <1>3
  <2>2. w[i] \in Places
    BY <1>1, <2>1, AfterTyped
  <2>. QED
    BY <2>2
<1>4. T \subseteq 0..n
  OBVIOUS
<1>5. \A i \in 0..n : i \in T
  <2>. HIDE DEF T
  <2>. QED
    BY <1>0, <1>2, <1>3, <1>4, Induction
<1>. QED
  BY <1>5 DEF w, n

LEMMA KeptSteps ==
  ASSUME NEW S, NEW s \in Seq(S)
  PROVE  LET ends == EndsOf(s) IN
         /\ KeptUpTo(s)[0] = <<>>
         /\ \A i \in 1..(Len(s) + 1) :
              KeptUpTo(s)[i] = IF i \in ends /\ Executable(PieceAt(s, ends, i))
                           THEN Append(KeptUpTo(s)[i - 1], PieceAt(s, ends, i)) ELSE KeptUpTo(s)[i - 1]
<1>. DEFINE n == Len(s) + 1
            ends == EndsOf(s)
            piece(i) == PieceAt(s, ends, i)
            P == {piece(i) : i \in 1..n}
            D == Seq(P)
            e(i, was) == IF i \in ends /\ Executable(piece(i)) THEN Append(was, piece(i)) ELSE was
            step == [p \in (1..n) \X D |-> e(p[1], p[2])]
            Is(f) == f = [i \in 0..n |-> IF i = 0 THEN <<>> ELSE e(i, f[i - 1])]
            f == CHOOSE h : Is(h)
<1>1. n \in Nat /\ <<>> \in D
  OBVIOUS
<1>2. \A i \in 1..n, was \in D : e(i, was) \in D
  <2>. HIDE DEF n, ends
  <2>1. TAKE i \in 1..n, was \in D
  <2>2. piece(i) \in P
    OBVIOUS
  <2>. HIDE DEF piece, P
  <2>3. Append(was, piece(i)) \in D
    BY <2>2, AppendProperties
  <2>. QED
    BY <2>3
<1>3. step \in [(1..n) \X D -> D]
  <2>. HIDE DEF e, n, D
  <2>. QED
    BY <1>2
<1>4. PICK g : Computes(g, n, D, <<>>, step)
  <2>. HIDE DEF step, n, D
  <2>. QED
    BY <1>1, <1>3, Recursion
<1>5. \A i \in 1..n : g[i] = e(i, g[i - 1])
  <2>. HIDE DEF n, e, D
  <2>1. \A i \in 1..n : g[i - 1] \in D
    BY <1>1, <1>4 DEF Computes
  <2>. QED
    BY <1>4, <2>1 DEF Computes
<1>6. Is(g)
  <2>. HIDE DEF n, e, step, D
  <2>. QED
    BY <1>1, <1>4, <1>5 DEF Computes
<1>7. Is(f)
  <2>. HIDE DEF Is
  <2>. QED
    BY <1>6
<1>8. KeptUpTo(s) = f
  BY DEF KeptUpTo
<1>9. f[0] = <<>> /\ \A i \in 1..n : f[i] = e(i, f[i - 1])
  <2>. HIDE DEF f, e, n
  <2>. QED
    BY <1>1, <1>7
<1>. HIDE DEF f, piece
<1>10. KeptUpTo(s)[0] = <<>> /\ \A i \in 1..n : KeptUpTo(s)[i] = e(i, KeptUpTo(s)[i - 1])
  <2>. HIDE DEF e
  <2>. QED
    BY <1>8, <1>9
<1>. QED
  BY <1>10 DEF piece

ExecutableSteps(f, texts) ==
  /\ Executables(texts) = f[Len(texts)]
  /\ f[0] = <<>>
  /\ \A i \in 1..Len(texts) :
       f[i] = IF Executable(texts[i]) THEN Append(f[i - 1], texts[i]) ELSE f[i - 1]

LEMMA ExecutableRecursion ==
  ASSUME NEW T, NEW texts \in Seq(T)
  PROVE  \E f : ExecutableSteps(f, texts)
<1>. DEFINE n == Len(texts)
            D == Seq(T)
            e(i, was) == IF Executable(texts[i]) THEN Append(was, texts[i]) ELSE was
            step == [p \in (1..n) \X D |-> e(p[1], p[2])]
            Is(f) == f = [i \in 0..n |-> IF i = 0 THEN <<>> ELSE e(i, f[i - 1])]
            f == CHOOSE h : Is(h)
<1>1. n \in Nat /\ <<>> \in D
  OBVIOUS
<1>2. \A i \in 1..n, was \in D : e(i, was) \in D
  <2>1. TAKE i \in 1..n, was \in D
  <2>2. Append(was, texts[i]) \in D
    BY AppendProperties
  <2>. QED
    BY <2>2
<1>3. step \in [(1..n) \X D -> D]
  <2>. HIDE DEF e, n, D
  <2>. QED
    BY <1>2
<1>4. PICK g : Computes(g, n, D, <<>>, step)
  <2>. HIDE DEF step, n, D
  <2>. QED
    BY <1>1, <1>3, Recursion
<1>5. \A i \in 1..n : g[i] = e(i, g[i - 1])
  <2>. HIDE DEF n, e, D
  <2>1. \A i \in 1..n : g[i - 1] \in D
    BY <1>1, <1>4 DEF Computes
  <2>. QED
    BY <1>4, <2>1 DEF Computes
<1>6. Is(g)
  <2>. HIDE DEF n, e, step, D
  <2>. QED
    BY <1>1, <1>4, <1>5 DEF Computes
<1>7. Is(f)
  <2>. HIDE DEF Is
  <2>. QED
    BY <1>6
<1>8. Executables(texts) = f[n]
  BY DEF Executables
<1>9. f[0] = <<>> /\ \A i \in 1..n : f[i] = e(i, f[i - 1])
  <2>. HIDE DEF f, e, n
  <2>. QED
    BY <1>1, <1>7
<1>. HIDE DEF f
<1>. QED
  BY <1>8, <1>9 DEF ExecutableSteps

(* One more text.                                                          *)
LEMMA ExecutablesOneMore ==
  ASSUME NEW T, NEW texts \in Seq(T), NEW t \in T
  PROVE  /\ Executables(<<>>) = <<>>
         /\ Executables(Append(texts, t)) =
              IF Executable(t) THEN Append(Executables(texts), t) ELSE Executables(texts)
<1>. DEFINE n == Len(texts)
            more == Append(texts, t)
<1>0. n \in Nat /\ Len(more) = n + 1 /\ more \in Seq(T) /\ more[n + 1] = t
      /\ \A i \in 1..n : more[i] = texts[i]
  OBVIOUS
<1>1. PICK f : ExecutableSteps(f, texts)
  BY ExecutableRecursion
<1>2. PICK h : ExecutableSteps(h, more)
  <2>. HIDE DEF more
  <2>. QED
    BY <1>0, ExecutableRecursion
<1>3. Executables(<<>>) = <<>>
  <2>1. <<>> \in Seq(T) /\ Len(<<>>) = 0
    OBVIOUS
  <2>2. PICK k : ExecutableSteps(k, <<>>)
    BY <2>1, ExecutableRecursion
  <2>. QED
    BY <2>1, <2>2 DEF ExecutableSteps
<1>. HIDE DEF more, n
<1>4. \A i \in 0..n : h[i] = f[i]
  <2>. DEFINE M == {i \in 0..n : h[i] = f[i]}
  <2>1. 0 \in M
    BY <1>0, <1>1, <1>2 DEF ExecutableSteps
  <2>2. ASSUME NEW i \in 0..n, i # 0, i - 1 \in M PROVE i \in M
    <3>1. i \in 1..n /\ i \in 1..(n + 1) /\ h[i - 1] = f[i - 1]
      BY <1>0, <2>2
    <3>2. more[i] = texts[i]
      BY <1>0, <3>1
    <3>3. h[i] = IF Executable(more[i]) THEN Append(h[i - 1], more[i]) ELSE h[i - 1]
      BY <1>0, <1>2, <3>1 DEF ExecutableSteps
    <3>4. f[i] = IF Executable(texts[i]) THEN Append(f[i - 1], texts[i]) ELSE f[i - 1]
      BY <1>1, <3>1 DEF ExecutableSteps, n
    <3>. QED
      BY <3>1, <3>2, <3>3, <3>4
  <2>3. M \subseteq 0..n
    OBVIOUS
  <2>. HIDE DEF M
  <2>4. \A i \in 0..n : i \in M
    BY <1>0, <2>1, <2>2, <2>3, Induction
  <2>. QED
    BY <2>4 DEF M
<1>5. Executables(more) = IF Executable(t) THEN Append(h[n], t) ELSE h[n]
  <2>1. n + 1 \in 1..Len(more) /\ (n + 1) - 1 = n
    BY <1>0
  <2>. QED
    BY <1>0, <1>2, <2>1 DEF ExecutableSteps
<1>6. n \in 0..n /\ Executables(texts) = f[n]
  BY <1>0, <1>1 DEF ExecutableSteps, n
<1>. QED
  BY <1>3, <1>4, <1>5, <1>6 DEF more

(* A text of comments has nothing to execute.                              *)
LEMMA CommentsAreNotExecuted ==
  ASSUME NEW t \in Texts, CommentOnly(t)
  PROVE  ~Executable(t)
<1>. DEFINE n == Len(t)
            w == Within(t)
<1>0. n \in Nat /\ DOMAIN t = 1..n /\ \A i \in 1..n : t[i] \in Chars \cup {NL}
  BY DEF Texts
<1>1. w[0] = "code" /\ \A i \in 1..n : w[i] = After(w[i - 1], t[i])
  BY WithinSteps DEF Texts
<1>2. \A i \in 1..n : i = 1 \/ t[i - 1] = NL => t[i] = "--"
  BY <1>0 DEF CommentOnly
<1>. DEFINE T == {i \in 0..n : \/ w[i] = "comment"
                               \/ w[i] = "code" /\ (i = 0 \/ t[i] = NL)}
<1>. HIDE DEF w, n
<1>3. 0 \in T
  BY <1>0, <1>1
<1>4. ASSUME NEW i \in 0..n, i # 0, i - 1 \in T PROVE i \in T
  <2>1. i \in 1..n /\ t[i] \in Chars \cup {NL} /\ w[i] = After(w[i - 1], t[i])
    BY <1>0, <1>1, <1>4
  <2>2. t[i] # "Begin"
    BY <2>1 DEF Chars, NL
  <2>3. CASE w[i - 1] = "comment"
    BY <2>1, <2>2, <2>3 DEF After
  <2>4. CASE w[i - 1] = "code" /\ (i - 1 = 0 \/ t[i - 1] = NL)
    <3>1. t[i] = "--"
      BY <1>0, <1>2, <2>1, <2>4
    <3>. QED
      BY <2>1, <2>2, <2>4, <3>1 DEF After
  <2>. QED
    BY <1>4, <2>3, <2>4
<1>5. T \subseteq 0..n
  OBVIOUS
<1>6. \A i \in 0..n : i \in T
  <2>. HIDE DEF T
  <2>. QED
    BY <1>0, <1>3, <1>4, <1>5, Induction
<1>7. \A i \in 1..n : w[i] = "comment" \/ t[i] = NL
  BY <1>0, <1>6
<1>. QED
  BY <1>0, <1>7 DEF Executable, w

(* The end of a statement: what the split keeps or drops, the format keeps *)
(* or drops.                                                               *)
LEMMA FlushKeeps ==
  ASSUME NEW acc \in Gathered, NEW texts \in Seq(Texts)
  PROVE  /\ texts \o Flush(acc).out \in Seq(Texts)
         /\ Executables(texts \o Flush(acc).out) =
              IF Executable(Strip(acc.text))
              THEN Append(Executables(texts \o acc.out), Strip(acc.text))
              ELSE Executables(texts \o acc.out)
<1>. DEFINE t == Strip(acc.text)
            all == texts \o acc.out
<1>1. t \in Texts /\ acc.out \in Seq(Texts)
  BY StripTyped DEF Gathered
<1>2. all \in Seq(Texts)
  BY <1>1, ConcatProperties
<1>3. Flush(acc).out = IF CommentOnly(t) THEN acc.out ELSE Append(acc.out, t)
  BY FlushTyped
<1>4. texts \o Append(acc.out, t) = Append(all, t)
  <2>. HIDE DEF t
  <2>. QED
    BY <1>1
<1>. HIDE DEF t, all
<1>5. CASE CommentOnly(t)
  <2>1. texts \o Flush(acc).out = all
    BY <1>3, <1>5 DEF all
  <2>2. ~Executable(t)
    BY <1>1, <1>5, CommentsAreNotExecuted
  <2>. QED
    BY <1>2, <2>1, <2>2 DEF t, all
<1>6. CASE ~CommentOnly(t)
  <2>1. texts \o Flush(acc).out = Append(all, t)
    BY <1>3, <1>4, <1>6
  <2>2. Append(all, t) \in Seq(Texts)
    BY <1>1, <1>2, AppendProperties
  <2>3. Executables(Append(all, t)) = IF Executable(t) THEN Append(Executables(all), t) ELSE Executables(all)
    BY <1>1, <1>2, ExecutablesOneMore
  <2>. QED
    BY <2>1, <2>2, <2>3 DEF t, all
<1>. QED
  BY <1>5, <1>6

-----------------------------------------------------------------------------
(***************************************************************************)
(* The characters of the section, and how far the split has come in them.  *)
(***************************************************************************)
LEMMA TokenTyped ==
  ASSUME NEW line \in FileLine, NEW inside
  PROVE  Token(line, inside) \in Seq(Tokens)
<1>1. line.text \in Seq(Tokens) /\ NL \in Tokens /\ "Begin" \in Tokens /\ "End" \in Tokens
  BY DEF FileLine, Tokens
<1>2. Append(line.text, NL) \in Seq(Tokens)
  BY <1>1, AppendProperties
<1>. QED
  BY <1>1, <1>2 DEF Token

LEMMA TextSteps ==
  ASSUME FirstUp # 0, written \in Seq(FileLine)
  PROVE  LET lines == Section IN
         /\ Text[0] = <<>>
         /\ \A i \in 1..Len(lines) : Text[i] = Text[i - 1] \o Token(lines[i], InBody[i - 1])
         /\ \A i \in 0..Len(lines) : Text[i] \in Seq(Tokens)
<1>. DEFINE lines == Section
            inside == InBody
            n == Len(lines)
            D == Seq(Tokens)
            e(i, was) == was \o Token(lines[i], inside[i - 1])
            step == [p \in (1..n) \X D |-> e(p[1], p[2])]
            Is(f) == f = [i \in 0..n |-> IF i = 0 THEN <<>> ELSE e(i, f[i - 1])]
            f == CHOOSE h : Is(h)
<1>1. n \in Nat /\ <<>> \in D /\ \A i \in 1..n : lines[i] \in FileLine
  <2>1. Section \in Seq(FileLine)
    BY PartLines
  <2>. QED
    BY <2>1
<1>2. \A i \in 1..n, was \in D : e(i, was) \in D
  <2>1. TAKE i \in 1..n, was \in D
  <2>2. Token(lines[i], inside[i - 1]) \in D
    BY <1>1, TokenTyped
  <2>. HIDE DEF inside, lines
  <2>. QED
    BY <2>2, ConcatProperties
<1>3. step \in [(1..n) \X D -> D]
  <2>. HIDE DEF e, n, D
  <2>. QED
    BY <1>2
<1>4. PICK g : Computes(g, n, D, <<>>, step)
  <2>. HIDE DEF step, n, D
  <2>. QED
    BY <1>1, <1>3, Recursion
<1>5. \A i \in 1..n : g[i] = e(i, g[i - 1])
  <2>. HIDE DEF n, e, D
  <2>1. \A i \in 1..n : g[i - 1] \in D
    BY <1>1, <1>4 DEF Computes
  <2>. QED
    BY <1>4, <2>1 DEF Computes
<1>6. Is(g)
  <2>. HIDE DEF n, e, step, D
  <2>. QED
    BY <1>1, <1>4, <1>5 DEF Computes
<1>7. Is(f)
  <2>. HIDE DEF Is
  <2>. QED
    BY <1>6
<1>8. Text = f
  BY DEF Text
<1>9. f[0] = <<>> /\ \A i \in 1..n : f[i] = e(i, f[i - 1])
  <2>. HIDE DEF f, e, n
  <2>. QED
    BY <1>1, <1>7
<1>10. \A i \in 0..n : f[i] \in D
  <2>. DEFINE T == {i \in 0..n : f[i] \in D}
  <2>. HIDE DEF f, e, n, D
  <2>1. 0 \in T
    BY <1>1, <1>9
  <2>2. ASSUME NEW i \in 0..n, i # 0, i - 1 \in T PROVE i \in T
    BY <1>1, <1>2, <1>9, <2>2
  <2>3. T \subseteq 0..n
    OBVIOUS
  <2>. HIDE DEF T
  <2>4. \A i \in 0..n : i \in T
    BY <1>1, <2>1, <2>2, <2>3, Induction
  <2>. QED
    BY <2>4 DEF T
<1>. HIDE DEF f, inside, lines
<1>. QED
  BY <1>8, <1>9, <1>10 DEF inside, lines

(* The text up to a line begins the text up to a later one.                *)
Begins(s, t) == Len(s) <= Len(t) /\ \A j \in 1..Len(s) : t[j] = s[j]

LEMMA TextBegins ==
  ASSUME FirstUp # 0, written \in Seq(FileLine), NEW m \in 0..Len(Section)
  PROVE  Stream \in Seq(Tokens) /\ Text[m] \in Seq(Tokens) /\ Begins(Text[m], Stream)
<1>. DEFINE n == Len(Section)
            f == Text
            t(i) == Token(Section[i], InBody[i - 1])
            T == {i \in 0..n : m <= i => Begins(f[m], f[i])}
<1>0. n \in Nat /\ \A i \in 1..n : Section[i] \in FileLine
  <2>1. Section \in Seq(FileLine)
    BY PartLines
  <2>. QED
    BY <2>1
<1>1. f[0] = <<>> /\ (\A i \in 1..n : f[i] = f[i - 1] \o t(i)) /\ (\A i \in 0..n : f[i] \in Seq(Tokens))
  BY TextSteps
<1>2. \A i \in 1..n : t(i) \in Seq(Tokens)
  BY <1>0, TokenTyped
<1>3. m \in Nat /\ m \in 0..n
  BY <1>0
<1>4. Stream = f[n]
  BY DEF Stream
<1>. HIDE DEF n, f, t
<1>5. 0 \in T
  BY <1>0, <1>3 DEF Begins
<1>6. ASSUME NEW i \in 0..n, i # 0, i - 1 \in T PROVE i \in T
  <2>1. i \in 1..n /\ i - 1 \in 0..n /\ i \in Int
    BY <1>0, <1>6
  <2>2. CASE m = i
    BY <2>2 DEF Begins
  <2>3. CASE m <= i - 1
    <3>1. Begins(f[m], f[i - 1])
      BY <1>6, <2>3
    <3>2. /\ f[m] \in Seq(Tokens) /\ f[i - 1] \in Seq(Tokens) /\ t(i) \in Seq(Tokens)
          /\ f[i] = f[i - 1] \o t(i)
      BY <1>1, <1>2, <1>3, <2>1
    <3>3. Begins(f[i - 1], f[i])
      BY <3>2, ConcatProperties DEF Begins
    <3>4. Len(f[m]) \in Nat /\ Len(f[i - 1]) \in Nat /\ Len(f[i]) \in Nat
      BY <1>1, <1>3, <2>1
    <3>5. Begins(f[m], f[i])
      BY <3>1, <3>3, <3>4 DEF Begins
    <3>. QED
      BY <3>5
  <2>4. CASE i < m
    BY <1>3, <2>1, <2>4
  <2>. QED
    BY <1>3, <2>1, <2>2, <2>3, <2>4
<1>7. T \subseteq 0..n
  OBVIOUS
<1>8. n \in T
  <2>. HIDE DEF T
  <2>1. \A i \in 0..n : i \in T
    BY <1>0, <1>5, <1>6, <1>7, Induction
  <2>. QED
    BY <1>0, <2>1
<1>9. m <= n /\ n \in 0..n
  BY <1>0, <1>3
<1>. QED
  BY <1>1, <1>3, <1>4, <1>8, <1>9 DEF f

(* Where the next line stands in the text.                                 *)
LEMMA LineInStream ==
  ASSUME FirstUp # 0, written \in Seq(FileLine), NEW m \in 0..Len(Section), m + 1 \in 0..Len(Section)
  PROVE  LET t == Token(Section[m + 1], InBody[m])
             o == Len(Text[m])
         IN  /\ Stream \in Seq(Tokens) /\ t \in Seq(Tokens) /\ o \in Nat /\ Len(t) \in Nat
             /\ Len(Text[m + 1]) = o + Len(t) /\ o + Len(t) <= Len(Stream)
             /\ \A j \in 1..Len(t) : Stream[o + j] = t[j]
<1>. DEFINE t == Token(Section[m + 1], InBody[m])
            k == m + 1
            f == Text
<1>0. m \in Nat /\ k \in 1..Len(Section) /\ k - 1 = m
  <2>1. Section \in Seq(FileLine)
    BY PartLines
  <2>. QED
    BY <2>1
<1>1. f[k] = f[k - 1] \o Token(Section[k], InBody[k - 1])
  BY <1>0, TextSteps
<1>2. f[k] = f[m] \o t
  BY <1>0, <1>1
<1>3. /\ Stream \in Seq(Tokens) /\ f[m] \in Seq(Tokens)
      /\ f[k] \in Seq(Tokens) /\ Begins(f[k], Stream)
  BY TextBegins
<1>4. t \in Seq(Tokens)
  <2>1. Section \in Seq(FileLine)
    BY PartLines
  <2>2. Section[m + 1] \in FileLine
    BY <1>0, <2>1
  <2>. QED
    BY <2>2, TokenTyped
<1>. HIDE DEF t, f
<1>5. Len(f[m]) \in Nat /\ Len(t) \in Nat /\ Len(f[k]) = Len(f[m]) + Len(t)
  BY <1>2, <1>3, <1>4, ConcatProperties
<1>6. \A j \in 1..Len(t) : f[k][Len(f[m]) + j] = t[j]
  <2>1. TAKE j \in 1..Len(t)
  <2>. DEFINE a == Len(f[m])
  <2>2. a + j \in 1..(a + Len(t)) /\ ~(a + j <= a) /\ (a + j) - a = j
    BY <1>5
  <2>. QED
    BY <1>2, <1>3, <1>4, <2>2, ConcatProperties
<1>7. \A j \in 1..Len(t) : Stream[Len(f[m]) + j] = t[j]
  <2>1. TAKE j \in 1..Len(t)
  <2>2. Len(f[m]) + j \in 1..Len(f[k])
    BY <1>5
  <2>. QED
    BY <1>3, <1>6, <2>2 DEF Begins
<1>. QED
  BY <1>3, <1>4, <1>5, <1>7 DEF Begins, t, f

(* The split has come to place i of s: text is what it has read since the  *)
(* last end of a statement, and texts what was to execute before.          *)
Since(s, i, e, text) ==
  /\ e = 0 \/ e \in EndsOf(s)
  /\ \A j \in (e + 1)..i : j \notin EndsOf(s)
  /\ text = SubSeq(s, e + 1, i)

Reads(s, i, text, texts, place) ==
  /\ \E e \in 0..i : Since(s, i, e, text)
  /\ KeptUpTo(s)[i] = Executables(texts) /\ Within(s)[i] = place

LEMMA ReadsStart ==
  ASSUME NEW s \in Seq(Tokens)
  PROVE  Reads(s, 0, <<>>, <<>>, "code")
<1>1. SubSeq(s, 0 + 1, 0) = <<>>
  BY SubSeqEmpty
<1>2. Since(s, 0, 0, <<>>) /\ 0 \in 0..0
  BY <1>1 DEF Since
<1>3. KeptUpTo(s)[0] = <<>> /\ Within(s)[0] = "code"
  BY KeptSteps, WithinSteps
<1>4. Executables(<<>>) = <<>>
  <2>1. <<>> \in Seq(Texts) /\ <<>> \in Texts
    BY DEF Texts
  <2>. QED
    BY <2>1, ExecutablesOneMore
<1>. QED
  BY <1>2, <1>3, <1>4 DEF Reads

(* A character inside a statement.                                         *)
LEMMA ReadsOn ==
  ASSUME NEW s \in Seq(Tokens), NEW i \in 0..Len(s), i + 1 \in 1..Len(s),
         NEW text, NEW texts, NEW place, Reads(s, i, text, texts, place),
         i + 1 \notin EndsOf(s)
  PROVE  Reads(s, i + 1, Append(text, s[i + 1]), texts, After(place, s[i + 1]))
<1>. DEFINE k == i + 1
            ends == EndsOf(s)
<1>0. i \in Nat /\ Len(s) \in Nat /\ k \in 1..Len(s) /\ k \in 1..(Len(s) + 1) /\ k - 1 = i
  OBVIOUS
<1>1. PICK e \in 0..i : Since(s, i, e, text)
  BY DEF Reads
<1>2. SubSeq(s, e + 1, k) = Append(text, s[k])
  <2>. DEFINE a == e + 1
  <2>1. a \in 1..Len(s) /\ k \in a..Len(s)
    BY <1>0
  <2>. HIDE DEF a, k
  <2>2. SubSeq(s, a, k) = Append(SubSeq(s, a, k - 1), s[k])
    BY <2>1, OneMore
  <2>. QED
    BY <1>0, <1>1, <2>2 DEF a, Since
<1>3. \A j \in (e + 1)..k : j \notin ends
  <2>. HIDE DEF ends
  <2>1. \A j \in (e + 1)..k : j \in (e + 1)..i \/ j = k
    BY <1>0
  <2>2. k \notin ends
    BY DEF ends
  <2>3. \A j \in (e + 1)..i : j \notin ends
    BY <1>1 DEF Since, ends
  <2>. QED
    BY <2>1, <2>2, <2>3
<1>4. Since(s, k, e, Append(text, s[k]))
  BY <1>1, <1>2, <1>3 DEF Since
<1>5. KeptUpTo(s)[k] = KeptUpTo(s)[k - 1]
  <2>. HIDE DEF k
  <2>1. k \notin EndsOf(s)
    BY DEF k
  <2>. QED
    BY <1>0, <2>1, KeptSteps
<1>6. Within(s)[k] = After(Within(s)[k - 1], s[k])
  <2>. HIDE DEF k
  <2>. QED
    BY <1>0, WithinSteps
<1>7. e \in 0..k
  BY <1>0
<1>. QED
  BY <1>0, <1>4, <1>5, <1>6, <1>7 DEF Reads

(* The end of a statement, and the end of the section.                     *)
LEMMA KeptAtEnd ==
  ASSUME NEW s \in Seq(Tokens), NEW i \in 0..Len(s),
         NEW text, NEW texts, NEW place, Reads(s, i, text, texts, place),
         i + 1 \in EndsOf(s)
  PROVE  KeptUpTo(s)[i + 1] = IF Executable(Strip(text)) THEN Append(Executables(texts), Strip(text))
                          ELSE Executables(texts)
<1>. DEFINE k == i + 1
            ends == EndsOf(s)
            I == {0} \cup {e \in ends : e < k}
<1>0. i \in Nat /\ Len(s) \in Nat /\ k \in 1..(Len(s) + 1) /\ k - 1 = i
  OBVIOUS
<1>1. PICK e \in 0..i : Since(s, i, e, text)
  BY DEF Reads
<1>2. ends \subseteq 1..(Len(s) + 1)
  <2>1. ends \subseteq {Len(s) + 1} \cup DOMAIN s
    BY DEF EndsOf
  <2>2. DOMAIN s = 1..Len(s)
    OBVIOUS
  <2>. HIDE DEF ends
  <2>. QED
    BY <1>0, <2>1, <2>2
<1>3. Max(I) = e
  <2>1. e \in I /\ I \subseteq 0..i /\ I # {}
    <3>. HIDE DEF ends
    <3>. QED
      BY <1>0, <1>1, <1>2 DEF Since, ends
  <2>2. \A j \in I : j <= e
    <3>1. \A j \in I : j \in 0..i
      BY <2>1
    <3>2. \A j \in I : ~(e < j)
      <4>. HIDE DEF ends
      <4>1. TAKE j \in I
      <4>2. e < j => j \in (e + 1)..i /\ j \in ends
        BY <1>0, <3>1
      <4>. QED
        BY <1>1, <4>2 DEF Since, ends
    <3>. QED
      BY <1>0, <3>1, <3>2
  <2>3. Max(I) \in I /\ \A j \in I : j <= Max(I)
    <3>. HIDE DEF I
    <3>. QED
      BY <1>0, <2>1, GreatestIsMax
  <2>. DEFINE b == Max(I)
  <2>. HIDE DEF I
  <2>4. b \in I /\ \A j \in I : j <= b
    BY <2>3
  <2>. HIDE DEF b
  <2>5. b \in 0..i /\ b <= e /\ e <= b
    BY <2>1, <2>2, <2>4
  <2>6. b = e
    BY <1>0, <2>5
  <2>. QED
    BY <2>6 DEF b
<1>4. PieceAt(s, ends, k) = Strip(text)
  <2>1. PieceAt(s, ends, k) = Strip(SubSeq(s, Max(I) + 1, k - 1))
    BY DEF PieceAt
  <2>. QED
    BY <1>0, <1>1, <1>3, <2>1 DEF Since
<1>5. KeptUpTo(s)[k] = IF k \in ends /\ Executable(PieceAt(s, ends, k))
                   THEN Append(KeptUpTo(s)[k - 1], PieceAt(s, ends, k)) ELSE KeptUpTo(s)[k - 1]
  <2>. HIDE DEF k
  <2>. QED
    BY <1>0, KeptSteps
<1>6. KeptUpTo(s)[k - 1] = Executables(texts) /\ k \in ends
  BY <1>0 DEF Reads
<1>. HIDE DEF ends
<1>. QED
  BY <1>4, <1>5, <1>6

LEMMA ReadsEnd ==
  ASSUME NEW s \in Seq(Tokens), NEW i \in 0..Len(s), i + 1 \in 1..Len(s),
         NEW text, NEW texts, NEW place, Reads(s, i, text, texts, place),
         i + 1 \in EndsOf(s), NEW more,
         Executables(more) = IF Executable(Strip(text)) THEN Append(Executables(texts), Strip(text))
                             ELSE Executables(texts)
  PROVE  Reads(s, i + 1, <<>>, more, After(place, s[i + 1]))
<1>. DEFINE k == i + 1
<1>0. k \in 1..Len(s) /\ k - 1 = i /\ k \in 0..k
  OBVIOUS
<1>1. Since(s, k, k, <<>>)
  <2>1. SubSeq(s, k + 1, k) = <<>>
    BY <1>0, SubSeqEmpty
  <2>2. \A j \in (k + 1)..k : FALSE
    OBVIOUS
  <2>. QED
    BY <2>1, <2>2 DEF Since
<1>2. KeptUpTo(s)[k] = Executables(more)
  BY KeptAtEnd
<1>3. Within(s)[k] = After(Within(s)[k - 1], s[k])
  <2>. HIDE DEF k
  <2>. QED
    BY <1>0, WithinSteps
<1>. QED
  BY <1>0, <1>1, <1>2, <1>3 DEF Reads

(* Which places are ends.                                                  *)
LEMMA EndsAre ==
  ASSUME NEW s \in Seq(Tokens), NEW i \in 0..Len(s), i + 1 \in 1..Len(s),
         NEW text, NEW texts, NEW place, Reads(s, i, text, texts, place)
  PROVE  i + 1 \in EndsOf(s) <=> \/ s[i + 1] \in {"Begin", "End"}
                                 \/ s[i + 1] = ";" /\ place = "code"
<1>. DEFINE k == i + 1
<1>0. k \in 1..Len(s) /\ k - 1 = i /\ k # Len(s) + 1 /\ k \in DOMAIN s
  OBVIOUS
<1>1. Within(s)[k] = After(place, s[k])
  <2>1. Within(s)[k] = After(Within(s)[k - 1], s[k])
    <3>. HIDE DEF k
    <3>. QED
      BY <1>0, WithinSteps
  <2>. QED
    BY <1>0, <2>1 DEF Reads
<1>2. s[k] = ";" => (After(place, s[k]) = "code" <=> place \notin {"body", "literal", "comment"})
  BY DEF After, NL
<1>3. place \in Places
  BY <1>0, WithinTyped DEF Reads
<1>4. k \in EndsOf(s) <=> s[k] \in {"Begin", "End"} \/ (s[k] = ";" /\ Within(s)[k] = "code")
  <2>. HIDE DEF k
  <2>. QED
    BY <1>0 DEF EndsOf
<1>. QED
  BY <1>1, <1>2, <1>3, <1>4 DEF Places

PlaceOf(acc) == IF acc.quoted THEN "literal" ELSE IF acc.comment THEN "comment" ELSE "code"

(* The same of the loop over plain lines.                                  *)
Gathers(s, i, texts, acc) ==
  /\ acc \in Gathered /\ ~(acc.quoted /\ acc.comment)
  /\ Reads(s, i, acc.text, texts \o acc.out, PlaceOf(acc))

LEMMA OneCharacter ==
  ASSUME NEW s \in Seq(Tokens), NEW i \in 0..Len(s), i + 1 \in 1..Len(s), s[i + 1] \in Chars,
         NEW texts \in Seq(Texts), NEW acc, Gathers(s, i, texts, acc)
  PROVE  Gathers(s, i + 1, texts, Read(acc, s[i + 1]))
<1>. DEFINE c == s[i + 1]
            new == Read(acc, c)
<1>0. /\ acc \in Gathered /\ ~(acc.quoted /\ acc.comment)
      /\ acc.quoted \in BOOLEAN /\ acc.comment \in BOOLEAN
      /\ Reads(s, i, acc.text, texts \o acc.out, PlaceOf(acc))
  BY DEF Gathers, Gathered
<1>1. i + 1 \in EndsOf(s) <=> c = ";" /\ ~acc.quoted /\ ~acc.comment
  <2>1. i + 1 \in EndsOf(s) <=> c \in {"Begin", "End"} \/ (c = ";" /\ PlaceOf(acc) = "code")
    BY <1>0, EndsAre
  <2>2. c \notin {"Begin", "End"}
    BY DEF Chars
  <2>3. PlaceOf(acc) = "code" <=> ~acc.quoted /\ ~acc.comment
    BY DEF PlaceOf
  <2>. QED
    BY <2>1, <2>2, <2>3
<1>2. CASE c = ";" /\ ~acc.quoted /\ ~acc.comment
  <2>1. new = Flush(acc)
    BY <1>2 DEF Read
  <2>2. new \in Gathered /\ new.text = <<>> /\ new.quoted = acc.quoted /\ new.comment = acc.comment
    BY <1>0, <2>1, FlushTyped
  <2>3. Executables(texts \o new.out) =
          IF Executable(Strip(acc.text)) THEN Append(Executables(texts \o acc.out), Strip(acc.text))
          ELSE Executables(texts \o acc.out)
    BY <1>0, <2>1, FlushKeeps
  <2>4. Reads(s, i + 1, <<>>, texts \o new.out, After(PlaceOf(acc), c))
    <3>. HIDE DEF new
    <3>. QED
      BY <1>0, <1>1, <1>2, <2>3, ReadsEnd
  <2>5. After(PlaceOf(acc), c) = PlaceOf(new)
    BY <1>2, <2>2 DEF PlaceOf, After, NL
  <2>. HIDE DEF new
  <2>. QED
    BY <1>0, <2>2, <2>4, <2>5 DEF Gathers, new
<1>3. CASE ~(c = ";" /\ ~acc.quoted /\ ~acc.comment)
  <2>1. /\ new \in Gathered /\ new.text = Append(acc.text, c) /\ new.out = acc.out
        /\ new.quoted = IF c = "'" /\ ~acc.comment THEN ~acc.quoted ELSE acc.quoted
        /\ new.comment = (acc.comment \/ (c = "--" /\ ~acc.quoted))
    BY <1>0, <1>3, ReadOn
  <2>2. Reads(s, i + 1, Append(acc.text, c), texts \o acc.out, After(PlaceOf(acc), c))
    BY <1>0, <1>1, <1>3, ReadsOn
  <2>. DEFINE q == acc.quoted
              k == acc.comment
  <2>3. c # "Begin" /\ c # NL /\ c # "End"
    BY DEF Chars, NL
  <2>4. ~(new.quoted /\ new.comment)
    <3>. HIDE DEF new, c
    <3>1. CASE c = "'"
      BY <1>0, <2>1, <3>1
    <3>2. CASE c # "'"
      BY <1>0, <2>1, <3>2
    <3>. QED
      BY <3>1, <3>2
  <2>5. After(PlaceOf(acc), c) = PlaceOf(new)
    <3>. HIDE DEF new, c
    <3>1. CASE acc.quoted
      BY <1>0, <2>1, <2>3, <3>1 DEF PlaceOf, After
    <3>2. CASE acc.comment
      BY <1>0, <2>1, <2>3, <3>2 DEF PlaceOf, After
    <3>3. CASE ~acc.quoted /\ ~acc.comment
      BY <1>0, <2>1, <2>3, <3>3 DEF PlaceOf, After
    <3>. QED
      BY <3>1, <3>2, <3>3
  <2>. HIDE DEF new
  <2>. QED
    BY <2>1, <2>2, <2>4, <2>5 DEF Gathers, new
<1>. QED
  BY <1>2, <1>3

(* A line outside a body.                                                  *)
LEMMA FragmentLine ==
  ASSUME NEW s \in Seq(Tokens), NEW o \in Nat, NEW text \in Seq(Chars),
         o + Len(Append(text, NL)) <= Len(s),
         \A j \in 1..Len(Append(text, NL)) : s[o + j] = Append(text, NL)[j],
         NEW texts \in Seq(Texts), NEW acc, Gathers(s, o, texts, acc)
  PROVE  Gathers(s, o + Len(Append(text, NL)), texts, ReadFragment(acc, text))
<1>. DEFINE n == Len(text)
            line == ReadLine(acc, text)
            new == ReadFragment(acc, text)
<1>0. /\ n \in Nat /\ Len(s) \in Nat /\ Len(Append(text, NL)) = n + 1 /\ o + n + 1 <= Len(s)
      /\ \A j \in 1..n : s[o + j] = text[j] /\ text[j] \in Chars
      /\ s[o + (n + 1)] = NL
  <2>1. /\ n \in Nat /\ Len(s) \in Nat /\ Len(Append(text, NL)) = n + 1
        /\ \A j \in 1..n : Append(text, NL)[j] = text[j] /\ text[j] \in Chars
        /\ Append(text, NL)[n + 1] = NL
    OBVIOUS
  <2>2. (\A j \in 1..n : j \in 1..(n + 1)) /\ n + 1 \in 1..(n + 1)
    BY <2>1
  <2>. HIDE DEF n
  <2>. QED
    BY <2>1, <2>2
<1>1. acc \in Gathered
  BY DEF Gathers
<1>2. PICK f : LineSteps(f, acc, text)
  BY <1>1, ReadLineRecursion
<1>3. line = f[n] /\ f[0] = acc /\ \A j \in 1..n : f[j] = Read(f[j - 1], text[j])
  BY <1>2 DEF LineSteps
<1>. DEFINE T == {j \in 0..n : Gathers(s, o + j, texts, f[j])}
<1>. HIDE DEF n, line
<1>4. 0 \in T
  <2>1. o + 0 = o /\ 0 \in 0..n
    BY <1>0
  <2>. QED
    BY <1>3, <2>1
<1>5. ASSUME NEW j \in 0..n, j # 0, j - 1 \in T PROVE j \in T
  <2>. DEFINE i == o + (j - 1)
  <2>1. j \in 1..n /\ i \in 0..Len(s) /\ i + 1 \in 1..Len(s) /\ i + 1 = o + j
    BY <1>0, <1>5
  <2>2. Gathers(s, i, texts, f[j - 1])
    BY <1>5
  <2>3. s[i + 1] = text[j] /\ text[j] \in Chars
    BY <1>0, <2>1
  <2>. HIDE DEF i
  <2>4. Gathers(s, i + 1, texts, Read(f[j - 1], s[i + 1]))
    BY <2>1, <2>2, <2>3, OneCharacter
  <2>. QED
    BY <1>3, <2>1, <2>3, <2>4
<1>6. T \subseteq 0..n
  OBVIOUS
<1>7. n \in T
  <2>. HIDE DEF T
  <2>1. \A j \in 0..n : j \in T
    BY <1>0, <1>4, <1>5, <1>6, Induction
  <2>. QED
    BY <1>0, <2>1
<1>8. /\ line \in Gathered /\ ~(line.quoted /\ line.comment)
      /\ Reads(s, o + n, line.text, texts \o line.out, PlaceOf(line))
  BY <1>3, <1>7 DEF Gathers
<1>9. /\ new \in Gathered
      /\ new = [text |-> Append(line.text, NL), quoted |-> line.quoted, comment |-> FALSE,
                out |-> line.out]
  BY <1>1, FragmentTyped DEF line
<1>10. /\ new.text = Append(line.text, NL) /\ new.quoted = line.quoted /\ new.comment = FALSE
       /\ new.out = line.out
  <2>. HIDE DEF new
  <2>. QED
    BY <1>9
<1>. HIDE DEF new
<1>. DEFINE i == o + n
<1>11. i \in 0..Len(s) /\ i + 1 \in 1..Len(s) /\ s[i + 1] = NL /\ i + 1 = o + (n + 1)
  BY <1>0
<1>. HIDE DEF i
<1>12. Reads(s, i, line.text, texts \o line.out, PlaceOf(line))
  BY <1>8 DEF i
<1>13. i + 1 \notin EndsOf(s)
  <2>1. i + 1 \in EndsOf(s) <=> \/ s[i + 1] \in {"Begin", "End"}
                                \/ s[i + 1] = ";" /\ PlaceOf(line) = "code"
    BY <1>11, <1>12, EndsAre
  <2>. QED
    BY <1>11, <2>1 DEF NL
<1>14. Reads(s, i + 1, Append(line.text, NL), texts \o line.out, After(PlaceOf(line), NL))
  BY <1>11, <1>12, <1>13, ReadsOn
<1>15. After(PlaceOf(line), NL) = PlaceOf(new)
  BY <1>8, <1>10 DEF PlaceOf, After, NL
<1>16. Gathers(s, i + 1, texts, new)
  BY <1>9, <1>10, <1>14, <1>15 DEF Gathers
<1>. QED
  BY <1>0, <1>11, <1>16 DEF new

(* A line inside one.                                                      *)
LEMMA BodyText ==
  ASSUME NEW s \in Seq(Tokens), NEW o \in Nat, NEW t \in Texts, o + Len(t) <= Len(s),
         \A j \in 1..Len(t) : s[o + j] = t[j],
         NEW text \in Texts, NEW texts, Reads(s, o, text, texts, "body")
  PROVE  Reads(s, o + Len(t), text \o t, texts, "body")
<1>. DEFINE n == Len(t)
            p(j) == text \o SubSeq(t, 1, j)
            T == {j \in 0..n : Reads(s, o + j, p(j), texts, "body")}
<1>0. /\ n \in Nat /\ Len(s) \in Nat /\ t \in Seq(Chars \cup {NL}) /\ text \in Seq(Chars \cup {NL})
      /\ \A j \in 1..n : s[o + j] = t[j] /\ t[j] \in Chars \cup {NL}
  BY DEF Texts
<1>1. p(0) = text /\ p(n) = text \o t
  <2>1. SubSeq(t, 1, 0) = <<>> /\ SubSeq(t, 1, n) = t
    BY <1>0, SubSeqEmpty, SubSeqFull
  <2>. QED
    BY <1>0, <2>1
<1>2. \A j \in 1..n : p(j) = Append(p(j - 1), t[j])
  <2>1. TAKE j \in 1..n
  <2>2. SubSeq(t, 1, j) = Append(SubSeq(t, 1, j - 1), t[j])
    BY <1>0, OneMore
  <2>3. SubSeq(t, 1, j - 1) \in Seq(Chars \cup {NL})
    BY <1>0
  <2>. DEFINE a == SubSeq(t, 1, j - 1)
  <2>. HIDE DEF a
  <2>4. text \o Append(a, t[j]) = Append(text \o a, t[j])
    BY <1>0, <2>3 DEF a
  <2>. QED
    BY <2>2, <2>4 DEF a
<1>. HIDE DEF n, p
<1>3. 0 \in T
  <2>1. o + 0 = o /\ 0 \in 0..n
    BY <1>0
  <2>. QED
    BY <1>1, <2>1
<1>4. ASSUME NEW j \in 0..n, j # 0, j - 1 \in T PROVE j \in T
  <2>. DEFINE i == o + (j - 1)
  <2>1. j \in 1..n /\ i \in 0..Len(s) /\ i + 1 \in 1..Len(s) /\ i + 1 = o + j
    BY <1>0, <1>4 DEF n
  <2>2. Reads(s, i, p(j - 1), texts, "body")
    BY <1>4
  <2>3. s[i + 1] = t[j] /\ t[j] \in Chars \cup {NL}
    BY <1>0, <2>1
  <2>. HIDE DEF i
  <2>4. s[i + 1] \notin {"Begin", "End"}
    BY <2>3 DEF Chars, NL
  <2>5. i + 1 \notin EndsOf(s)
    <3>1. i + 1 \in EndsOf(s) <=> \/ s[i + 1] \in {"Begin", "End"}
                                  \/ s[i + 1] = ";" /\ "body" = "code"
      BY <2>1, <2>2, EndsAre
    <3>. QED
      BY <2>4, <3>1
  <2>6. Reads(s, i + 1, Append(p(j - 1), s[i + 1]), texts, After("body", s[i + 1]))
    BY <2>1, <2>2, <2>5, ReadsOn
  <2>7. After("body", s[i + 1]) = "body"
    BY <2>4 DEF After
  <2>. QED
    BY <1>2, <2>1, <2>3, <2>6, <2>7
<1>5. T \subseteq 0..n
  OBVIOUS
<1>6. n \in T
  <2>. HIDE DEF T
  <2>1. \A j \in 0..n : j \in T
    BY <1>0, <1>3, <1>4, <1>5, Induction
  <2>. QED
    BY <1>0, <2>1
<1>. QED
  BY <1>1, <1>6 DEF n

-----------------------------------------------------------------------------
(* With m lines of the section read, the split has come to their end.      *)
TextRead(m) ==
  IF body.open
  THEN Reads(Stream, Len(Text[m]), body.text, statements, "body") /\ fragments = <<>>
  ELSE Gathers(Stream, Len(Text[m]), statements, Gather(fragments)) /\ body = NoBody

TextInv ==
  /\ pass = "split" =>
       \E m \in 0..Len(Section) : /\ rest = SubSeq(Section, m + 1, Len(Section))
                                  /\ body.open = InBody[m] /\ TextRead(m)
  /\ pass \in {"check", "parsed"} => Executables(statements) = StatementsOf(Stream)

LEMMA TextStays ==
  ASSUME written' = written
  PROVE  /\ Section' = Section /\ InBody' = InBody /\ Text' = Text /\ Stream' = Stream
         /\ StatementsOf(Stream)' = StatementsOf(Stream)
<1>1. Section' = Section /\ InBody' = InBody
  BY FileStays
<1>2. Text' = Text
  BY <1>1 DEF Text
<1>3. Stream' = Stream
  BY <1>1, <1>2 DEF Stream
<1>4. StatementsOf(Stream)' = StatementsOf(Stream)
  BY <1>3
<1>. QED
  BY <1>1, <1>2, <1>3, <1>4

(* The next run of plain lines begins with nothing gathered.               *)
LEMMA GathersAfresh ==
  ASSUME NEW s, NEW i, NEW texts \in Seq(Texts), Reads(s, i, <<>>, texts, "code")
  PROVE  Gathers(s, i, texts, Gather(<<>>))
<1>1. Gather(<<>>) = NothingGathered
  <2>1. <<>> \in Seq(Seq(Chars)) /\ <<>> \in Seq(Chars)
    OBVIOUS
  <2>. QED
    BY <2>1, GatherOneMore
<1>2. /\ NothingGathered \in Gathered /\ NothingGathered.text = <<>> /\ NothingGathered.out = <<>>
      /\ NothingGathered.quoted = FALSE /\ NothingGathered.comment = FALSE
  BY DEF NothingGathered, Gathered, Texts
<1>3. texts \o <<>> = texts
  OBVIOUS
<1>. HIDE DEF NothingGathered
<1>4. PlaceOf(NothingGathered) = "code"
  BY <1>2 DEF PlaceOf
<1>. QED
  BY <1>1, <1>2, <1>3, <1>4 DEF Gathers

LEMMA TextStep ==
  ASSUME ParserTypeOK, FormInv, TextInv, [ParserNext]_parserVars
  PROVE  TextInv'
<1>0. /\ written \in Seq(FileLine) /\ rest \in Seq(FileLine) /\ up \in Seq(FileLine)
      /\ fragments \in Seq(Seq(Chars)) /\ statements \in Seq(Texts)
      /\ body \in [open : BOOLEAN, text : Texts]
      /\ Len(written) \in Nat
  BY DEF ParserTypeOK
<1>a. written' = written
  BY DEF ParserNext, HeaderLine, HeaderNoTransaction, HeaderUp, HeaderFails, UpLine, UpEnds, BodyLine,
     BodyEnds, Fragment, BodyBegins, SplitFails, SplitEnds, Check, Consume, parserVars
<1>b. /\ Section' = Section /\ InBody' = InBody /\ Text' = Text /\ Stream' = Stream
      /\ StatementsOf(Stream)' = StatementsOf(Stream)
  BY <1>a, TextStays
<1>c. ASSUME FirstUp # 0
      PROVE  Section \in Seq(FileLine) /\ Len(Section) \in Nat
  BY <1>0, <1>c, PartLines
<1>d. ASSUME pass = "split"
      PROVE  \E m \in 0..Len(Section) :
               LET t == Token(Section[m + 1], InBody[m])
                   o == Len(Text[m])
               IN
               /\ FirstUp # 0 /\ TextRead(m) /\ body.open = InBody[m]
               /\ Stream \in Seq(Tokens)
               /\ rest = <<>> <=> m = Len(Section)
               /\ rest # <<>> => /\ m + 1 \in 0..Len(Section) /\ m + 1 \in 1..Len(Section)
                                 /\ Line = Section[m + 1] /\ Line \in FileLine
                                 /\ Tail(rest) = SubSeq(Section, (m + 1) + 1, Len(Section))
                                 /\ InBody[m + 1] = IF InBody[m] THEN Line.mark # "End"
                                                    ELSE Line.mark = "Begin"
                                 /\ t \in Seq(Tokens) /\ o \in Nat /\ Len(t) \in Nat
                                 /\ Len(Text[m + 1]) = o + Len(t) /\ o + Len(t) <= Len(Stream)
                                 /\ \A j \in 1..Len(t) : Stream[o + j] = t[j]
  <2>1. PICK m \in 0..Len(Section) : /\ rest = SubSeq(Section, m + 1, Len(Section))
                                     /\ TextRead(m) /\ body.open = InBody[m]
    BY <1>d DEF TextInv
  <2>2. FirstUp # 0
    BY <1>d DEF FormInv, SectionInv
  <2>3. \A i \in 1..Len(Section) :
          InBody[i] = IF InBody[i - 1] THEN Section[i].mark # "End" ELSE Section[i].mark = "Begin"
    BY <1>c, <2>2, BodySteps
  <2>4. Stream \in Seq(Tokens)
    BY <1>0, <2>2, TextBegins
  <2>5. m + 1 \in 0..Len(Section) =>
          LET t == Token(Section[m + 1], InBody[m])
              o == Len(Text[m])
          IN  /\ t \in Seq(Tokens) /\ o \in Nat /\ Len(t) \in Nat
              /\ Len(Text[m + 1]) = o + Len(t) /\ o + Len(t) <= Len(Stream)
              /\ \A j \in 1..Len(t) : Stream[o + j] = t[j]
    BY <1>0, <2>2, LineInStream
  <2>. HIDE DEF FirstUp, Section, InBody, Text, Stream
  <2>6. /\ rest = <<>> <=> m = Len(Section)
        /\ rest # <<>> => /\ m + 1 \in 0..Len(Section) /\ m + 1 \in 1..Len(Section)
                          /\ Line = Section[m + 1] /\ Line \in FileLine
                          /\ Tail(rest) = SubSeq(Section, (m + 1) + 1, Len(Section))
    BY <1>c, <2>1, <2>2, NextLine
  <2>7. rest # <<>> => InBody[m + 1] = IF InBody[m] THEN Line.mark # "End" ELSE Line.mark = "Begin"
    <3>1. rest # <<>> => m + 1 \in 1..Len(Section) /\ (m + 1) - 1 = m /\ Line = Section[m + 1]
      BY <1>c, <2>2, <2>6
    <3>. QED
      BY <2>3, <3>1
  <2>. QED
    BY <2>1, <2>2, <2>4, <2>5, <2>6, <2>7
<1>. HIDE DEF FirstUp, Section, InBody, Text, Stream
<1>1. CASE HeaderLine \/ HeaderNoTransaction \/ HeaderUp \/ HeaderFails \/ UpLine \/ SplitFails
  <2>1. pass' \notin {"split", "check", "parsed"}
    BY <1>1 DEF HeaderLine, HeaderNoTransaction, HeaderUp, HeaderFails, UpLine, SplitFails, AtLine
  <2>. QED
    BY <2>1 DEF TextInv
<1>2. CASE UpEnds
  <2>1. /\ pass = "up" /\ (rest = <<>> \/ Line.mark = "Down")
        /\ pass' = "split" /\ rest' = up /\ UNCHANGED <<body, fragments, statements>>
    BY <1>2 DEF UpEnds, AtLine, split
  <2>2. PICK u \in 1..Len(written), n \in 0..Len(written) : UpRead(u, n)
    BY <2>1 DEF FormInv, UpInv
  <2>3. n # Len(written) => written[n + 1].mark = "Down"
    <3>1. rest = SubSeq(written, n + 1, Len(written))
      BY <2>2 DEF UpRead
    <3>. QED
      BY <1>0, <2>1, <3>1, NextLine
  <2>4. FirstUp = u /\ up = Section
    BY <1>0, <2>2, <2>3, SectionFound
  <2>5. FirstUp # 0 /\ Section \in Seq(FileLine) /\ Len(Section) \in Nat /\ 0 \in 0..Len(Section)
    BY <1>c, <2>4
  <2>6. InBody[0] = FALSE
    BY <2>5, BodySteps
  <2>7. body = NoBody /\ fragments = <<>> /\ statements = <<>> /\ body.open = FALSE
    BY <2>1 DEF FormInv, StartInv, NoBody
  <2>8. Stream \in Seq(Tokens) /\ Text[0] = <<>> /\ Len(Text[0]) = 0
    <3>1. Stream \in Seq(Tokens)
      BY <1>0, <2>5, TextBegins
    <3>2. Text[0] = <<>>
      BY <1>0, <2>5, TextSteps
    <3>. QED
      BY <3>1, <3>2
  <2>9. Gathers(Stream, 0, <<>>, Gather(<<>>))
    <3>1. <<>> \in Seq(Texts)
      OBVIOUS
    <3>. QED
      BY <2>8, <3>1, ReadsStart, GathersAfresh
  <2>10. TextRead(0)'
    BY <1>b, <2>1, <2>7, <2>8, <2>9 DEF TextRead
  <2>11. rest' = SubSeq(Section, 0 + 1, Len(Section))
    BY <2>1, <2>4, <2>5, SubSeqFull
  <2>. QED
    BY <1>b, <2>1, <2>5, <2>6, <2>7, <2>10, <2>11 DEF TextInv
<1>3. CASE BodyLine
  <2>1. /\ pass = "split" /\ rest # <<>> /\ Line.mark # "End" /\ body.open
        /\ pass' = "split" /\ rest' = Tail(rest) /\ UNCHANGED <<statements, fragments>>
        /\ body'.open = body.open
        /\ body'.text = body.text \o Append(Line.text, NL)
    BY <1>0, <1>3 DEF BodyLine, AtLine, Consume
  <2>2. PICK m \in 0..Len(Section) :
          LET t == Token(Section[m + 1], InBody[m])
              o == Len(Text[m])
          IN  /\ TextRead(m) /\ body.open = InBody[m] /\ Stream \in Seq(Tokens)
              /\ m + 1 \in 0..Len(Section) /\ Line = Section[m + 1] /\ Line \in FileLine
              /\ Tail(rest) = SubSeq(Section, (m + 1) + 1, Len(Section))
              /\ InBody[m + 1] = IF InBody[m] THEN Line.mark # "End" ELSE Line.mark = "Begin"
              /\ o \in Nat /\ Len(Text[m + 1]) = o + Len(t) /\ o + Len(t) <= Len(Stream)
              /\ \A j \in 1..Len(t) : Stream[o + j] = t[j]
    BY <1>d, <2>1
  <2>. DEFINE t == Append(Line.text, NL)
              o == Len(Text[m])
  <2>3. Token(Section[m + 1], InBody[m]) = t
    BY <2>1, <2>2 DEF Token
  <2>4. t \in Texts /\ body.text \in Texts
    <3>1. Line.text \in Seq(Chars \cup {NL}) /\ NL \in Chars \cup {NL}
      BY <2>2 DEF FileLine
    <3>. QED
      BY <1>0, <3>1, AppendProperties DEF Texts
  <2>5. Reads(Stream, o, body.text, statements, "body") /\ fragments = <<>>
    BY <2>1, <2>2 DEF TextRead
  <2>. HIDE DEF t
  <2>6. Reads(Stream, o + Len(t), body.text \o t, statements, "body")
    BY <2>2, <2>3, <2>4, <2>5, BodyText
  <2>7. TextRead(m + 1)'
    BY <1>b, <2>1, <2>2, <2>3, <2>5, <2>6 DEF TextRead, t
  <2>8. body'.open = InBody[m + 1]
    BY <2>1, <2>2
  <2>. QED
    BY <1>b, <2>1, <2>2, <2>7, <2>8 DEF TextInv
<1>4. CASE BodyEnds
  <2>1. /\ pass = "split" /\ rest # <<>> /\ Line.mark = "End" /\ body.open
        /\ pass' = "split" /\ rest' = Tail(rest) /\ UNCHANGED fragments
        /\ body' = NoBody /\ body'.open = FALSE
        /\ statements' = Append(statements, Strip(body.text))
    BY <1>0, <1>4 DEF BodyEnds, AtLine, Consume, NoBody
  <2>2. PICK m \in 0..Len(Section) :
          LET t == Token(Section[m + 1], InBody[m])
              o == Len(Text[m])
          IN  /\ TextRead(m) /\ body.open = InBody[m] /\ Stream \in Seq(Tokens)
              /\ m + 1 \in 0..Len(Section) /\ Line = Section[m + 1] /\ Line \in FileLine
              /\ Tail(rest) = SubSeq(Section, (m + 1) + 1, Len(Section))
              /\ InBody[m + 1] = IF InBody[m] THEN Line.mark # "End" ELSE Line.mark = "Begin"
              /\ o \in Nat /\ Len(Text[m + 1]) = o + Len(t) /\ o + Len(t) <= Len(Stream)
              /\ \A j \in 1..Len(t) : Stream[o + j] = t[j]
    BY <1>d, <2>1
  <2>. DEFINE o == Len(Text[m])
  <2>3. Token(Section[m + 1], InBody[m]) = <<"End">>
    BY <2>1, <2>2 DEF Token
  <2>4. Len(Text[m + 1]) = o + 1 /\ o + 1 <= Len(Stream) /\ Stream[o + 1] = "End"
    <3>1. Len(<<"End">>) = 1 /\ 1 \in 1..1 /\ <<"End">>[1] = "End"
      OBVIOUS
    <3>. QED
      BY <2>2, <2>3, <3>1
  <2>5. Reads(Stream, o, body.text, statements, "body") /\ fragments = <<>>
    BY <2>1, <2>2 DEF TextRead
  <2>6. o \in 0..Len(Stream) /\ o + 1 \in 1..Len(Stream) /\ o + 1 \in EndsOf(Stream)
    <3>1. o \in 0..Len(Stream) /\ o + 1 \in 1..Len(Stream)
      BY <2>2, <2>4
    <3>. QED
      BY <2>2, <2>4, <2>5, <3>1, EndsAre
  <2>7. /\ statements' \in Seq(Texts)
        /\ Executables(statements') = IF Executable(Strip(body.text))
                                      THEN Append(Executables(statements), Strip(body.text))
                                      ELSE Executables(statements)
    <3>1. Strip(body.text) \in Texts
      BY <1>0, StripTyped
    <3>. QED
      BY <1>0, <2>1, <3>1, ExecutablesOneMore, AppendProperties
  <2>8. Reads(Stream, o + 1, <<>>, statements', "code")
    <3>1. After("body", Stream[o + 1]) = "code"
      BY <2>4 DEF After
    <3>2. Reads(Stream, o + 1, <<>>, statements', After("body", Stream[o + 1]))
      BY <2>2, <2>5, <2>6, <2>7, ReadsEnd
    <3>. QED
      BY <3>1, <3>2
  <2>9. Gathers(Stream, o + 1, statements', Gather(<<>>))
    BY <2>7, <2>8, GathersAfresh
  <2>10. TextRead(m + 1)'
    BY <1>b, <2>1, <2>4, <2>5, <2>9 DEF TextRead
  <2>11. body'.open = InBody[m + 1]
    BY <2>1, <2>2
  <2>. QED
    BY <1>b, <2>1, <2>2, <2>10, <2>11 DEF TextInv
<1>5. CASE Fragment
  <2>1. /\ pass = "split" /\ rest # <<>> /\ Line.mark = "none" /\ ~body.open
        /\ pass' = "split" /\ rest' = Tail(rest) /\ UNCHANGED <<statements, body>>
        /\ fragments' = Append(fragments, Line.text)
        /\ body'.open = FALSE /\ body.open = FALSE
    BY <1>0, <1>5 DEF Fragment, AtLine, Consume
  <2>2. PICK m \in 0..Len(Section) :
          LET t == Token(Section[m + 1], InBody[m])
              o == Len(Text[m])
          IN  /\ TextRead(m) /\ body.open = InBody[m] /\ Stream \in Seq(Tokens)
              /\ m + 1 \in 0..Len(Section) /\ Line = Section[m + 1] /\ Line \in FileLine
              /\ Tail(rest) = SubSeq(Section, (m + 1) + 1, Len(Section))
              /\ InBody[m + 1] = IF InBody[m] THEN Line.mark # "End" ELSE Line.mark = "Begin"
              /\ o \in Nat /\ Len(Text[m + 1]) = o + Len(t) /\ o + Len(t) <= Len(Stream)
              /\ \A j \in 1..Len(t) : Stream[o + j] = t[j]
    BY <1>d, <2>1
  <2>. DEFINE t == Append(Line.text, NL)
              o == Len(Text[m])
  <2>3. Token(Section[m + 1], InBody[m]) = t
    BY <2>1, <2>2 DEF Token
  <2>4. Line.text \in Seq(Chars)
    BY <2>2 DEF FileLine
  <2>5. Gathers(Stream, o, statements, Gather(fragments)) /\ body = NoBody
    BY <2>1, <2>2 DEF TextRead
  <2>6. Gathers(Stream, o + Len(t), statements, ReadFragment(Gather(fragments), Line.text))
    BY <1>0, <2>2, <2>3, <2>4, <2>5, FragmentLine
  <2>7. Gather(fragments') = ReadFragment(Gather(fragments), Line.text)
    BY <1>0, <2>1, <2>4, GatherOneMore
  <2>. HIDE DEF t
  <2>8. TextRead(m + 1)'
    BY <1>b, <2>1, <2>2, <2>3, <2>5, <2>6, <2>7 DEF TextRead
  <2>9. body'.open = InBody[m + 1]
    BY <2>1, <2>2
  <2>. QED
    BY <1>b, <2>1, <2>2, <2>8, <2>9 DEF TextInv
<1>6. CASE BodyBegins
  <2>1. /\ pass = "split" /\ rest # <<>> /\ Line.mark = "Begin" /\ ~body.open
        /\ pass' = "split" /\ rest' = Tail(rest)
        /\ fragments' = <<>> /\ body' = [body EXCEPT !.open = TRUE]
        /\ statements' = statements \o SplitFragments(fragments)
    BY <1>0, <1>6 DEF BodyBegins, AtLine, Consume
  <2>2. PICK m \in 0..Len(Section) :
          LET t == Token(Section[m + 1], InBody[m])
              o == Len(Text[m])
          IN  /\ TextRead(m) /\ body.open = InBody[m] /\ Stream \in Seq(Tokens)
              /\ m + 1 \in 0..Len(Section) /\ Line = Section[m + 1] /\ Line \in FileLine
              /\ Tail(rest) = SubSeq(Section, (m + 1) + 1, Len(Section))
              /\ InBody[m + 1] = IF InBody[m] THEN Line.mark # "End" ELSE Line.mark = "Begin"
              /\ o \in Nat /\ Len(Text[m + 1]) = o + Len(t) /\ o + Len(t) <= Len(Stream)
              /\ \A j \in 1..Len(t) : Stream[o + j] = t[j]
    BY <1>d, <2>1
  <2>. DEFINE o == Len(Text[m])
              acc == Gather(fragments)
  <2>3. Token(Section[m + 1], InBody[m]) = <<"Begin">>
    BY <2>1, <2>2 DEF Token
  <2>4. Len(Text[m + 1]) = o + 1 /\ o + 1 <= Len(Stream) /\ Stream[o + 1] = "Begin"
    <3>1. Len(<<"Begin">>) = 1 /\ 1 \in 1..1 /\ <<"Begin">>[1] = "Begin"
      OBVIOUS
    <3>. QED
      BY <2>2, <2>3, <3>1
  <2>5. Gathers(Stream, o, statements, acc) /\ body = NoBody
    BY <2>1, <2>2 DEF TextRead
  <2>6. /\ acc \in Gathered
        /\ Reads(Stream, o, acc.text, statements \o acc.out, PlaceOf(acc))
    BY <2>5 DEF Gathers
  <2>7. body'.open = TRUE /\ body'.text = <<>>
    BY <2>1, <2>5 DEF NoBody
  <2>. HIDE DEF acc
  <2>8. o \in 0..Len(Stream) /\ o + 1 \in 1..Len(Stream) /\ o + 1 \in EndsOf(Stream)
    <3>1. o \in 0..Len(Stream) /\ o + 1 \in 1..Len(Stream)
      BY <2>2, <2>4
    <3>. QED
      BY <2>2, <2>4, <2>6, <3>1, EndsAre
  <2>9. Executables(statements') = IF Executable(Strip(acc.text))
                                   THEN Append(Executables(statements \o acc.out), Strip(acc.text))
                                   ELSE Executables(statements \o acc.out)
    BY <1>0, <2>1, <2>6, FlushKeeps DEF SplitFragments, acc
  <2>10. Reads(Stream, o + 1, <<>>, statements', "body")
    <3>1. After(PlaceOf(acc), Stream[o + 1]) = "body"
      BY <2>4 DEF After, PlaceOf
    <3>2. Reads(Stream, o + 1, <<>>, statements', After(PlaceOf(acc), Stream[o + 1]))
      BY <2>2, <2>6, <2>8, <2>9, ReadsEnd
    <3>. QED
      BY <3>1, <3>2
  <2>11. TextRead(m + 1)'
    BY <1>b, <2>1, <2>4, <2>7, <2>10 DEF TextRead
  <2>12. body'.open = InBody[m + 1]
    BY <2>1, <2>2, <2>7
  <2>. QED
    BY <1>b, <2>1, <2>2, <2>11, <2>12 DEF TextInv
<1>7. CASE SplitEnds
  <2>1. /\ pass = "split" /\ pass' = "check" /\ rest = <<>> /\ ~body.open
        /\ statements' = statements \o SplitFragments(fragments)
    BY <1>7 DEF SplitEnds
  <2>2. PICK m \in 0..Len(Section) : TextRead(m) /\ m = Len(Section) /\ Stream \in Seq(Tokens)
    BY <1>d, <2>1
  <2>. DEFINE acc == Gather(fragments)
              o == Len(Stream)
  <2>3. Text[m] = Stream
    BY <2>2 DEF Stream
  <2>4. /\ acc \in Gathered
        /\ Reads(Stream, o, acc.text, statements \o acc.out, PlaceOf(acc))
    BY <2>1, <2>2, <2>3 DEF TextRead, Gathers
  <2>. HIDE DEF acc
  <2>5. Executables(statements') = IF Executable(Strip(acc.text))
                                   THEN Append(Executables(statements \o acc.out), Strip(acc.text))
                                   ELSE Executables(statements \o acc.out)
    BY <1>0, <2>1, <2>4, FlushKeeps DEF SplitFragments, acc
  <2>6. o \in 0..Len(Stream) /\ o + 1 \in EndsOf(Stream)
    BY <2>2 DEF EndsOf
  <2>7. KeptUpTo(Stream)[o + 1] = Executables(statements')
    BY <2>2, <2>4, <2>5, <2>6, KeptAtEnd
  <2>8. Executables(statements') = StatementsOf(Stream)
    BY <2>7 DEF StatementsOf
  <2>. QED
    BY <1>b, <2>1, <2>8 DEF TextInv
<1>8. CASE Check
  <2>1. pass = "check" /\ pass' # "split" /\ statements' = statements
    BY <1>8 DEF Check, split
  <2>. QED
    BY <1>b, <2>1 DEF TextInv
<1>9. CASE UNCHANGED parserVars
  <2>1. UNCHANGED <<written, pass, rest, statements, fragments, body>>
    BY <1>9 DEF parserVars
  <2>2. \A m : TextRead(m)' <=> TextRead(m)
    BY <1>b, <2>1 DEF TextRead
  <2>. QED
    BY <1>b, <2>1, <2>2 DEF TextInv
<1>. QED
  BY <1>1, <1>2, <1>3, <1>4, <1>5, <1>6, <1>7, <1>8, <1>9 DEF ParserNext

(* NO TRANSACTION is a matter of the lines before the Up section.          *)
LEMMA TransactionRead ==
  ASSUME ParserTypeOK, FormInv, pass = "parsed"
  PROVE  noTransaction <=> \E i \in DOMAIN Preamble : Preamble[i].mark = "NoTransaction"
<1>1. written \in Seq(FileLine) /\ FirstUp # 0 /\ HeaderRead(FirstUp - 1)
  BY DEF ParserTypeOK, FormInv, SectionInv
<1>2. /\ Preamble \in Seq(FileLine) /\ Len(Preamble) = FirstUp - 1
      /\ \A i \in 1..Len(Preamble) : Preamble[i] = written[i]
  BY <1>1, PartLines
<1>. HIDE DEF FirstUp, Preamble
<1>3. DOMAIN Preamble = 1..(FirstUp - 1) /\ \A i \in DOMAIN Preamble : Preamble[i] = written[i]
  BY <1>2
<1>4. noTransaction <=> \E i \in 1..(FirstUp - 1) : written[i].mark = "NoTransaction"
  BY <1>1 DEF HeaderRead
<1>. QED
  BY <1>3, <1>4

(* What is executed is the text of the Up section, cut where the format    *)
(* says, for files of any length and any nesting of literals, comments and *)
(* bodies: where nothing but the end of a line separates lines.            *)
THEOREM ParserRunsTheText ==
  ASSUME PlainFiles
  PROVE  ParserSpec => []StatementsAreTheText
<1>1. ParserInit => TextInv
  BY DEF ParserInit, TextInv
<1>2. (ParserTypeOK /\ FormInv) /\ TextInv /\ [ParserNext]_parserVars => TextInv'
  BY TextStep
<1>3. (ParserTypeOK /\ FormInv) /\ TextInv => StatementsAreTheText
  BY TransactionRead DEF TextInv, StatementsAreTheText
<1>4. ParserSpec => [](ParserTypeOK /\ FormInv)
  BY FormInvariant
<1>. QED
  BY <1>1, <1>2, <1>3, <1>4, PTL DEF ParserSpec
=============================================================================
