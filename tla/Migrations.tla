----------------------------- MODULE Migrations -----------------------------
(***************************************************************************)
(* The migrations of one postgresql service (sandbox/migrations/), from    *)
(* the check of the sandbox document to the last commit: the shape check   *)
(* at document load, the clone of a remote source, the loading of the set  *)
(* and its execution over the session connection, where every step can     *)
(* fail and the user can interrupt.  The statements of a file run in       *)
(* order, so the database is described by how many of each it keeps.       *)
(***************************************************************************)
EXTENDS Naturals

CONSTANTS Files,          \* the .sql files there can be
          Version,        \* Version[f]: the numeric prefix of the name
          Size,           \* Size[f]: the number of statements of the Up section
          NoTransaction,  \* the files that declare NO TRANSACTION
          BadName,        \* the files whose names break the naming grammar
          BadContent      \* the files the parser rejects (see Goose)

ASSUME MigrationsAssumption == /\ Version \in [Files -> Nat]
                               /\ Size \in [Files -> Nat]
                               /\ NoTransaction \subseteq Files
                               /\ BadName \subseteq Files
                               /\ BadContent \subseteq Files

VARIABLES
  remote,      \* the declaration has a git source; never changes
  folder,      \* the .sql files at the declared location, {} when it is missing
  clone,       \* the temporary directory of the clone exists
  pc,          \* the next step
  set,         \* the loaded set
  todo,        \* its files not yet applied
  file,        \* the file being applied
  ran,         \* how many of its statements were executed
  committed,   \* committed[f]: the statements of f the database keeps
  outcome      \* how the run ended: "ok", a MigrationError, another exception, ...

source == <<remote, folder, clone>>
apply  == <<set, todo, file, ran>>
vars   == <<remote, folder, clone, pc, set, todo, file, ran, committed, outcome>>

TypeOK ==
  /\ remote \in BOOLEAN /\ clone \in BOOLEAN
  /\ folder \in SUBSET Files
  /\ pc \in {"document", "declared", "clone", "load", "next", "transaction",
             "autocommit", "leave", "end"}
  /\ set \in SUBSET Files /\ todo \in SUBSET set
  /\ pc \in {"transaction", "autocommit"} => file \in todo /\ ran \in 0..Size[file]
  /\ committed \in [Files -> Nat]
  /\ outcome \in {"none", "rejected", "ok", "error", "other", "interrupted"}

Init ==
  /\ remote \in BOOLEAN /\ folder \in SUBSET Files
  /\ clone = FALSE /\ pc = "document"
  /\ set = {} /\ todo = {} /\ file = "none" /\ ran = 0
  /\ committed = [f \in Files |-> 0]
  /\ outcome = "none"

-----------------------------------------------------------------------------
(* The checks: of the shape at document load, of the whole set at apply. *)
Distinct(S) == \A f, g \in S : Version[f] = Version[g] => f = g
Shaped(S)   == S # {} /\ S \cap BadName = {} /\ Distinct(S)
Loadable(S) == Shaped(S) /\ S \cap BadContent = {}

(* Bug: only a run that succeeded deletes the clone. *)
LeaveKeepsClone(how) == /\ outcome' = how
                        /\ pc' = IF remote /\ how = "ok" THEN "leave" ELSE "end"

(* Leaving run_migrations: the with block deletes the clone on the way out. *)
Leave(how) == /\ outcome' = how
              /\ pc' = IF remote THEN "leave" ELSE "end"

Accept ==
  /\ pc = "document" /\ (remote \/ Shaped(folder))
  /\ pc' = "declared"
  /\ UNCHANGED <<source, apply, committed, outcome>>

(* A remote source can be rejected for its URL, a local one for its files. *)
Reject ==
  /\ pc = "document" /\ (remote \/ ~Shaped(folder))
  /\ pc' = "end" /\ outcome' = "rejected"
  /\ UNCHANGED <<source, apply, committed>>

(* The folder is the user's: it may change between the check and the apply. *)
EditFolder ==
  /\ pc = "declared" /\ ~remote
  /\ folder' \in SUBSET Files
  /\ UNCHANGED <<remote, clone, pc, apply, committed, outcome>>

Run ==
  /\ pc = "declared"
  /\ clone' = remote
  /\ pc' = IF remote THEN "clone" ELSE "load"
  /\ UNCHANGED <<remote, folder, apply, committed, outcome>>

Clone ==
  /\ pc = "clone"
  /\ folder' \in SUBSET Files
  /\ pc' = "load"
  /\ UNCHANGED <<remote, clone, apply, committed, outcome>>

LoadSet ==
  /\ pc = "load" /\ Loadable(folder)
  /\ set' = folder /\ todo' = folder
  /\ pc' = "next"
  /\ UNCHANGED <<source, file, ran, committed, outcome>>

(* The clone failed, the location is missing or outside the clone, a name, *)
(* a version or a file is rejected.                                        *)
ResolveFails ==
  /\ pc = "clone" \/ (pc = "load" /\ (remote \/ ~Loadable(folder)))
  /\ Leave("error")
  /\ UNCHANGED <<source, apply, committed>>

(* read_text: a file that is gone by now or is not UTF-8. *)
ReadFails ==
  /\ pc = "load" /\ Shaped(folder)
  /\ Leave("other")
  /\ UNCHANGED <<source, apply, committed>>

-----------------------------------------------------------------------------
(* Bug: the files in the order the folder lists them. *)
TakeAsListed(f) ==
  /\ pc = "next" /\ f \in todo
  /\ file' = f /\ ran' = 0
  /\ pc' = IF f \in NoTransaction THEN "autocommit" ELSE "transaction"
  /\ UNCHANGED <<source, set, todo, committed, outcome>>

TakeFile(f) ==
  /\ pc = "next" /\ f \in todo
  /\ \A g \in todo : Version[f] <= Version[g]
  /\ file' = f /\ ran' = 0
  /\ pc' = IF f \in NoTransaction THEN "autocommit" ELSE "transaction"
  /\ UNCHANGED <<source, set, todo, committed, outcome>>

Execute ==
  /\ pc \in {"transaction", "autocommit"} /\ ran < Size[file]
  /\ ran' = ran + 1
  /\ committed' = IF pc = "autocommit" THEN [committed EXCEPT ![file] = ran + 1]
                                       ELSE committed
  /\ UNCHANGED <<source, pc, set, todo, file, outcome>>

(* The end of the transaction block commits; in autocommit nothing is left. *)
FinishFile ==
  /\ pc \in {"transaction", "autocommit"} /\ ran = Size[file]
  /\ committed' = [committed EXCEPT ![file] = Size[file]]
  /\ todo' = todo \ {file}
  /\ pc' = "next"
  /\ UNCHANGED <<source, set, file, ran, outcome>>

Finish ==
  /\ pc = "next" /\ todo = {}
  /\ Leave("ok")
  /\ UNCHANGED <<source, apply, committed>>

(* What a broken step can leave: the transaction is rolled back, unless its *)
(* commit got through; a statement in autocommit may have got through.      *)
InFlight ==
  {committed} \cup
  IF pc = "transaction" /\ ran = Size[file]
  THEN {[committed EXCEPT ![file] = Size[file]]}
  ELSE IF pc = "autocommit" /\ ran < Size[file]
       THEN {[committed EXCEPT ![file] = ran + 1]}
       ELSE {}

(* Bug: a file that fails is logged and skipped. *)
SkipFailedFile ==
  /\ \/ pc = "transaction"
     \/ pc = "autocommit" /\ ran < Size[file]
  /\ committed' \in InFlight
  /\ todo' = todo \ {file} /\ pc' = "next"
  /\ UNCHANGED <<source, set, file, ran, outcome>>

(* Bug: a file that fails is run again until it succeeds. *)
RetryFailedFile ==
  /\ pc = "transaction" /\ ran' = 0
  /\ UNCHANGED <<source, pc, set, todo, file, committed, outcome>>

StatementFails ==
  /\ \/ pc = "transaction"
     \/ pc = "autocommit" /\ ran < Size[file]
  /\ committed' \in InFlight
  /\ Leave("error")
  /\ UNCHANGED <<source, apply>>

Interrupt ==
  /\ pc \in {"clone", "load", "next", "transaction", "autocommit"}
  /\ committed' \in InFlight
  /\ Leave("interrupted")
  /\ UNCHANGED <<source, apply>>

DeleteClone ==
  /\ pc = "leave"
  /\ clone' = FALSE /\ pc' = "end"
  /\ UNCHANGED <<remote, folder, apply, committed, outcome>>

Work == \/ Accept \/ Reject \/ Run \/ Clone \/ LoadSet \/ ResolveFails \/ ReadFails
        \/ (\E f \in Files : TakeFile(f))
        \/ Execute \/ FinishFile \/ Finish \/ StatementFails \/ DeleteClone

Next == Work \/ EditFolder \/ Interrupt

Spec == Init /\ [][Next]_vars

(* pytest goes on.  That git and the server answer or fail is an           *)
(* assumption: neither a clone nor a statement has a timeout.              *)
FairSpec == Spec /\ WF_vars(Work)

-----------------------------------------------------------------------------
(* A file that does not declare NO TRANSACTION is in the database whole or  *)
(* not at all, at every moment: while it runs, after it failed, after an    *)
(* interruption and after a commit whose answer was lost.                   *)
WholeFiles == \A f \in Files \ NoTransaction : committed[f] \in {0, Size[f]}

(* Files apply in ascending version order without a gap: whatever is in the *)
(* database has everything with a lower version before it.                  *)
VersionOrder ==
  \A f, g \in set : Version[f] < Version[g] /\ committed[g] > 0
                      => committed[f] = Size[f]

(* One file that cannot be used (its name, its version, its content) keeps  *)
(* the whole set out of the database, however late it comes in the order,   *)
(* even when it came after the document was checked.                        *)
BadSetUntouched == ~Loadable(folder) => \A f \in Files : committed[f] = 0

(* run_migrations returns only when the database has the whole folder and   *)
(* nothing else.                                                            *)
ReturnsWhenAllApplied ==
  outcome = "ok" => \A f \in Files : committed[f] = IF f \in folder THEN Size[f] ELSE 0

(* The clone is deleted on every exit path, and a local run has none. *)
CloneDeleted == clone => remote /\ pc \notin {"document", "declared", "end"}

(* Every run ends, and with it the start of the engine goes on or fails. *)
RunEnds == pc \in {"clone", "load"} ~> pc = "end"

(* Statement by statement, the run does what the documents promise. *)
Ledger == INSTANCE MigrationLedger
KeepsLedger == Ledger!Spec
=============================================================================
