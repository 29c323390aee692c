------------------------------ MODULE Bootstrap ------------------------------
(***************************************************************************)
(* `pybuggy init` (commands/init/init.py, bootstrap.py): the mode its flags*)
(* select, the scaffold and the onboarding session it runs, and the        *)
(* bootstrap that then writes files one after the other, each of them      *)
(* gated on what is there.  A step may fail, before it writes or half way; *)
(* the command then exits 1 and leaves what the earlier steps wrote.       *)
(* Between two runs the user edits the project.                            *)
(***************************************************************************)
EXTENDS Onboarding

CONSTANTS Stems,      \* the packaged usage files, in the order they are copied
          Registered, \* those of the roots registered in the config, in order
          Covers,     \* <<m, n>>: the text of record n holds the first line of m's
          Paths,      \* where a Dockerfile may be
          Default,    \* .goga/Dockerfile
          Templates,  \* what a scaffold brings
          Interviews, \* what the user may answer in a session
          MaxExtras, MaxRuns, MaxFaults, MaxEdits  \* bounds

StemSet == {Stems[i] : i \in DOMAIN Stems}

(* The keys registered, in order: the registered usages and the convention.*)
Keys   == Append(Registered, "conventions")
KeySet == {Keys[i] : i \in DOMAIN Keys}

(* A file pybuggy delivers: absent, the user's, pybuggy's, or what a       *)
(* failed write left.                                                      *)
File == {"none", "own", "packaged", "torn"}

(* A line of the annotations: the keys it refers to, and whether the user  *)
(* wrote it.                                                               *)
Note == [refs : SUBSET KeySet, own : BOOLEAN]

(* .goga/config.yml: does it load, which section has the wrong form, the   *)
(* review flag, the Dockerfile's path, the usages and the annotations.     *)
Config == [form : {"none", "empty", "broken", "map"},
           odd : {"none", "build", "usages", "notes"},
           skip : BOOLEAN, path : {"none"} \cup Paths,
           usages : [KeySet -> {"none", "own", "ours"}], notes : Seq(Note)]
Unregistered == [k \in KeySet |-> "none"]
Blank == [form |-> "map", odd |-> "none", skip |-> FALSE, path |-> "none",
          usages |-> Unregistered, notes |-> <<>>]
NoConfig == [Blank EXCEPT !.form = "none"]

(* The tool config: the members it sets and those it documents.            *)
Tool == [form : {"none", "empty", "broken", "map"}, active : SUBSET MemberSet,
         documented : SUBSET MemberSet, specs : Seq([name : SpecNames, nth : Nat])]
NoTool == [form |-> "none", active |-> {}, documented |-> {}, specs |-> <<>>]

(* A Dockerfile and its lines that install pybuggy.                        *)
Docker == [here : BOOLEAN, lines : Seq({"old", "current"})]
NoDocker == [here |-> FALSE, lines |-> <<>>]

(* What the session is handed (Onboarding).                                *)
Offer == [amended : [dockerfile : BOOLEAN],
          config  : Seq([active : SUBSET MemberSet, axes : SUBSET Axes,
                         specs : Seq([name : SpecNames, nth : Nat])])]

Disk == [goga : BOOLEAN, usage : [StemSet -> File], slot : File, conftest : File,
         config : Config, tool : Tool, docker : [Paths -> Docker]]

ASSUME BootstrapAssumption ==
  /\ Stems \in Seq(StemSet) /\ Registered \in Seq(StemSet)
  /\ "conventions" \notin StemSet
  /\ Default \in Paths /\ "none" \notin Paths
  /\ Templates \subseteq Disk /\ Interviews \subseteq Answers
  /\ \A t \in Templates :
       /\ \A k \in KeySet : t.config.usages[k] # "ours"
       /\ "torn" \notin {t.usage[s] : s \in StemSet} \cup {t.slot, t.conftest}
  /\ \A m \in MemberSet : <<m, m>> \in Covers
  /\ {MaxExtras, MaxRuns, MaxFaults, MaxEdits} \subseteq Nat

VARIABLES
  disk,     \* the project
  pc, mode, \* where the command is, and in which mode
  next,     \* the usage file copied next
  path,     \* where it found the Dockerfile to be
  code,     \* its exit code
  answers, extras,  \* what the session has been told
  offer,    \* what pybuggy contributes to it
  before,   \* history: the project when the command began
  repeat,   \* history: it repeats a run that succeeded
  runs, faults, edits

survey == <<answers, extras, offer>>
bounds == <<runs, faults, edits>>
vars   == <<disk, pc, mode, next, path, code, answers, extras, offer, before,
            repeat, runs, faults, edits>>

Steps == {"copy", "document", "slot", "skip", "install", "usages", "annotations",
          "gate", "check"}

TypeOK ==
  /\ disk \in Disk /\ before \in Disk
  /\ pc \in {"idle", "scaffold", "upgrade", "session", "specs", "autonomy",
             "generate", "done"} \cup Steps
  /\ mode \in {"bare", "template", "upgrade"}
  /\ next \in Nat \ {0}
  /\ path \in Paths
  /\ code \in {0, 1, 2}
  /\ answers \in Interviews /\ extras \in Seq(SpecAnswer) /\ offer \in Offer
  /\ repeat \in BOOLEAN
  /\ {runs, faults, edits} \subseteq Nat

Fresh == [goga |-> FALSE, usage |-> [s \in StemSet |-> "none"], slot |-> "none",
          conftest |-> "none", config |-> NoConfig, tool |-> NoTool,
          docker |-> [p \in Paths |-> NoDocker]]

Init ==
  /\ disk \in {Fresh, [Fresh EXCEPT !.conftest = "own"]}
  /\ before = disk
  /\ pc = "idle" /\ mode = "bare" /\ next = 1 /\ path = Default /\ code = 0
  /\ answers \in Interviews /\ extras = <<>> /\ offer = Dropped
  /\ repeat = FALSE
  /\ runs = 0 /\ faults = 0 /\ edits = 0

Exit(c) == pc' = "done" /\ code' = c

-----------------------------------------------------------------------------
(***************************************************************************)
(* The command, the scaffold and the session.                              *)
(***************************************************************************)
ResolveMode(tpl, ref, upgrade) ==
  IF (tpl /\ upgrade) \/ (ref /\ ~tpl /\ ~upgrade) THEN "refused"
  ELSE IF upgrade THEN "upgrade" ELSE IF tpl THEN "template" ELSE "bare"

(* Bug: bare mode runs in a project that has been initialized. *)
InvokeUnguarded ==
  /\ pc = "idle" /\ runs < MaxRuns /\ runs' = runs + 1
  /\ \E tpl, ref, upgrade \in BOOLEAN :
       LET m == ResolveMode(tpl, ref, upgrade) IN
         /\ mode' = IF m = "refused" THEN mode ELSE m
         /\ \/ m = "refused" /\ Exit(1)
            \/ m = "bare" /\ pc' = "session" /\ UNCHANGED code
            \/ m = "upgrade" /\ pc' = "upgrade" /\ UNCHANGED code
            \/ m = "template" /\ pc' = "scaffold" /\ UNCHANGED code
  /\ before' = disk
  /\ UNCHANGED <<disk, next, path, survey, repeat, faults, edits>>

Invoke ==
  /\ pc = "idle" /\ runs < MaxRuns /\ runs' = runs + 1
  /\ \E tpl, ref, upgrade \in BOOLEAN :
       LET m == ResolveMode(tpl, ref, upgrade) IN
         /\ mode' = IF m = "refused" THEN mode ELSE m
         /\ \/ (m = "refused" \/ (m = "bare" /\ disk.goga)) /\ Exit(1)
            \/ m = "bare" /\ ~disk.goga /\ pc' = "session" /\ UNCHANGED code
            \/ m = "upgrade" /\ pc' = "upgrade" /\ UNCHANGED code
            \/ m = "template" /\ pc' = "scaffold" /\ UNCHANGED code
  /\ before' = disk
  /\ UNCHANGED <<disk, next, path, survey, repeat, faults, edits>>

(* The engine migrates the project, or not; its code is the command's.     *)
Upgrade ==
  /\ pc = "upgrade"
  /\ \E c \in {0, 2} : Exit(c)
  /\ UNCHANGED <<disk, mode, next, path, survey, before, repeat, bounds>>

(* A scaffold adds the files of a template, or fails.                      *)
Scaffolded(t) ==
  [goga     |-> TRUE,
   usage    |-> [s \in StemSet |-> IF disk.usage[s] = "none" THEN t.usage[s] ELSE disk.usage[s]],
   slot     |-> IF disk.slot = "none" THEN t.slot ELSE disk.slot,
   conftest |-> IF disk.conftest = "none" THEN t.conftest ELSE disk.conftest,
   config   |-> IF disk.config.form = "none" THEN t.config ELSE disk.config,
   tool     |-> IF disk.tool.form = "none" THEN t.tool ELSE disk.tool,
   docker   |-> [p \in Paths |-> IF disk.docker[p].here THEN disk.docker[p] ELSE t.docker[p]]]

Scaffold ==
  /\ pc = "scaffold"
  /\ \/ /\ \E t \in Templates : disk' = Scaffolded(t)
        /\ pc' = "session" /\ UNCHANGED code
        /\ repeat' = (repeat /\ disk' = disk)
     \/ Exit(2) /\ UNCHANGED <<disk, repeat>>
  /\ UNCHANGED <<mode, next, path, survey, before, bounds>>

(* A config that is there ends the session at once.  Otherwise the user    *)
(* answers the core questions and pybuggy's block, or cancels.             *)
Session ==
  /\ pc = "session"
  /\ \/ /\ disk.config.form # "none"
        /\ pc' = "copy" /\ next' = 1
        /\ UNCHANGED <<code, answers, extras, offer>>
     \/ /\ disk.config.form = "none"
        /\ answers' \in Interviews /\ extras' = <<>> /\ offer' = Dropped
        /\ pc' = "specs" /\ UNCHANGED <<code, next>>
     \/ /\ disk.config.form = "none"
        /\ Exit(2) /\ UNCHANGED <<next, survey>>
  /\ UNCHANGED <<disk, mode, path, before, repeat, bounds>>

AnotherSpec ==
  /\ pc = "specs" /\ Len(extras) < MaxExtras
  /\ \E name \in SpecNames :
       extras' = Append(extras, [name |-> name, complete |-> TRUE, nth |-> Len(extras) + 1])
  /\ UNCHANGED <<disk, pc, mode, next, path, code, answers, offer, before, repeat, bounds>>

NoMoreSpecs ==
  /\ pc = "specs"
  /\ pc' = "autonomy"
  /\ UNCHANGED <<disk, mode, next, path, code, survey, before, repeat, bounds>>

Contribute ==
  /\ pc = "autonomy"
  /\ \E enabled \in SUBSET Axes : offer' = Contribution(answers, extras, enabled)
  /\ pc' = "generate"
  /\ UNCHANGED <<disk, mode, next, path, code, answers, extras, before, repeat, bounds>>

(* A prompt of a survey is cancelled: the contribution is dropped, and the *)
(* session goes on.                                                        *)
AbandonSurvey ==
  /\ pc \in {"specs", "autonomy"}
  /\ offer' = Dropped
  /\ pc' = "generate"
  /\ UNCHANGED <<disk, mode, next, path, code, answers, extras, before, repeat, bounds>>

(* The engine writes the config, the tool config, and the Dockerfile when  *)
(* the answers have one.                                                   *)
Generate ==
  /\ pc = "generate"
  /\ LET docker == offer.amended.dockerfile IN
       disk' = [disk EXCEPT
         !.goga = TRUE,
         !.config = [Blank EXCEPT !.path = IF docker THEN Default ELSE "none"],
         !.docker[Default].here = @ \/ docker,
         !.tool = IF offer.config = <<>> THEN @
                  ELSE [form |-> "map", active |-> offer.config[1].active,
                        documented |-> {}, specs |-> offer.config[1].specs]]
  /\ pc' = "copy" /\ next' = 1
  /\ UNCHANGED <<mode, path, code, survey, before, repeat, bounds>>

-----------------------------------------------------------------------------
(***************************************************************************)
(* The bootstrap.                                                          *)
(***************************************************************************)
(* The gates. *)
Copies(s)  == disk.usage[s] = "none" \/ mode # "template"
Occupies   == disk.slot = "none"

(* A member is recorded when it is not set, the text does not hold the     *)
(* first line of its record, and an active key comes after it.             *)
Marked(m) == \E n \in disk.tool.documented : <<m, n>> \in Covers
Pinned(i) == disk.tool.specs # <<>> \/ \E j \in i..Len(Members) : Members[j] \in disk.tool.active
Pending   == {Members[i] : i \in {i \in DOMAIN Members :
                /\ Members[i] \notin disk.tool.active
                /\ ~Marked(Members[i]) /\ Pinned(i)}}
Documents == IF disk.tool.form = "map" THEN Pending ELSE {}

(* A missing or empty config loads as an empty mapping.                    *)
Loaded == IF disk.config.form \in {"none", "empty"} THEN Blank ELSE disk.config

ResolvePath == IF disk.config.form = "map" /\ disk.config.path # "none"
               THEN disk.config.path ELSE Default

(* Bug: a line of an older release is joined by the current one. *)
JoinedLines(lines) == IF \E i \in DOMAIN lines : lines[i] = "current" THEN lines
                      ELSE Append(lines, "current")

(* The first install line is repinned; without one, it is appended.        *)
InstalledLines(lines) ==
  IF lines = <<>> THEN <<"current">> ELSE [lines EXCEPT ![1] = "current"]
Installs(p) == disk.docker[p].here /\ InstalledLines(disk.docker[p].lines) # disk.docker[p].lines

(* Bug: an annotation is appended whatever is there. *)
AppendedNote(notes, k) == Append(notes, [refs |-> {k}, own |-> FALSE])

(* The first line that refers to the key is replaced; without one, the     *)
(* line is appended.                                                       *)
WithNote(notes, k) ==
  LET line == [refs |-> {k}, own |-> FALSE]
      i    == SelectInSeq(notes, LAMBDA n : k \in n.refs)
  IN  IF i = 0 THEN Append(notes, line) ELSE [notes EXCEPT ![i] = line]

(* Key by key, in the order they are registered.                           *)
Annotated(notes) ==
  LET after[i \in 0..Len(Keys)] == IF i = 0 THEN notes ELSE WithNote(after[i - 1], Keys[i])
  IN  after[Len(Keys)]

WithKeys(usages) == [k \in KeySet |-> IF usages[k] = "none" THEN "ours" ELSE usages[k]]

CopyNext ==
  /\ pc = "copy" /\ next <= Len(Stems)
  /\ disk' = IF Copies(Stems[next])
             THEN [disk EXCEPT !.usage[Stems[next]] = "packaged", !.goga = TRUE] ELSE disk
  /\ next' = next + 1
  /\ UNCHANGED <<pc, mode, path, code, survey, before, repeat, bounds>>

Copied ==
  /\ pc = "copy" /\ next > Len(Stems)
  /\ pc' = "document"
  /\ UNCHANGED <<disk, mode, next, path, code, survey, before, repeat, bounds>>

Document ==
  /\ pc = "document" /\ disk.tool.form # "broken"
  /\ disk' = [disk EXCEPT !.tool.documented = @ \cup Documents]
  /\ pc' = "slot"
  /\ UNCHANGED <<mode, next, path, code, survey, before, repeat, bounds>>

(* Bug: template mode leaves the slot to the template. *)
SlotOfTemplate ==
  /\ pc = "slot"
  /\ disk' = IF Occupies /\ mode = "bare" THEN [disk EXCEPT !.slot = "packaged"] ELSE disk
  /\ pc' = "skip"
  /\ UNCHANGED <<mode, next, path, code, survey, before, repeat, bounds>>

Slot ==
  /\ pc = "slot"
  /\ disk' = IF Occupies THEN [disk EXCEPT !.slot = "packaged", !.goga = TRUE] ELSE disk
  /\ pc' = "skip"
  /\ UNCHANGED <<mode, next, path, code, survey, before, repeat, bounds>>

EnsureReviewSkip ==
  /\ pc = "skip" /\ disk.config.form # "broken" /\ Loaded.odd # "build"
  /\ disk' = IF Loaded.skip THEN disk
             ELSE [disk EXCEPT !.config = [Loaded EXCEPT !.skip = TRUE], !.goga = TRUE]
  /\ pc' = "install"
  /\ UNCHANGED <<mode, next, path, code, survey, before, repeat, bounds>>

InstallPybuggy ==
  /\ pc = "install"
  /\ path' = ResolvePath
  /\ disk' = IF Installs(ResolvePath)
             THEN [disk EXCEPT !.docker[ResolvePath].lines = InstalledLines(@)] ELSE disk
  /\ pc' = "usages"
  /\ UNCHANGED <<mode, next, code, survey, before, repeat, bounds>>

RegisterUsages ==
  /\ pc = "usages" /\ disk.config.form # "broken" /\ Loaded.odd # "usages"
  /\ disk' = [disk EXCEPT !.config = [Loaded EXCEPT !.usages = WithKeys(@)]]
  /\ pc' = "annotations"
  /\ UNCHANGED <<mode, next, path, code, survey, before, repeat, bounds>>

RegisterAnnotations ==
  /\ pc = "annotations" /\ disk.config.form # "broken" /\ Loaded.odd # "notes"
  /\ disk' = [disk EXCEPT !.config = [Loaded EXCEPT !.notes = Annotated(@)]]
  /\ pc' = "gate"
  /\ UNCHANGED <<mode, next, path, code, survey, before, repeat, bounds>>

(* Bare mode asks before it overwrites a conftest.                         *)
GateConftest ==
  /\ pc = "gate"
  /\ \/ disk.conftest = "none" /\ disk' = [disk EXCEPT !.conftest = "packaged"]
     \/ disk.conftest # "none" /\ disk' = disk
     \/ /\ disk.conftest # "none" /\ mode = "bare"
        /\ disk' = [disk EXCEPT !.conftest = "packaged"]
  /\ pc' = "check"
  /\ UNCHANGED <<mode, next, path, code, survey, before, repeat, bounds>>

CheckDockerfile ==
  /\ pc = "check"
  /\ Exit(IF disk.docker[path].here THEN 0 ELSE 1)
  /\ UNCHANGED <<disk, mode, next, path, survey, before, repeat, bounds>>

(* A step meets a file it cannot load, or a section it may not overwrite.  *)
StepRefused ==
  /\ \/ pc = "document" /\ disk.tool.form = "broken"
     \/ pc \in {"skip", "usages", "annotations"} /\ disk.config.form = "broken"
     \/ pc = "skip" /\ Loaded.odd = "build"
     \/ pc = "usages" /\ Loaded.odd = "usages"
     \/ pc = "annotations" /\ Loaded.odd = "notes"
  /\ Exit(1)
  /\ UNCHANGED <<disk, mode, next, path, survey, before, repeat, bounds>>

(* What a write that fails half way leaves: a file written afresh is cut   *)
(* short, a config is empty or does not load.                              *)
TornBy(step) ==
  CASE step = "copy" /\ next <= Len(Stems) /\ Copies(Stems[next]) ->
         {[disk EXCEPT !.usage[Stems[next]] = "torn", !.goga = TRUE]}
    [] step = "document" /\ Documents # {} ->
         {[disk EXCEPT !.tool = [NoTool EXCEPT !.form = f]] : f \in {"empty", "broken"}}
    [] step = "slot" /\ Occupies -> {[disk EXCEPT !.slot = "torn", !.goga = TRUE]}
    [] step \in {"usages", "annotations"} \/ (step = "skip" /\ ~Loaded.skip) ->
         {[disk EXCEPT !.config = [Blank EXCEPT !.form = f], !.goga = TRUE]
            : f \in {"empty", "broken"}}
    [] step = "install" /\ Installs(ResolvePath) ->
         {[disk EXCEPT !.docker[ResolvePath].lines = <<>>]}
    [] step = "gate" /\ (disk.conftest = "none" \/ mode = "bare") ->
         {[disk EXCEPT !.conftest = "torn"]}
    [] OTHER -> {}

StepFails ==
  /\ pc \in Steps \ {"check"}
  /\ faults < MaxFaults /\ faults' = faults + 1
  /\ disk' \in {disk} \cup TornBy(pc)
  /\ repeat' = FALSE
  /\ Exit(1)
  /\ UNCHANGED <<mode, next, path, survey, before, runs, edits>>

Leave ==
  /\ pc = "done"
  /\ pc' = "idle"
  /\ repeat' = (code = 0 /\ mode # "upgrade")
  /\ UNCHANGED <<disk, mode, next, path, code, survey, before, bounds>>

(* The user sets or removes a member of the tool config, or deletes .goga. *)
UserEdits ==
  /\ pc = "idle" /\ edits < MaxEdits /\ edits' = edits + 1
  /\ \/ /\ disk.tool.form = "map"
        /\ \E m \in MemberSet :
             \/ m \in disk.tool.active /\ disk' = [disk EXCEPT !.tool.active = @ \ {m}]
             \/ m \notin disk.tool.active /\ disk' = [disk EXCEPT !.tool.active = @ \cup {m}]
     \/ disk' = [disk EXCEPT !.goga = FALSE, !.usage = Fresh.usage, !.slot = "none",
                             !.config = NoConfig, !.tool = NoTool,
                             !.docker[Default] = NoDocker]
  /\ repeat' = FALSE
  /\ UNCHANGED <<pc, mode, next, path, code, survey, before, runs, faults>>

Next ==
  \/ Invoke \/ Upgrade \/ Scaffold \/ Session
  \/ AnotherSpec \/ NoMoreSpecs \/ Contribute \/ AbandonSurvey \/ Generate
  \/ CopyNext \/ Copied \/ Document \/ Slot \/ EnsureReviewSkip \/ InstallPybuggy
  \/ RegisterUsages \/ RegisterAnnotations \/ GateConftest \/ CheckDockerfile
  \/ StepRefused \/ StepFails
  \/ Leave \/ UserEdits

Spec == Init /\ [][Next]_vars

-----------------------------------------------------------------------------
(***************************************************************************)
(* Properties.                                                             *)
(***************************************************************************)
FileOf(k) == IF k = "conventions" THEN disk.slot ELSE disk.usage[k]
Ended(c)  == pc = "done" /\ mode \in {"bare", "template"} /\ code = c

(* "After every successful run the consumer config carries                 *)
(* build.review.skip: true; the api-root usage keys and their annotation   *)
(* lines plus `conventions` are registered; every packaged usage is copied;*)
(* the tool config carries the commented examples of its absent optional   *)
(* members ...; the slot is occupied ...; the root conftest exists"        *)
(* (commands/init/CODEMANIFEST): whatever earlier runs left half done, and *)
(* with one install line in the Dockerfile the config names.  Bare mode    *)
(* delivers every usage afresh; a template run keeps what it finds, so the *)
(* only files that are cut short after a success are those it found so.    *)
StaysTorn(old, new) == new = "torn" => old = "torn"
SuccessIsComplete ==
  Ended(0) =>
    /\ \A s \in StemSet : /\ disk.usage[s] # "none" /\ StaysTorn(before.usage[s], disk.usage[s])
                          /\ mode = "bare" => disk.usage[s] = "packaged"
    /\ disk.slot # "none" /\ StaysTorn(before.slot, disk.slot)
    /\ disk.conftest # "none" /\ StaysTorn(before.conftest, disk.conftest)
    /\ Documents = {}
    /\ disk.config.form = "map" /\ disk.config.skip
    /\ \A k \in KeySet : /\ disk.config.usages[k] # "none"
                         /\ \E i \in DOMAIN disk.config.notes : k \in disk.config.notes[i].refs
    /\ disk.docker[ResolvePath] = [here |-> TRUE, lines |-> <<"current">>]

(* "After every successful run ... every packaged usage ... is copied": it *)
(* is, or the user has his own; it is not what an earlier run has cut      *)
(* short.  The code does not keep to this: see the README, section 6.      *)
UsagesCopied == Ended(0) => \A s \in StemSet : disk.usage[s] \in {"own", "packaged"}

(* A usage pybuggy has registered has its file, at every moment and after  *)
(* every failure: the config binds the cells of the project to it.         *)
RegisteredFilesExist ==
  \A k \in KeySet : disk.config.usages[k] = "ours" => FileOf(k) # "none"

(* "Every step is idempotent; a repeat run changes nothing"                *)
(* (commands/init/CODEMANIFEST): a run over the outcome of a successful one*)
(* leaves the project as it was.                                           *)
RepeatChangesNothing == Ended(0) /\ repeat => disk = before

(* What is the user's stays: the files, unless bare mode was told to       *)
(* overwrite the conftest; and in a config that can still be read the keys *)
(* and, each in its place, the lines that refer to none of pybuggy's.      *)
Stays(old, new) == old = "own" => new = "own"
Unrelated(notes) == {<<i, notes[i]>> : i \in {j \in DOMAIN notes : notes[j].refs = {}}}
UserFilesStay ==
  /\ \A s \in StemSet : Stays(disk.usage[s], disk'.usage[s])
  /\ Stays(disk.slot, disk'.slot)
  /\ mode = "template" => Stays(disk.conftest, disk'.conftest)
UserKeysStay ==
  disk.config.form = "map" /\ disk'.config.form = "map" =>
    /\ \A k \in KeySet : Stays(disk.config.usages[k], disk'.config.usages[k])
    /\ Unrelated(disk'.config.notes) = Unrelated(disk.config.notes)
    /\ disk'.config.path = disk.config.path
UserDataKept == [][pc # "idle" => UserFilesStay /\ UserKeysStay]_vars

(* The specifications of a contribution: the first one, and each further   *)
(* one unless its name was taken before it.                                *)
SpecsFirstWins ==
  pc = "generate" /\ offer.config # <<>> =>
    LET specs == offer.config[1].specs IN
      /\ specs[1] = [name |-> answers.first.name, nth |-> 0]
      /\ \A i \in DOMAIN extras :
           (\E j \in DOMAIN specs : specs[j] = [name |-> extras[i].name, nth |-> i])
             <=> /\ extras[i].name # answers.first.name
                 /\ \A h \in 1..(i - 1) : extras[h].name # extras[i].name

=============================================================================
