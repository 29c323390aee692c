--------------------------- MODULE BootstrapProofs ---------------------------
(***************************************************************************)
(* Proofs about Bootstrap, for every set of packaged usages, every         *)
(* template and every interview: what the config registers exists, what    *)
(* the user wrote stays, a run that succeeds is complete, a repeat changes *)
(* nothing, and a contribution holds the specifications it should.         *)
(***************************************************************************)
EXTENDS Bootstrap, WellFoundedInduction, TLAPS

(* The shape of the project, apart from the lines of its files.            *)
Shape ==
  /\ disk = [goga |-> disk.goga, usage |-> disk.usage, slot |-> disk.slot,
             conftest |-> disk.conftest, config |-> disk.config, tool |-> disk.tool,
             docker |-> disk.docker]
  /\ disk.config = [form |-> disk.config.form, odd |-> disk.config.odd,
                    skip |-> disk.config.skip, path |-> disk.config.path,
                    usages |-> disk.config.usages, notes |-> disk.config.notes]
  /\ disk.usage \in [StemSet -> File]
  /\ disk.slot \in File
  /\ disk.config.usages \in [KeySet -> {"none", "own", "ours"}]
  /\ disk.config.form \in {"none", "empty", "broken", "map"}
  /\ next \in Nat \ {0}

AfterCopy == Steps \ {"copy"}
AfterSlot == AfterCopy \ {"document", "slot"}

(* Where the command is, every earlier step has left its file; and in a    *)
(* project without .goga nothing of it is there.                           *)
Progress ==
  /\ pc = "copy" => \A i \in 1..Len(Stems) : i < next => disk.usage[Stems[i]] # "none"
  /\ pc \in AfterCopy => \A s \in StemSet : disk.usage[s] # "none"
  /\ pc \in AfterSlot => disk.slot # "none"

(* Bare mode works in a project pybuggy has not been in, and no template.  *)
Unscaffolded ==
  /\ ~disk.goga => disk.slot = "none" /\ \A s \in StemSet : disk.usage[s] = "none"
  /\ pc = "scaffold" => mode = "template"
  /\ pc \notin {"idle", "done", "upgrade"} => mode \in {"bare", "template"}
  /\ pc \notin {"idle", "done"} /\ mode = "bare" =>
       disk.slot # "own" /\ \A s \in StemSet : disk.usage[s] # "own"

IInv == Shape /\ RegisteredFilesExist /\ Progress /\ Unscaffolded

(* A key is the convention, or one of the packaged usages.                 *)
LEMMA KeyCases ==
  ASSUME NEW k \in KeySet
  PROVE  k = "conventions" \/ k \in StemSet
<1>1. PICK i \in DOMAIN Keys : k = Keys[i]
  BY DEF KeySet
<1>2. Registered \in Seq(StemSet)
  BY BootstrapAssumption
<1>3. i \in 1..(Len(Registered) + 1)
  BY <1>1, <1>2 DEF Keys
<1>4. CASE i = Len(Registered) + 1
  BY <1>1, <1>2, <1>4 DEF Keys
<1>5. CASE i \in 1..Len(Registered)
  <2>1. k = Registered[i]
    BY <1>1, <1>2, <1>5 DEF Keys
  <2>2. Registered[i] \in StemSet
    <3>. HIDE DEF StemSet
    <3>. QED
      BY <1>2, <1>5
  <2>. QED
    BY <2>1, <2>2
<1>. QED
  BY <1>2, <1>3, <1>4, <1>5

(* The ways a command starts.                                              *)
LEMMA InvokeCases ==
  ASSUME Invoke
  PROVE  \/ pc' = "done"
         \/ pc' = "upgrade" /\ mode' = "upgrade"
         \/ pc' = "session" /\ mode' = "bare" /\ ~disk.goga
         \/ pc' = "scaffold" /\ mode' = "template"
<1>1. PICK tpl, ref, upgrade \in BOOLEAN :
        LET m == ResolveMode(tpl, ref, upgrade) IN
         /\ mode' = IF m = "refused" THEN mode ELSE m
         /\ \/ (m = "refused" \/ (m = "bare" /\ disk.goga)) /\ Exit(1)
            \/ m = "bare" /\ ~disk.goga /\ pc' = "session" /\ UNCHANGED code
            \/ m = "upgrade" /\ pc' = "upgrade" /\ UNCHANGED code
            \/ m = "template" /\ pc' = "scaffold" /\ UNCHANGED code
  BY DEF Invoke
<1>. QED
  BY <1>1 DEF Exit, ResolveMode

(* What a config may become with the files as they are: nothing is         *)
(* registered anew, or everything is and every file is there.              *)
Sound(config) ==
  /\ config = [form |-> config.form, odd |-> config.odd, skip |-> config.skip,
               path |-> config.path, usages |-> config.usages, notes |-> config.notes]
  /\ config.form \in {"none", "empty", "broken", "map"}
  /\ config.usages \in [KeySet -> {"none", "own", "ours"}]
  /\ \A k \in KeySet : config.usages[k] = "ours" => FileOf(k) # "none"

LEMMA SoundNow ==
  ASSUME IInv
  PROVE  Sound(disk.config)
BY DEF IInv, Shape, RegisteredFilesExist, Sound

(* A config whose registrations are those of a sound one is sound.         *)
LEMMA SoundEdit ==
  ASSUME NEW c, Sound(c), NEW v
  PROVE  /\ Sound([c EXCEPT !.skip = v]) /\ Sound([c EXCEPT !.notes = v])
         /\ Sound([c EXCEPT !.path = v])
         /\ v \in {"none", "empty", "broken", "map"} => Sound([c EXCEPT !.form = v])
<1>1. /\ [c EXCEPT !.skip = v] = [form |-> c.form, odd |-> c.odd, skip |-> v, path |-> c.path,
                                  usages |-> c.usages, notes |-> c.notes]
      /\ [c EXCEPT !.notes = v] = [form |-> c.form, odd |-> c.odd, skip |-> c.skip,
                                   path |-> c.path, usages |-> c.usages, notes |-> v]
      /\ [c EXCEPT !.path = v] = [form |-> c.form, odd |-> c.odd, skip |-> c.skip,
                                  path |-> v, usages |-> c.usages, notes |-> c.notes]
      /\ [c EXCEPT !.form = v] = [form |-> v, odd |-> c.odd, skip |-> c.skip,
                                  path |-> c.path, usages |-> c.usages, notes |-> c.notes]
  BY DEF Sound
<1>. QED
  BY <1>1 DEF Sound

LEMMA SoundBlank ==
  Sound(Blank) /\ Sound(NoConfig)
<1>1. Sound(Blank)
  <2>1. /\ \A k \in KeySet : Unregistered[k] = "none"
        /\ Unregistered \in [KeySet -> {"none", "own", "ours"}]
    BY DEF Unregistered
  <2>. QED
    BY <2>1 DEF Sound, Blank
<1>. QED
  BY <1>1, SoundEdit DEF NoConfig

LEMMA SoundLoaded ==
  ASSUME IInv
  PROVE  Sound(Loaded)
<1>. QED
  BY SoundNow, SoundBlank DEF Loaded

(* Files that stay, and a sound config: what is registered still exists.   *)
LEMMA DataKept ==
  ASSUME IInv,
         disk' = [goga |-> disk'.goga, usage |-> disk'.usage, slot |-> disk'.slot,
                  conftest |-> disk'.conftest, config |-> disk'.config, tool |-> disk'.tool,
                  docker |-> disk'.docker],
         disk'.usage \in [StemSet -> File], disk'.slot \in File, next' \in Nat \ {0},
         \A s \in StemSet : disk.usage[s] # "none" => disk'.usage[s] # "none",
         disk.slot # "none" => disk'.slot # "none",
         Sound(disk'.config)
  PROVE  Shape' /\ RegisteredFilesExist'
<1>1. Shape'
  BY DEF Shape, Sound
<1>2. ASSUME NEW k \in KeySet, disk'.config.usages[k] = "ours"
      PROVE  FileOf(k)' # "none"
  <2>1. FileOf(k) # "none"
    BY <1>2 DEF Sound
  <2>. QED
    BY <2>1, KeyCases DEF FileOf
<1>. QED
  BY <1>1, <1>2 DEF RegisteredFilesExist

(* The data, where the files or the config change.                         *)
LEMMA DataStep ==
  ASSUME IInv, [Next]_vars
  PROVE  Shape' /\ RegisteredFilesExist'
<1>0. Shape /\ Sound(disk.config) /\ Sound(Loaded) /\ next \in Nat \ {0} /\ next + 1 \in Nat \ {0}
  BY SoundNow, SoundLoaded DEF IInv, Shape
<1>1. ASSUME UNCHANGED disk, next' \in Nat \ {0} PROVE Shape' /\ RegisteredFilesExist'
  BY <1>0, <1>1, DataKept DEF Shape
<1>2. CASE \/ Invoke \/ Upgrade \/ Session \/ AnotherSpec \/ NoMoreSpecs \/ Contribute
           \/ AbandonSurvey \/ Copied \/ CheckDockerfile \/ StepRefused \/ Leave
           \/ UNCHANGED vars
  <2>1. UNCHANGED disk /\ next' \in {next, 1}
    BY <1>2 DEF Invoke, Upgrade, Session, AnotherSpec, NoMoreSpecs, Contribute,
       AbandonSurvey, Copied, CheckDockerfile, StepRefused, Leave, vars
  <2>. QED
    BY <1>0, <1>1, <2>1
<1>3. CASE Scaffold
  <2>1. next' = next
    BY <1>3 DEF Scaffold
  <2>2. CASE UNCHANGED disk
    BY <1>0, <1>1, <2>1, <2>2
  <2>3. ASSUME NEW t \in Templates, disk' = Scaffolded(t) PROVE Shape' /\ RegisteredFilesExist'
    <3>1. t \in Disk /\ \A k \in KeySet : t.config.usages[k] # "ours"
      BY BootstrapAssumption
    <3>2. /\ t.usage \in [StemSet -> File] /\ t.slot \in File /\ t.config \in Config
      BY <3>1 DEF Disk
    <3>3. Sound(t.config)
      BY <3>1, <3>2 DEF Config, Sound
    <3>4. /\ disk'.usage = [s \in StemSet |-> IF disk.usage[s] = "none" THEN t.usage[s]
                                               ELSE disk.usage[s]]
          /\ disk'.slot = IF disk.slot = "none" THEN t.slot ELSE disk.slot
          /\ disk'.config = IF disk.config.form = "none" THEN t.config ELSE disk.config
          /\ disk' = [goga |-> disk'.goga, usage |-> disk'.usage, slot |-> disk'.slot,
                      conftest |-> disk'.conftest, config |-> disk'.config,
                      tool |-> disk'.tool, docker |-> disk'.docker]
      BY <2>3 DEF Scaffolded
    <3>5. /\ disk'.usage \in [StemSet -> File] /\ disk'.slot \in File
          /\ \A s \in StemSet : disk.usage[s] # "none" => disk'.usage[s] # "none"
          /\ disk.slot # "none" => disk'.slot # "none"
      BY <1>0, <3>2, <3>4 DEF Shape
    <3>. QED
      BY <1>0, <2>1, <3>3, <3>4, <3>5, DataKept
  <2>. QED
    BY <1>3, <2>2, <2>3 DEF Scaffold
<1>4. CASE Generate
  <2>1. PICK p, tool, docker :
          disk' = [goga |-> TRUE, usage |-> disk.usage, slot |-> disk.slot,
                   conftest |-> disk.conftest, config |-> [Blank EXCEPT !.path = p],
                   tool |-> tool, docker |-> docker]
    BY <1>0, <1>4 DEF Generate, Shape
  <2>2. next' = 1
    BY <1>4 DEF Generate
  <2>3. Sound([Blank EXCEPT !.path = p])
    BY SoundBlank, SoundEdit
  <2>4. disk'.config = [Blank EXCEPT !.path = p]
    BY <2>1
  <2>5. Sound(disk'.config)
    BY <2>3, <2>4
  <2>. QED
    BY <1>0, <2>1, <2>2, <2>5, DataKept DEF Shape
<1>5. CASE CopyNext
  <2>1. next \in 1..Len(Stems) /\ Stems[next] \in StemSet
    BY <1>0, <1>5, BootstrapAssumption DEF CopyNext, StemSet
  <2>2. CASE disk' = [disk EXCEPT !.usage[Stems[next]] = "packaged", !.goga = TRUE]
    <3>1. disk' = [goga |-> TRUE, usage |-> [disk.usage EXCEPT ![Stems[next]] = "packaged"],
                   slot |-> disk.slot, conftest |-> disk.conftest, config |-> disk.config,
                   tool |-> disk.tool, docker |-> disk.docker]
      BY <1>0, <2>2 DEF Shape
    <3>2. /\ disk'.usage \in [StemSet -> File]
          /\ \A s \in StemSet : disk.usage[s] # "none" => disk'.usage[s] # "none"
      BY <1>0, <2>1, <3>1 DEF Shape, File
    <3>. QED
      BY <1>0, <1>5, <3>1, <3>2, DataKept DEF CopyNext, Shape
  <2>. QED
    BY <1>0, <1>1, <1>5, <2>2 DEF CopyNext
<1>6. CASE Document \/ InstallPybuggy \/ GateConftest
  <2>1. next' = next
    BY <1>6 DEF Document, InstallPybuggy, GateConftest
  <2>2. PICK conftest, tool, docker :
          disk' = [goga |-> disk.goga, usage |-> disk.usage, slot |-> disk.slot,
                   conftest |-> conftest, config |-> disk.config, tool |-> tool,
                   docker |-> docker]
    BY <1>0, <1>6 DEF Document, InstallPybuggy, GateConftest, Shape
  <2>. QED
    BY <1>0, <2>1, <2>2, DataKept DEF Shape
<1>7. CASE Slot
  <2>1. next' = next
    BY <1>7 DEF Slot
  <2>2. CASE disk' = [disk EXCEPT !.slot = "packaged", !.goga = TRUE]
    <3>1. disk' = [goga |-> TRUE, usage |-> disk.usage, slot |-> "packaged",
                   conftest |-> disk.conftest, config |-> disk.config, tool |-> disk.tool,
                   docker |-> disk.docker]
      BY <1>0, <2>2 DEF Shape
    <3>. QED
      BY <1>0, <2>1, <3>1, DataKept DEF Shape, File
  <2>. QED
    BY <1>0, <1>1, <1>7, <2>1, <2>2 DEF Slot
<1>8. ASSUME NEW c, NEW g, Sound(c), next' = next,
             disk' = [disk EXCEPT !.config = c, !.goga = g]
      PROVE  Shape' /\ RegisteredFilesExist'
  <2>1. disk' = [goga |-> g, usage |-> disk.usage, slot |-> disk.slot,
                 conftest |-> disk.conftest, config |-> c, tool |-> disk.tool,
                 docker |-> disk.docker]
    BY <1>0, <1>8 DEF Shape
  <2>. QED
    BY <1>0, <1>8, <2>1, DataKept DEF Shape
<1>9. ASSUME NEW c, Sound(c), next' = next, disk' = [disk EXCEPT !.config = c]
      PROVE  Shape' /\ RegisteredFilesExist'
  <2>1. disk' = [disk EXCEPT !.config = c, !.goga = disk.goga]
    BY <1>0, <1>9 DEF Shape
  <2>. QED
    BY <1>8, <1>9, <2>1
<1>10. CASE EnsureReviewSkip
  <2>1. next' = next
    BY <1>10 DEF EnsureReviewSkip
  <2>2. Sound([Loaded EXCEPT !.skip = TRUE])
    BY <1>0, SoundEdit
  <2>. QED
    BY <1>0, <1>1, <1>8, <1>10, <2>1, <2>2 DEF EnsureReviewSkip
<1>11. CASE RegisterUsages
  <2>1. /\ next' = next /\ pc = "usages"
        /\ disk' = [disk EXCEPT !.config = [Loaded EXCEPT !.usages = WithKeys(@)]]
    BY <1>11 DEF RegisterUsages
  <2>2. \A k \in KeySet : FileOf(k) # "none"
    BY <2>1, KeyCases DEF IInv, Progress, AfterCopy, AfterSlot, Steps, FileOf
  <2>3. [Loaded EXCEPT !.usages = WithKeys(@)] =
          [form |-> Loaded.form, odd |-> Loaded.odd, skip |-> Loaded.skip, path |-> Loaded.path,
           usages |-> WithKeys(Loaded.usages), notes |-> Loaded.notes]
    BY <1>0 DEF Sound
  <2>4. WithKeys(Loaded.usages) \in [KeySet -> {"none", "own", "ours"}]
    BY <1>0 DEF Sound, WithKeys
  <2>5. Sound([Loaded EXCEPT !.usages = WithKeys(@)])
    BY <1>0, <2>2, <2>3, <2>4 DEF Sound
  <2>. QED
    BY <1>9, <2>1, <2>5
<1>12. CASE RegisterAnnotations
  <2>1. /\ next' = next
        /\ \E v : disk' = [disk EXCEPT !.config = [Loaded EXCEPT !.notes = v]]
    BY <1>12 DEF RegisterAnnotations
  <2>. QED
    BY <1>0, <1>9, <2>1, SoundEdit
<1>13. CASE StepFails
  <2>1. next' = next /\ disk' \in {disk} \cup TornBy(pc)
    BY <1>13 DEF StepFails
  <2>2. CASE \E f \in {"empty", "broken"} :
               disk' = [disk EXCEPT !.config = [Blank EXCEPT !.form = f], !.goga = TRUE]
    BY <1>8, <2>1, <2>2, SoundBlank, SoundEdit
  <2>3. CASE /\ next <= Len(Stems)
             /\ disk' = [disk EXCEPT !.usage[Stems[next]] = "torn", !.goga = TRUE]
    <3>1. disk' = [goga |-> TRUE, usage |-> [disk.usage EXCEPT ![Stems[next]] = "torn"],
                   slot |-> disk.slot, conftest |-> disk.conftest, config |-> disk.config,
                   tool |-> disk.tool, docker |-> disk.docker]
      BY <1>0, <2>3 DEF Shape
    <3>2. /\ disk'.usage \in [StemSet -> File]
          /\ \A s \in StemSet : disk.usage[s] # "none" => disk'.usage[s] # "none"
      BY <1>0, <3>1 DEF Shape, File
    <3>. QED
      BY <1>0, <2>1, <3>1, <3>2, DataKept DEF Shape
  <2>4. CASE disk' = [disk EXCEPT !.slot = "torn", !.goga = TRUE]
    <3>1. disk' = [goga |-> TRUE, usage |-> disk.usage, slot |-> "torn",
                   conftest |-> disk.conftest, config |-> disk.config, tool |-> disk.tool,
                   docker |-> disk.docker]
      BY <1>0, <2>4 DEF Shape
    <3>. QED
      BY <1>0, <2>1, <3>1, DataKept DEF Shape, File
  <2>5. CASE \E conftest, tool, docker :
               disk' = [goga |-> disk.goga, usage |-> disk.usage, slot |-> disk.slot,
                        conftest |-> conftest, config |-> disk.config, tool |-> tool,
                        docker |-> docker]
    BY <1>0, <2>1, <2>5, DataKept DEF Shape
  <2>6. \/ UNCHANGED disk
        \/ \E f \in {"empty", "broken"} :
             disk' = [disk EXCEPT !.config = [Blank EXCEPT !.form = f], !.goga = TRUE]
        \/ /\ next <= Len(Stems)
           /\ disk' = [disk EXCEPT !.usage[Stems[next]] = "torn", !.goga = TRUE]
        \/ disk' = [disk EXCEPT !.slot = "torn", !.goga = TRUE]
        \/ \E f \in {"empty", "broken"} : disk' = [disk EXCEPT !.tool = [NoTool EXCEPT !.form = f]]
        \/ disk' = [disk EXCEPT !.docker[ResolvePath].lines = <<>>]
        \/ disk' = [disk EXCEPT !.conftest = "torn"]
    BY <2>1 DEF TornBy
  <2>7. \A v : /\ [disk EXCEPT !.tool = v] =
                     [goga |-> disk.goga, usage |-> disk.usage, slot |-> disk.slot,
                      conftest |-> disk.conftest, config |-> disk.config, tool |-> v,
                      docker |-> disk.docker]
              /\ [disk EXCEPT !.conftest = v] =
                     [goga |-> disk.goga, usage |-> disk.usage, slot |-> disk.slot,
                      conftest |-> v, config |-> disk.config, tool |-> disk.tool,
                      docker |-> disk.docker]
    BY <1>0 DEF Shape
  <2>8. \E docker : [disk EXCEPT !.docker[ResolvePath].lines = <<>>] =
                     [goga |-> disk.goga, usage |-> disk.usage, slot |-> disk.slot,
                      conftest |-> disk.conftest, config |-> disk.config, tool |-> disk.tool,
                      docker |-> docker]
    <3>1. \A none : [disk EXCEPT !.docker[ResolvePath].lines = none] =
                     [goga |-> disk.goga, usage |-> disk.usage, slot |-> disk.slot,
                      conftest |-> disk.conftest, config |-> disk.config, tool |-> disk.tool,
                      docker |-> [disk.docker EXCEPT ![ResolvePath].lines = none]]
      BY <1>0 DEF Shape
    <3>. QED
      BY <3>1, Zenon
  <2>. QED
    BY <1>0, <1>1, <2>1, <2>2, <2>3, <2>4, <2>5, <2>6, <2>7, <2>8
<1>14. CASE UserEdits
  <2>1. next' = next
    BY <1>14 DEF UserEdits
  <2>2. CASE \E v : disk' = [disk EXCEPT !.tool.active = v]
    <3>1. PICK tool : disk' = [goga |-> disk.goga, usage |-> disk.usage, slot |-> disk.slot,
                      conftest |-> disk.conftest, config |-> disk.config, tool |-> tool,
                      docker |-> disk.docker]
      BY <1>0, <2>2 DEF Shape
    <3>. QED
      BY <1>0, <2>1, <3>1, DataKept DEF Shape
  <2>3. CASE disk' = [disk EXCEPT !.goga = FALSE, !.usage = Fresh.usage, !.slot = "none",
                             !.config = NoConfig, !.tool = NoTool,
                             !.docker[Default] = NoDocker]
    <3>1. PICK docker :
            disk' = [goga |-> FALSE, usage |-> Fresh.usage, slot |-> "none",
                     conftest |-> disk.conftest, config |-> NoConfig, tool |-> NoTool,
                     docker |-> docker]
      BY <1>0, <2>3 DEF Shape
    <3>2. Fresh.usage = [s \in StemSet |-> "none"]
      BY DEF Fresh
    <3>3. /\ NoConfig = [form |-> NoConfig.form, odd |-> NoConfig.odd, skip |-> NoConfig.skip,
                         path |-> NoConfig.path, usages |-> NoConfig.usages,
                         notes |-> NoConfig.notes]
          /\ NoConfig.usages \in [KeySet -> {"none", "own", "ours"}]
          /\ NoConfig.form \in {"none", "empty", "broken", "map"}
      BY SoundBlank DEF Sound
    <3>6. \A k \in KeySet : NoConfig.usages[k] = "none"
      BY DEF NoConfig, Blank, Unregistered
    <3>4. Shape'
      BY <1>0, <2>1, <3>1, <3>2, <3>3 DEF Shape, File
    <3>5. RegisteredFilesExist'
      BY <3>1, <3>6 DEF RegisteredFilesExist
    <3>. QED
      BY <3>4, <3>5
  <2>. QED
    BY <1>14, <2>2, <2>3 DEF UserEdits
<1>. QED
  BY <1>2, <1>3, <1>4, <1>5, <1>6, <1>7, <1>10, <1>11, <1>12, <1>13, <1>14 DEF Next

(* Every earlier step has left its file.                                   *)
LEMMA ProgressStep ==
  ASSUME IInv, [Next]_vars
  PROVE  Progress'
<1>0. Shape /\ Progress /\ next \in Nat \ {0}
  BY DEF IInv, Shape
<1>1. ASSUME pc' \notin Steps PROVE Progress'
  BY <1>1 DEF Progress, AfterCopy, AfterSlot, Steps
<1>2. ASSUME pc' = "copy", next' = 1 PROVE Progress'
  BY <1>2 DEF Progress, AfterCopy, AfterSlot
<1>3. ASSUME \A s \in StemSet : disk.usage[s] # "none" => disk'.usage[s] # "none",
             disk.slot # "none" => disk'.slot # "none",
             \/ pc' = pc /\ next' = next /\ pc # "copy"
             \/ pc \in AfterCopy /\ pc' \in AfterCopy /\ (pc' \in AfterSlot => pc \in AfterSlot)
      PROVE  Progress'
  BY <1>0, <1>3 DEF Progress, AfterCopy, AfterSlot, Steps
<1>i. ASSUME Invoke PROVE pc' \notin Steps
  BY <1>i, InvokeCases DEF Steps
<1>4. CASE \/ Upgrade \/ Scaffold \/ AnotherSpec \/ NoMoreSpecs \/ Contribute
           \/ AbandonSurvey \/ CheckDockerfile \/ StepRefused \/ StepFails \/ Leave
           \/ UserEdits
  BY <1>1, <1>4 DEF Upgrade, Scaffold, AnotherSpec, NoMoreSpecs, Contribute,
     AbandonSurvey, CheckDockerfile, StepRefused, StepFails, Leave, UserEdits, Exit, Steps
<1>5. CASE Session \/ Generate
  BY <1>1, <1>2, <1>5 DEF Session, Generate, Exit, Steps
<1>6. CASE CopyNext
  <2>1. pc = "copy" /\ pc' = "copy" /\ next \in 1..Len(Stems) /\ next' = next + 1
    BY <1>0, <1>6, BootstrapAssumption DEF CopyNext
  <2>2. CASE disk' = [disk EXCEPT !.usage[Stems[next]] = "packaged", !.goga = TRUE]
    <3>1. disk'.usage = [disk.usage EXCEPT ![Stems[next]] = "packaged"]
      BY <1>0, <2>2 DEF Shape
    <3>2. \A i \in 1..Len(Stems) : Stems[i] \in StemSet
      BY BootstrapAssumption DEF StemSet
    <3>3. \A i \in 1..Len(Stems) : i < next + 1 => disk'.usage[Stems[i]] # "none"
      BY <1>0, <2>1, <3>1, <3>2, BootstrapAssumption DEF Progress, Shape
    <3>. QED
      BY <2>1, <3>3 DEF Progress, AfterCopy, AfterSlot
  <2>3. CASE ~Copies(Stems[next]) /\ disk' = disk
    <3>1. disk.usage[Stems[next]] # "none"
      BY <2>3 DEF Copies
    <3>2. \A i \in 1..Len(Stems) : i < next + 1 => disk'.usage[Stems[i]] # "none"
      BY <1>0, <2>1, <2>3, <3>1, BootstrapAssumption DEF Progress
    <3>. QED
      BY <2>1, <3>2 DEF Progress, AfterCopy, AfterSlot
  <2>. QED
    BY <1>6, <2>2, <2>3 DEF CopyNext
<1>7. CASE Copied
  <2>1. pc = "copy" /\ pc' = "document" /\ disk' = disk /\ next > Len(Stems)
    BY <1>7 DEF Copied
  <2>2. ASSUME NEW s \in StemSet PROVE disk.usage[s] # "none"
    <3>1. PICK i \in 1..Len(Stems) : s = Stems[i]
      BY <2>2, BootstrapAssumption DEF StemSet
    <3>. QED
      BY <1>0, <2>1, <3>1, BootstrapAssumption DEF Progress
  <2>. QED
    BY <2>1, <2>2 DEF Progress, AfterSlot, AfterCopy
<1>8. CASE Slot
  <2>1. pc = "slot" /\ pc' = "skip" /\ disk'.usage = disk.usage /\ disk'.slot # "none"
    BY <1>0, <1>8 DEF Slot, Shape, Occupies
  <2>. QED
    BY <1>0, <2>1 DEF Progress, AfterSlot, AfterCopy, Steps
<1>9. CASE \/ Document \/ EnsureReviewSkip \/ InstallPybuggy \/ RegisterUsages
           \/ RegisterAnnotations \/ GateConftest
  <2>1. disk'.usage = disk.usage /\ disk'.slot = disk.slot
    BY <1>0, <1>9 DEF Shape, Document, EnsureReviewSkip, InstallPybuggy, RegisterUsages,
       RegisterAnnotations, GateConftest
  <2>2. \/ pc = "document" /\ pc' = "slot"
        \/ pc \in AfterSlot /\ pc' \in AfterSlot
    BY <1>9 DEF Document, EnsureReviewSkip, InstallPybuggy, RegisterUsages,
       RegisterAnnotations, GateConftest, AfterSlot, AfterCopy, Steps
  <2>. QED
    BY <1>3, <2>1, <2>2 DEF AfterSlot, AfterCopy, Steps
<1>10. CASE UNCHANGED vars
  BY <1>0, <1>10 DEF vars, Progress
<1>. QED
  BY <1>1, <1>i, <1>4, <1>5, <1>6, <1>7, <1>8, <1>9, <1>10 DEF Next

(* Bare mode meets no file of the user where it overwrites.                *)
LEMMA UnscaffoldedStep ==
  ASSUME IInv, [Next]_vars
  PROVE  Unscaffolded'
<1>0. Shape /\ Unscaffolded
  BY DEF IInv
<1>2. CASE Invoke
  <2>1. disk' = disk
    BY <1>2 DEF Invoke
  <2>. QED
    BY <1>0, <1>2, <2>1, InvokeCases DEF Unscaffolded
<1>3. CASE \/ Upgrade \/ Session \/ AnotherSpec \/ NoMoreSpecs \/ Contribute
           \/ AbandonSurvey \/ Copied \/ CheckDockerfile \/ StepRefused \/ Leave
  <2>1. /\ disk' = disk /\ mode' = mode /\ pc' # "scaffold"
        /\ pc' \in {"idle", "done"} \/ pc \notin {"idle", "done", "upgrade"}
    BY <1>3 DEF Upgrade, Session, AnotherSpec, NoMoreSpecs, Contribute, AbandonSurvey,
       Copied, CheckDockerfile, StepRefused, Leave, Exit, Steps
  <2>. QED
    BY <1>0, <2>1 DEF Unscaffolded
<1>4. CASE Document \/ EnsureReviewSkip \/ InstallPybuggy \/ RegisterUsages
           \/ RegisterAnnotations \/ GateConftest \/ Generate
  <2>1. /\ disk'.usage = disk.usage /\ disk'.slot = disk.slot
        /\ disk'.goga \in {TRUE, disk.goga}
    BY <1>0, <1>4 DEF Shape, Document, EnsureReviewSkip, InstallPybuggy, RegisterUsages,
       RegisterAnnotations, GateConftest, Generate
  <2>2. pc \notin {"idle", "done", "upgrade"} /\ mode' = mode /\ pc' # "scaffold"
    BY <1>4 DEF Document, EnsureReviewSkip, InstallPybuggy, RegisterUsages,
       RegisterAnnotations, GateConftest, Generate
  <2>. QED
    BY <1>0, <2>1, <2>2 DEF Unscaffolded
<1>5. CASE Slot
  <2>1. /\ disk'.usage = disk.usage /\ mode' = mode /\ pc = "slot" /\ pc' = "skip"
        /\ \/ disk'.slot = disk.slot /\ disk'.goga = disk.goga
           \/ disk'.slot = "packaged" /\ disk'.goga = TRUE
    BY <1>0, <1>5 DEF Slot, Shape
  <2>. QED
    BY <1>0, <2>1 DEF Unscaffolded
<1>6. CASE CopyNext
  <2>1. mode' = mode /\ pc = "copy" /\ pc' = "copy"
    BY <1>6 DEF CopyNext
  <2>2. \/ disk' = disk
        \/ /\ disk'.usage = [disk.usage EXCEPT ![Stems[next]] = "packaged"]
           /\ disk'.slot = disk.slot /\ disk'.goga = TRUE
    BY <1>0, <1>6 DEF CopyNext, Shape
  <2>. QED
    BY <1>0, <2>1, <2>2 DEF Unscaffolded, Shape
<1>7. CASE Scaffold
  <2>1. mode' = mode /\ pc = "scaffold" /\ ((pc' = "done" /\ disk' = disk) \/ pc' = "session")
    BY <1>7 DEF Scaffold, Exit
  <2>2. disk' = disk \/ disk'.goga = TRUE
    BY <1>7 DEF Scaffold, Scaffolded
  <2>3. mode = "template"
    BY <1>0, <2>1 DEF Unscaffolded
  <2>. QED
    BY <1>0, <2>1, <2>2, <2>3 DEF Unscaffolded
<1>8. CASE StepFails
  <2>1. pc' = "done" /\ disk' \in {disk} \cup TornBy(pc)
    BY <1>8 DEF StepFails, Exit
  <2>2. \/ disk'.goga = TRUE
        \/ /\ disk'.usage = disk.usage /\ disk'.slot = disk.slot /\ disk'.goga = disk.goga
    <3>1. \/ UNCHANGED disk
          \/ \E f \in {"empty", "broken"} :
               disk' = [disk EXCEPT !.config = [Blank EXCEPT !.form = f], !.goga = TRUE]
          \/ disk' = [disk EXCEPT !.usage[Stems[next]] = "torn", !.goga = TRUE]
          \/ disk' = [disk EXCEPT !.slot = "torn", !.goga = TRUE]
          \/ \E f \in {"empty", "broken"} : disk' = [disk EXCEPT !.tool = [NoTool EXCEPT !.form = f]]
          \/ disk' = [disk EXCEPT !.docker[ResolvePath].lines = <<>>]
          \/ disk' = [disk EXCEPT !.conftest = "torn"]
      BY <2>1 DEF TornBy
    <3>. QED
      BY <1>0, <3>1 DEF Shape
  <2>. QED
    BY <1>0, <2>1, <2>2 DEF Unscaffolded
<1>9. CASE UserEdits
  <2>1. pc' = "idle"
    BY <1>9 DEF UserEdits
  <2>2. CASE \E v : disk' = [disk EXCEPT !.tool.active = v]
    <3>1. disk'.usage = disk.usage /\ disk'.slot = disk.slot /\ disk'.goga = disk.goga
      BY <1>0, <2>2 DEF Shape
    <3>. QED
      BY <1>0, <2>1, <3>1 DEF Unscaffolded
  <2>3. CASE disk' = [disk EXCEPT !.goga = FALSE, !.usage = Fresh.usage, !.slot = "none",
                             !.config = NoConfig, !.tool = NoTool,
                             !.docker[Default] = NoDocker]
    <3>1. disk'.usage = Fresh.usage /\ disk'.slot = "none"
      BY <1>0, <2>3 DEF Shape
    <3>2. Fresh.usage = [s \in StemSet |-> "none"]
      BY DEF Fresh
    <3>. QED
      BY <2>1, <3>1, <3>2 DEF Unscaffolded
  <2>. QED
    BY <1>9, <2>1, <2>2, <2>3 DEF UserEdits
<1>10. CASE UNCHANGED vars
  BY <1>0, <1>10 DEF vars, Unscaffolded
<1>. QED
  BY <1>2, <1>3, <1>4, <1>5, <1>6, <1>7, <1>8, <1>9, <1>10 DEF Next

LEMMA BootstrapInvariant == Spec => []IInv
<1>1. Init => IInv
  <2>1. ASSUME Init PROVE IInv
    <3>1. PICK c \in {"none", "own"} :
            disk = [goga |-> FALSE, usage |-> [s \in StemSet |-> "none"], slot |-> "none",
                    conftest |-> c, config |-> NoConfig, tool |-> NoTool,
                    docker |-> [p \in Paths |-> NoDocker]]
      BY <2>1 DEF Init, Fresh
    <3>2. Sound(NoConfig) /\ \A k \in KeySet : NoConfig.usages[k] = "none"
      BY SoundBlank DEF NoConfig, Blank, Unregistered
    <3>3. next = 1 /\ pc = "idle"
      BY <2>1 DEF Init
    <3>4. Shape
      BY <3>1, <3>2, <3>3 DEF Shape, Sound, File
    <3>5. RegisteredFilesExist
      BY <3>1, <3>2 DEF RegisteredFilesExist
    <3>6. Progress /\ Unscaffolded
      BY <3>1, <3>3 DEF Progress, Unscaffolded, Steps, AfterCopy, AfterSlot
    <3>. QED
      BY <3>4, <3>5, <3>6 DEF IInv
  <2>. QED
    BY <2>1
<1>2. IInv /\ [Next]_vars => IInv'
  <2>1. ASSUME IInv, [Next]_vars PROVE IInv'
    BY <2>1, DataStep, ProgressStep, UnscaffoldedStep DEF IInv
  <2>. QED
    BY <2>1
<1>. QED
  BY <1>1, <1>2, PTL DEF Spec

(* A usage pybuggy has registered has its file: whatever the template      *)
(* brought, wherever a step failed and however often the command ran.      *)
THEOREM RegisteredAlwaysExists == Spec => []RegisteredFilesExist
<1>1. IInv => RegisteredFilesExist
  BY DEF IInv
<1>. QED
  BY <1>1, BootstrapInvariant, PTL

(* While the command runs, no usage file and no convention of the user is  *)
(* overwritten.                                                            *)
UserUsagesStay == /\ \A s \in StemSet : Stays(disk.usage[s], disk'.usage[s])
                  /\ Stays(disk.slot, disk'.slot)

LEMMA UserUsagesStep ==
  ASSUME IInv, [Next]_vars, pc # "idle"
  PROVE  UserUsagesStay
<1>0. Shape /\ Unscaffolded
  BY DEF IInv
<1>1. ASSUME disk'.usage = disk.usage, disk'.slot = disk.slot PROVE UserUsagesStay
  BY <1>1 DEF UserUsagesStay, Stays
<1>2. CASE \/ Invoke \/ Upgrade \/ Session \/ AnotherSpec \/ NoMoreSpecs \/ Contribute
           \/ AbandonSurvey \/ Copied \/ CheckDockerfile \/ StepRefused \/ Leave
           \/ UNCHANGED vars
  <2>1. UNCHANGED disk
    BY <1>2 DEF Invoke, Upgrade, Session, AnotherSpec, NoMoreSpecs, Contribute,
       AbandonSurvey, Copied, CheckDockerfile, StepRefused, Leave, vars
  <2>. QED
    BY <1>1, <2>1
<1>3. CASE \/ Document \/ EnsureReviewSkip \/ InstallPybuggy \/ RegisterUsages
           \/ RegisterAnnotations \/ GateConftest \/ Generate
  <2>1. disk'.usage = disk.usage /\ disk'.slot = disk.slot
    BY <1>0, <1>3 DEF Shape, Document, EnsureReviewSkip, InstallPybuggy, RegisterUsages,
       RegisterAnnotations, GateConftest, Generate
  <2>. QED
    BY <1>1, <2>1
<1>4. CASE Scaffold
  <2>1. \/ disk' = disk
        \/ \E t : /\ disk'.usage = [s \in StemSet |-> IF disk.usage[s] = "none" THEN t.usage[s]
                                                       ELSE disk.usage[s]]
                  /\ disk'.slot = IF disk.slot = "none" THEN t.slot ELSE disk.slot
    BY <1>4 DEF Scaffold, Scaffolded
  <2>. QED
    BY <2>1 DEF UserUsagesStay, Stays
<1>5. ASSUME pc = "copy", NEW v,
             \/ disk' = disk
             \/ /\ Copies(Stems[next])
                /\ disk' = [disk EXCEPT !.usage[Stems[next]] = v, !.goga = TRUE]
      PROVE  UserUsagesStay
  <2>1. CASE disk' = disk
    BY <1>1, <2>1
  <2>2. CASE disk' # disk
    <3>1. /\ disk'.usage = [disk.usage EXCEPT ![Stems[next]] = v] /\ disk'.slot = disk.slot
          /\ Copies(Stems[next])
      BY <1>0, <1>5, <2>2 DEF Shape
    <3>2. CASE disk.usage[Stems[next]] = "none"
      BY <1>0, <3>1, <3>2 DEF UserUsagesStay, Stays, Shape
    <3>3. CASE mode # "template"
      <4>1. CASE mode = "bare"
        BY <1>0, <1>5, <3>1, <4>1 DEF UserUsagesStay, Stays, Unscaffolded
      <4>2. CASE mode # "bare"
        BY <1>0, <1>5, <3>3, <4>2 DEF Unscaffolded
      <4>. QED
        BY <4>1, <4>2
    <3>. QED
      BY <3>1, <3>2, <3>3 DEF Copies
  <2>. QED
    BY <2>1, <2>2
<1>6. CASE CopyNext
  BY <1>5, <1>6 DEF CopyNext
<1>7. ASSUME NEW v, disk' = disk \/ (Occupies /\ disk' = [disk EXCEPT !.slot = v, !.goga = TRUE])
      PROVE  UserUsagesStay
  <2>1. \/ disk' = disk
        \/ disk'.usage = disk.usage /\ disk.slot = "none"
    BY <1>0, <1>7 DEF Shape, Occupies
  <2>. QED
    BY <2>1 DEF UserUsagesStay, Stays
<1>8. CASE Slot
  BY <1>7, <1>8 DEF Slot
<1>9. CASE StepFails
  <2>1. \/ UNCHANGED disk
        \/ \E f \in {"empty", "broken"} :
             disk' = [disk EXCEPT !.config = [Blank EXCEPT !.form = f], !.goga = TRUE]
        \/ /\ pc = "copy" /\ Copies(Stems[next])
           /\ disk' = [disk EXCEPT !.usage[Stems[next]] = "torn", !.goga = TRUE]
        \/ Occupies /\ disk' = [disk EXCEPT !.slot = "torn", !.goga = TRUE]
        \/ \E f \in {"empty", "broken"} : disk' = [disk EXCEPT !.tool = [NoTool EXCEPT !.form = f]]
        \/ disk' = [disk EXCEPT !.docker[ResolvePath].lines = <<>>]
        \/ disk' = [disk EXCEPT !.conftest = "torn"]
    BY <1>9 DEF StepFails, TornBy
  <2>2. CASE \/ UNCHANGED disk
             \/ \E f \in {"empty", "broken"} :
                  disk' = [disk EXCEPT !.config = [Blank EXCEPT !.form = f], !.goga = TRUE]
             \/ \E f \in {"empty", "broken"} :
                  disk' = [disk EXCEPT !.tool = [NoTool EXCEPT !.form = f]]
             \/ disk' = [disk EXCEPT !.docker[ResolvePath].lines = <<>>]
             \/ disk' = [disk EXCEPT !.conftest = "torn"]
    <3>1. disk'.usage = disk.usage /\ disk'.slot = disk.slot
      BY <1>0, <2>2 DEF Shape
    <3>. QED
      BY <1>1, <3>1
  <2>. QED
    BY <1>5, <1>7, <2>1, <2>2
<1>10. CASE UserEdits
  BY <1>10 DEF UserEdits
<1>. QED
  BY <1>2, <1>3, <1>4, <1>6, <1>8, <1>9, <1>10 DEF Next

(* The usage files and the convention a user or a template wrote are never *)
(* overwritten: bare mode, which overwrites, refuses a project that has    *)
(* any, and template mode skips them.                                      *)
THEOREM UserUsagesKept == Spec => [][pc # "idle" => UserUsagesStay]_vars
<1>1. IInv /\ [Next]_vars => [pc # "idle" => UserUsagesStay]_vars
  BY UserUsagesStep
<1>. QED
  BY <1>1, BootstrapInvariant, PTL DEF Spec
-----------------------------------------------------------------------------
(***************************************************************************)
(* Registering the keys, line by line.                                     *)
(***************************************************************************)

(* A set of naturals with an element has a least one: what holds for every *)
(* number is proved by the least one it does not hold for.                 *)
LEMMA LeastNatural ==
  ASSUME NEW T, T \subseteq Nat, T # {}
  PROVE  \E x \in T : \A y \in T : x <= y
<1>. DEFINE R == {p \in Nat \X Nat : p[1] < p[2]}
<1>1. IsWellFoundedOn(R, Nat)
  BY NatLessThanWellFounded DEF OpToRel
<1>2. PICK x \in T : \A y \in T : ~ (<<y, x>> \in R)
  <2>. HIDE DEF R
  <2>. QED
    BY <1>1, WFMin
<1>3. \A y \in T : ~(y < x)
  BY <1>2
<1>. QED
  BY <1>2, <1>3

LEMMA Induction ==
  ASSUME NEW n \in Nat, NEW T, T \subseteq 0..n, 0 \in T,
         \A i \in 0..n : i # 0 /\ i - 1 \in T => i \in T
  PROVE  \A i \in 0..n : i \in T
<1>. DEFINE M == {i \in 0..n : i \notin T}
<1>1. SUFFICES ASSUME M # {} PROVE FALSE
  OBVIOUS
<1>2. PICK m \in M : \A y \in M : m <= y
  <2>1. M \subseteq Nat
    OBVIOUS
  <2>. HIDE DEF M
  <2>. QED
    BY <1>1, <2>1, LeastNatural
<1>3. m \in 0..n /\ m # 0 /\ m \notin T
  BY <1>2
<1>4. m - 1 \in M
  BY <1>3
<1>. QED
  BY <1>2, <1>3, <1>4

(* The line pybuggy writes for a key; it is the first that refers to it.   *)
NoteOf(k) == [refs |-> {k}, own |-> FALSE]
Leads(notes, k) == \E i \in DOMAIN notes : /\ notes[i] = NoteOf(k)
                                           /\ \A j \in 1..(i - 1) : k \notin notes[j].refs

LEMMA NoteCases ==
  ASSUME NEW notes \in Seq(Note), NEW k \in KeySet
  PROVE  \/ /\ \A i \in DOMAIN notes : k \notin notes[i].refs
            /\ WithNote(notes, k) = Append(notes, NoteOf(k))
         \/ \E i \in DOMAIN notes :
              /\ k \in notes[i].refs /\ \A j \in 1..(i - 1) : k \notin notes[j].refs
              /\ WithNote(notes, k) = [notes EXCEPT ![i] = NoteOf(k)]
<1>. DEFINE I == {i \in 1..Len(notes) : k \in notes[i].refs}
            pos == SelectInSeq(notes, LAMBDA n : k \in n.refs)
<1>1. pos = IF I # {} THEN Min(I) ELSE 0
  BY DEF SelectInSeq
<1>2. WithNote(notes, k) = IF pos = 0 THEN Append(notes, NoteOf(k))
                           ELSE [notes EXCEPT ![pos] = NoteOf(k)]
  BY DEF WithNote, NoteOf
<1>3. CASE I = {}
  <2>1. pos = 0
    BY <1>1, <1>3
  <2>2. \A i \in DOMAIN notes : k \notin notes[i].refs
    BY <1>3
  <2>. HIDE DEF pos
  <2>. QED
    BY <1>2, <2>1, <2>2
<1>4. CASE I # {}
  <2>1. \E i \in I : \A j \in I : i <= j
    <3>1. I \subseteq Nat
      OBVIOUS
    <3>. HIDE DEF I
    <3>. QED
      BY <1>4, <3>1, LeastNatural
  <2>2. pos = CHOOSE i \in I : \A j \in I : i <= j
    BY <1>1, <1>4 DEF Min
  <2>3. pos \in I /\ \A j \in I : pos <= j
    <3>. HIDE DEF I, pos
    <3>. QED
      BY <2>1, <2>2
  <2>4. pos \in DOMAIN notes /\ pos # 0 /\ k \in notes[pos].refs
    <3>. HIDE DEF pos
    <3>. QED
      BY <2>3
  <2>5. \A j \in 1..(pos - 1) : k \notin notes[j].refs
    <3>. HIDE DEF pos
    <3>. QED
      BY <2>3, <2>4
  <2>. HIDE DEF pos
  <2>. QED
    BY <1>2, <2>4, <2>5
<1>. QED
  BY <1>3, <1>4

(* A key registered leads; every other line keeps its place, and a key that*)
(* leads changes nothing.                                                  *)
LEMMA NoteWritten ==
  ASSUME NEW notes \in Seq(Note), NEW k \in KeySet
  PROVE  /\ WithNote(notes, k) \in Seq(Note)
         /\ Leads(WithNote(notes, k), k)
         /\ \A m \in KeySet : Leads(notes, m) => Leads(WithNote(notes, k), m)
         /\ Leads(notes, k) => WithNote(notes, k) = notes
         /\ Unrelated(WithNote(notes, k)) = Unrelated(notes)
<1>0. NoteOf(k) \in Note /\ NoteOf(k).refs = {k} /\ NoteOf(k).own = FALSE
  BY DEF NoteOf, Note
<1>1. CASE /\ \A i \in DOMAIN notes : k \notin notes[i].refs
           /\ WithNote(notes, k) = Append(notes, NoteOf(k))
  <2>. DEFINE out == Append(notes, NoteOf(k))
  <2>1. /\ out \in Seq(Note) /\ Len(out) = Len(notes) + 1
        /\ out[Len(notes) + 1] = NoteOf(k)
        /\ \A i \in DOMAIN notes : out[i] = notes[i]
        /\ DOMAIN notes = 1..Len(notes) /\ DOMAIN out = 1..(Len(notes) + 1)
        /\ Len(notes) \in Nat
    BY <1>0
  <2>. HIDE DEF out
  <2>2. Leads(out, k)
    BY <1>1, <2>1 DEF Leads
  <2>3. ASSUME NEW m \in KeySet, Leads(notes, m) PROVE Leads(out, m)
    <3>1. PICK i \in DOMAIN notes : /\ notes[i] = NoteOf(m)
                                    /\ \A j \in 1..(i - 1) : m \notin notes[j].refs
      BY <2>3 DEF Leads
    <3>2. i \in DOMAIN out /\ out[i] = NoteOf(m)
      BY <2>1, <3>1
    <3>3. \A j \in 1..(i - 1) : out[j] = notes[j]
      BY <2>1, <3>1
    <3>. QED
      BY <3>1, <3>2, <3>3 DEF Leads
  <2>4. ~Leads(notes, k)
    BY <1>1 DEF Leads, NoteOf
  <2>5. Unrelated(out) = Unrelated(notes)
    BY <1>0, <2>1 DEF Unrelated
  <2>6. WithNote(notes, k) = out
    BY <1>1 DEF out
  <2>. QED
    BY <2>1, <2>2, <2>3, <2>4, <2>5, <2>6
<1>2. ASSUME NEW i \in DOMAIN notes, k \in notes[i].refs,
             \A j \in 1..(i - 1) : k \notin notes[j].refs,
             WithNote(notes, k) = [notes EXCEPT ![i] = NoteOf(k)]
      PROVE  /\ WithNote(notes, k) \in Seq(Note)
             /\ Leads(WithNote(notes, k), k)
             /\ \A m \in KeySet : Leads(notes, m) => Leads(WithNote(notes, k), m)
             /\ Leads(notes, k) => WithNote(notes, k) = notes
             /\ Unrelated(WithNote(notes, k)) = Unrelated(notes)
  <2>. DEFINE out == [notes EXCEPT ![i] = NoteOf(k)]
  <2>1. /\ out \in Seq(Note) /\ DOMAIN out = DOMAIN notes
        /\ out[i] = NoteOf(k)
        /\ \A j \in DOMAIN notes : j # i => out[j] = notes[j]
        /\ DOMAIN notes = 1..Len(notes) /\ Len(notes) \in Nat
    BY <1>0
  <2>2. Leads(notes, k) => out = notes
    <3>1. SUFFICES ASSUME Leads(notes, k) PROVE notes[i] = NoteOf(k)
      OBVIOUS
    <3>2. PICK j \in DOMAIN notes : /\ notes[j] = NoteOf(k)
                                    /\ \A h \in 1..(j - 1) : k \notin notes[h].refs
      BY <3>1 DEF Leads
    <3>3. k \in notes[j].refs
      BY <1>0, <3>2
    <3>4. i = j
      BY <1>2, <2>1, <3>2, <3>3
    <3>. QED
      BY <3>2, <3>4
  <2>. HIDE DEF out
  <2>3. Leads(out, k)
    BY <1>2, <2>1 DEF Leads
  <2>4. ASSUME NEW m \in KeySet, Leads(notes, m) PROVE Leads(out, m)
    <3>1. PICK j \in DOMAIN notes : /\ notes[j] = NoteOf(m)
                                    /\ \A h \in 1..(j - 1) : m \notin notes[h].refs
      BY <2>4 DEF Leads
    <3>2. CASE m = k
      BY <2>3, <3>2
    <3>3. CASE m # k
      <4>1. j # i
        BY <1>2, <3>1, <3>3 DEF NoteOf
      <4>2. \A h \in 1..(j - 1) : m \notin out[h].refs
        BY <1>0, <2>1, <3>1, <3>3
      <4>. QED
        BY <2>1, <3>1, <4>1, <4>2 DEF Leads
    <3>. QED
      BY <3>2, <3>3
  <2>5. Unrelated(out) = Unrelated(notes)
    <3>1. \A j \in DOMAIN notes :
            (out[j].refs = {} <=> notes[j].refs = {}) /\ (out[j].refs = {} => out[j] = notes[j])
      BY <1>0, <1>2, <2>1
    <3>. QED
      BY <2>1, <3>1 DEF Unrelated
  <2>6. WithNote(notes, k) = out
    BY <1>2 DEF out
  <2>. QED
    BY <2>1, <2>2, <2>3, <2>4, <2>5, <2>6
<1>. QED
  BY <1>1, <1>2, NoteCases

(* The lines after each key.                                               *)
LEMMA AnnotatedSteps ==
  ASSUME NEW notes
  PROVE  \E f : /\ Annotated(notes) = f[Len(Keys)]
                /\ f[0] = notes
                /\ \A i \in 1..Len(Keys) : f[i] = WithNote(f[i - 1], Keys[i])
<1>. DEFINE n == Len(Keys)
            Is(g, m) == g = [i \in 0..m |-> IF i = 0 THEN notes ELSE WithNote(g[i - 1], Keys[i])]
            T == {m \in 0..n : \E g : Is(g, m)}
<1>0. n \in Nat
  BY BootstrapAssumption DEF Keys
<1>1. \A m \in 0..n : m \in T
  <2>1. 0 \in T
    <3>1. Is([i \in 0..0 |-> notes], 0)
      OBVIOUS
    <3>2. 0 \in 0..n
      BY <1>0
    <3>. HIDE DEF Is
    <3>. QED
      BY <3>1, <3>2
  <2>2. ASSUME NEW m \in 0..n, m # 0, m - 1 \in T PROVE m \in T
    <3>1. PICK g : Is(g, m - 1)
      BY <2>2
    <3>. DEFINE h == [i \in 0..m |-> IF i = m THEN WithNote(g[m - 1], Keys[m]) ELSE g[i]]
    <3>2. \A i \in 0..m : h[i] = IF i = 0 THEN notes ELSE WithNote(h[i - 1], Keys[i])
      <4>1. \A i \in 0..(m - 1) : g[i] = IF i = 0 THEN notes ELSE WithNote(g[i - 1], Keys[i])
        BY <3>1
      <4>. HIDE DEF Is, n
      <4>. QED
        BY <1>0, <2>2, <4>1
    <3>3. Is(h, m)
      BY <3>2
    <3>. QED
      BY <3>3
  <2>. HIDE DEF T, n
  <2>. QED
    BY <1>0, <2>1, <2>2, Induction DEF T
<1>. DEFINE f == CHOOSE g : Is(g, n)
<1>2. Is(f, n)
  <2>1. n \in T
    BY <1>0, <1>1
  <2>2. \E g : Is(g, n)
    BY <2>1
  <2>. HIDE DEF Is
  <2>. QED
    BY <2>2
<1>3. Annotated(notes) = f[n]
  BY DEF Annotated
<1>4. f[0] = notes /\ \A i \in 1..n : f[i] = WithNote(f[i - 1], Keys[i])
  <2>. HIDE DEF f, n
  <2>. QED
    BY <1>0, <1>2
<1>. HIDE DEF f
<1>. QED
  BY <1>3, <1>4

LEMMA AllAnnotated ==
  ASSUME NEW notes \in Seq(Note)
  PROVE  /\ Annotated(notes) \in Seq(Note)
         /\ \A k \in KeySet : Leads(Annotated(notes), k)
         /\ (\A k \in KeySet : Leads(notes, k)) => Annotated(notes) = notes
         /\ Unrelated(Annotated(notes)) = Unrelated(notes)
<1>. DEFINE n == Len(Keys)
            Settle == \A k \in KeySet : Leads(notes, k)
<1>0. n \in Nat /\ \A i \in 1..n : Keys[i] \in KeySet
  <2>1. Keys \in Seq(KeySet \cup StemSet \cup {"conventions"})
    <3>. HIDE DEF KeySet, StemSet
    <3>. QED
      BY BootstrapAssumption DEF Keys
  <2>2. n \in Nat /\ DOMAIN Keys = 1..n
    <3>. HIDE DEF Keys
    <3>. QED
      BY <2>1
  <2>. QED
    BY <2>2 DEF KeySet
<1>1. PICK f : /\ Annotated(notes) = f[n] /\ f[0] = notes
               /\ \A i \in 1..n : f[i] = WithNote(f[i - 1], Keys[i])
  BY AnnotatedSteps
<1>. DEFINE Good(i) == /\ f[i] \in Seq(Note)
                       /\ \A j \in 1..i : Leads(f[i], Keys[j])
                       /\ Settle => f[i] = notes
                       /\ Unrelated(f[i]) = Unrelated(notes)
            T == {i \in 0..n : Good(i)}
<1>. HIDE DEF n, Settle
<1>2. 0 \in T
  BY <1>0, <1>1
<1>3. ASSUME NEW i \in 0..n, i # 0, i - 1 \in T PROVE i \in T
  <2>1. /\ f[i - 1] \in Seq(Note) /\ \A j \in 1..(i - 1) : Leads(f[i - 1], Keys[j])
        /\ Settle => f[i - 1] = notes
        /\ Unrelated(f[i - 1]) = Unrelated(notes)
        /\ f[i] = WithNote(f[i - 1], Keys[i]) /\ Keys[i] \in KeySet
        /\ \A j \in 1..i : Keys[j] \in KeySet
    BY <1>0, <1>1, <1>3
  <2>2. /\ f[i] \in Seq(Note) /\ Leads(f[i], Keys[i])
        /\ \A m \in KeySet : Leads(f[i - 1], m) => Leads(f[i], m)
        /\ Leads(f[i - 1], Keys[i]) => f[i] = f[i - 1]
        /\ Unrelated(f[i]) = Unrelated(f[i - 1])
    BY <2>1, NoteWritten
  <2>3. \A j \in 1..i : Leads(f[i], Keys[j])
    BY <1>3, <2>1, <2>2
  <2>4. Settle => f[i] = notes
    BY <2>1, <2>2 DEF Settle
  <2>. QED
    BY <2>1, <2>2, <2>3, <2>4
<1>4. Good(n)
  <2>1. \A i \in 0..n : i \in T
    <3>1. T \subseteq 0..n
      OBVIOUS
    <3>. HIDE DEF T
    <3>. QED
      BY <1>0, <1>2, <1>3, <3>1, Induction
  <2>. QED
    BY <1>0, <2>1
<1>5. \A k \in KeySet : Leads(f[n], k)
  BY <1>0, <1>4 DEF KeySet, n
<1>. QED
  BY <1>1, <1>4, <1>5 DEF Settle
-----------------------------------------------------------------------------
(***************************************************************************)
(* The specifications of a contribution.                                   *)
(***************************************************************************)
Entry(s) == [name |-> s.name, nth |-> s.nth]

(* The specifications after each of more.                                  *)
ParsedBy(f, first, more) ==
  /\ ParseSpecs(first, more) = f[Len(more)]
  /\ f[0] = <<Entry(first)>>
  /\ \A i \in 1..Len(more) : f[i] = WithSpec(f[i - 1], more[i])

LEMMA ParseSteps ==
  ASSUME NEW first, NEW more \in Seq(SpecAnswer)
  PROVE  \E f : ParsedBy(f, first, more)
<1>. DEFINE n == Len(more)
            one == <<Entry(first)>>
            Is(g, m) == g = [i \in 0..m |-> IF i = 0 THEN one ELSE WithSpec(g[i - 1], more[i])]
            T == {m \in 0..n : \E g : Is(g, m)}
<1>0. n \in Nat
  OBVIOUS
<1>1. \A m \in 0..n : m \in T
  <2>1. 0 \in T
    <3>1. Is([i \in 0..0 |-> one], 0)
      OBVIOUS
    <3>2. 0 \in 0..n
      BY <1>0
    <3>. HIDE DEF Is
    <3>. QED
      BY <3>1, <3>2
  <2>2. ASSUME NEW m \in 0..n, m # 0, m - 1 \in T PROVE m \in T
    <3>1. PICK g : Is(g, m - 1)
      BY <2>2
    <3>. DEFINE h == [i \in 0..m |-> IF i = m THEN WithSpec(g[m - 1], more[m]) ELSE g[i]]
    <3>2. \A i \in 0..m : h[i] = IF i = 0 THEN one ELSE WithSpec(h[i - 1], more[i])
      <4>1. \A i \in 0..(m - 1) : g[i] = IF i = 0 THEN one ELSE WithSpec(g[i - 1], more[i])
        BY <3>1
      <4>. HIDE DEF Is, n, one
      <4>. QED
        BY <1>0, <2>2, <4>1
    <3>3. Is(h, m)
      BY <3>2
    <3>. QED
      BY <3>3
  <2>. HIDE DEF T, n
  <2>. QED
    BY <1>0, <2>1, <2>2, Induction DEF T
<1>. DEFINE f == CHOOSE g : Is(g, n)
<1>2. Is(f, n)
  <2>1. n \in T
    BY <1>0, <1>1
  <2>2. \E g : Is(g, n)
    BY <2>1
  <2>. HIDE DEF Is
  <2>. QED
    BY <2>2
<1>3. ParseSpecs(first, more) = f[n]
  BY DEF ParseSpecs, Entry
<1>4. f[0] = one /\ \A i \in 1..n : f[i] = WithSpec(f[i - 1], more[i])
  <2>. HIDE DEF f, n, one
  <2>. QED
    BY <1>0, <1>2
<1>. HIDE DEF f
<1>5. ParsedBy(f, first, more)
  BY <1>3, <1>4 DEF ParsedBy
<1>. QED
  BY <1>5

(* Specification i is the first of its name.                               *)
New(first, more, i) == /\ more[i].name # first.name
                       /\ \A h \in 1..(i - 1) : more[h].name # more[i].name

(* What the specifications are when the first i of more have been taken    *)
(* over: the first one, and the new ones.                                  *)
Taken(first, more, i, specs) ==
  /\ specs \in Seq([name : SpecNames, nth : Nat])
  /\ specs # <<>> /\ specs[1] = Entry(first)
  /\ \A j \in DOMAIN specs : \/ specs[j] = Entry(first)
                             \/ \E h \in 1..i : specs[j] = Entry(more[h]) /\ New(first, more, h)
  /\ \A h \in 1..i : New(first, more, h) => \E j \in DOMAIN specs : specs[j] = Entry(more[h])
  /\ \A h \in 1..i : \E j \in DOMAIN specs : specs[j].name = more[h].name

LEMMA TakenNext ==
  ASSUME NEW first, NEW more \in Seq(SpecAnswer), NEW i \in 1..Len(more), more[i].complete,
         NEW specs, Taken(first, more, i - 1, specs)
  PROVE  Taken(first, more, i, WithSpec(specs, more[i]))
<1>. DEFINE Spec_ == [name : SpecNames, nth : Nat]
<1>1. /\ specs \in Seq(Spec_) /\ specs # <<>> /\ specs[1] = Entry(first)
      /\ \A j \in DOMAIN specs :
           \/ specs[j] = Entry(first)
           \/ \E h \in 1..(i - 1) : specs[j] = Entry(more[h]) /\ New(first, more, h)
      /\ \A h \in 1..(i - 1) :
           New(first, more, h) => \E j \in DOMAIN specs : specs[j] = Entry(more[h])
      /\ \A h \in 1..(i - 1) : \E j \in DOMAIN specs : specs[j].name = more[h].name
  BY DEF Taken
<1>2. /\ more[i] \in SpecAnswer /\ Entry(more[i]) \in Spec_
      /\ \A s : Entry(s).name = s.name
      /\ Len(more) \in Nat
  <2>1. more[i] \in SpecAnswer /\ Len(more) \in Nat
    OBVIOUS
  <2>. QED
    BY <2>1 DEF SpecAnswer, Entry
<1>3. /\ Len(specs) \in Nat /\ DOMAIN specs = 1..Len(specs) /\ 1 \in DOMAIN specs
  BY <1>1
<1>. HIDE DEF Spec_
<1>4. CASE New(first, more, i)
  <2>1. \A j \in DOMAIN specs : specs[j].name # more[i].name
    BY <1>1, <1>2, <1>4 DEF New
  <2>2. WithSpec(specs, more[i]) = Append(specs, Entry(more[i]))
    BY <2>1 DEF WithSpec, Entry
  <2>. DEFINE out == Append(specs, Entry(more[i]))
  <2>3. /\ out \in Seq(Spec_) /\ DOMAIN out = 1..(Len(specs) + 1)
        /\ out[Len(specs) + 1] = Entry(more[i])
        /\ \A j \in DOMAIN specs : out[j] = specs[j]
        /\ Len(out) = Len(specs) + 1
    BY <1>1, <1>2, <1>3
  <2>. HIDE DEF out
  <2>4. /\ DOMAIN specs \subseteq DOMAIN out /\ Len(specs) + 1 \in DOMAIN out
        /\ \A j \in DOMAIN out : j \in DOMAIN specs \/ j = Len(specs) + 1
    BY <1>3, <2>3
  <2>5. \A h \in 1..i : h \in 1..(i - 1) \/ h = i
    BY <1>2
  <2>6. i \in 1..i /\ 1..(i - 1) \subseteq 1..i
    BY <1>2
  <2>7. out # <<>> /\ out[1] = Entry(first)
    BY <1>1, <1>3, <2>3
  <2>8. \A j \in DOMAIN out : \/ out[j] = Entry(first)
                              \/ \E h \in 1..i : out[j] = Entry(more[h]) /\ New(first, more, h)
    BY <1>1, <1>4, <2>3, <2>4, <2>6
  <2>9. \A h \in 1..i : New(first, more, h) => \E j \in DOMAIN out : out[j] = Entry(more[h])
    BY <1>1, <2>3, <2>4, <2>5
  <2>10. \A h \in 1..i : \E j \in DOMAIN out : out[j].name = more[h].name
    <3>1. out[Len(specs) + 1].name = more[i].name
      BY <1>2, <2>3
    <3>2. ASSUME NEW h \in 1..(i - 1) PROVE \E j \in DOMAIN out : out[j].name = more[h].name
      <4>1. PICK j \in DOMAIN specs : specs[j].name = more[h].name
        BY <1>1
      <4>2. out[j].name = more[h].name
        BY <2>3, <4>1
      <4>. QED
        BY <2>4, <4>2
    <3>. QED
      BY <2>4, <2>5, <3>1, <3>2
  <2>11. out \in Seq([name : SpecNames, nth : Nat])
    BY <2>3 DEF Spec_
  <2>12. Taken(first, more, i, out)
    BY <2>7, <2>8, <2>9, <2>10, <2>11 DEF Taken
  <2>. QED
    BY <2>2, <2>12 DEF out
<1>5. CASE ~New(first, more, i)
  <2>1. \E j \in DOMAIN specs : specs[j].name = more[i].name
    <3>1. CASE more[i].name = first.name
      BY <1>1, <1>2, <1>3, <3>1
    <3>2. CASE \E h \in 1..(i - 1) : more[h].name = more[i].name
      BY <1>1, <3>2
    <3>. QED
      BY <1>5, <3>1, <3>2 DEF New
  <2>2. WithSpec(specs, more[i]) = specs
    BY <2>1 DEF WithSpec
  <2>3. \A h \in 1..i : h \in 1..(i - 1) \/ h = i
    BY <1>2
  <2>4. 1..(i - 1) \subseteq 1..i
    BY <1>2
  <2>5. \A j \in DOMAIN specs :
          \/ specs[j] = Entry(first)
          \/ \E h \in 1..i : specs[j] = Entry(more[h]) /\ New(first, more, h)
    BY <1>1, <2>4
  <2>6. \A h \in 1..i : New(first, more, h) => \E j \in DOMAIN specs : specs[j] = Entry(more[h])
    BY <1>1, <1>5, <2>3
  <2>7. \A h \in 1..i : \E j \in DOMAIN specs : specs[j].name = more[h].name
    BY <1>1, <2>1, <2>3
  <2>. QED
    BY <1>1, <2>2, <2>5, <2>6, <2>7 DEF Taken, Spec_
<1>. QED
  BY <1>4, <1>5

LEMMA ParsedSpecs ==
  ASSUME NEW first \in [name : SpecNames, complete : BOOLEAN, nth : {0}],
         NEW more \in Seq(SpecAnswer), \A i \in DOMAIN more : more[i].complete
  PROVE  Taken(first, more, Len(more), ParseSpecs(first, more))
<1>. DEFINE n == Len(more)
<1>0. n \in Nat /\ DOMAIN more = 1..n
  OBVIOUS
<1>1. PICK f : ParsedBy(f, first, more)
  BY ParseSteps
<1>a. /\ ParseSpecs(first, more) = f[n] /\ f[0] = <<Entry(first)>>
      /\ \A i \in 1..n : f[i] = WithSpec(f[i - 1], more[i])
  BY <1>1 DEF ParsedBy
<1>. DEFINE T == {i \in 0..n : Taken(first, more, i, f[i])}
<1>. HIDE DEF n
<1>2. 0 \in T
  <2>1. Entry(first) \in [name : SpecNames, nth : Nat]
    BY DEF Entry
  <2>2. /\ <<Entry(first)>> \in Seq([name : SpecNames, nth : Nat]) /\ <<Entry(first)>> # <<>>
        /\ \A j \in DOMAIN <<Entry(first)>> : <<Entry(first)>>[j] = Entry(first)
        /\ <<Entry(first)>>[1] = Entry(first)
    BY <2>1
  <2>3. Taken(first, more, 0, <<Entry(first)>>)
    BY <2>2 DEF Taken
  <2>. QED
    BY <1>0, <1>a, <2>3
<1>3. ASSUME NEW i \in 0..n, i # 0, i - 1 \in T PROVE i \in T
  <2>1. i \in 1..n /\ Taken(first, more, i - 1, f[i - 1]) /\ f[i] = WithSpec(f[i - 1], more[i])
    BY <1>0, <1>a, <1>3
  <2>2. Taken(first, more, i, f[i])
    BY <1>0, <2>1, TakenNext DEF n
  <2>. QED
    BY <1>3, <2>2
<1>4. \A i \in 0..n : i \in T
  <2>1. T \subseteq 0..n
    OBVIOUS
  <2>. HIDE DEF T
  <2>. QED
    BY <1>0, <1>2, <1>3, <2>1, Induction
<1>. QED
  BY <1>0, <1>a, <1>4 DEF n
-----------------------------------------------------------------------------
(***************************************************************************)
(* Types.                                                                  *)
(***************************************************************************)

(* What the session has been told and what it is handed.                   *)
SurveyInv ==
  /\ \A i \in DOMAIN extras : extras[i].complete /\ extras[i].nth = i
  /\ pc = "generate" /\ offer.config # <<>> =>
       ~Raises(answers) /\ offer.config[1].specs = ParseSpecs(answers.first, extras)

LEMMA DiskUpdates ==
  ASSUME NEW d \in Disk, NEW b \in BOOLEAN
  PROVE  /\ \A v \in Config : [d EXCEPT !.config = v] \in Disk
         /\ \A v \in Config : [d EXCEPT !.config = v, !.goga = b] \in Disk
         /\ \A v \in Tool : [d EXCEPT !.tool = v] \in Disk
         /\ \A s \in StemSet, v \in File : [d EXCEPT !.usage[s] = v, !.goga = b] \in Disk
         /\ \A v \in File : [d EXCEPT !.slot = v, !.goga = b] \in Disk
         /\ \A v \in File : [d EXCEPT !.conftest = v] \in Disk
         /\ \A p \in Paths, v \in Seq({"old", "current"}) : [d EXCEPT !.docker[p].lines = v] \in Disk
<1>1. \A p \in Paths, v \in Seq({"old", "current"}) : [d.docker[p] EXCEPT !.lines = v] \in Docker
  BY DEF Disk, Docker
<1>2. \A p \in Paths, v \in Seq({"old", "current"}) :
        [d.docker EXCEPT ![p] = [d.docker[p] EXCEPT !.lines = v]] \in [Paths -> Docker]
  BY <1>1 DEF Disk
<1>3. \A p \in Paths, v \in Seq({"old", "current"}) : [d EXCEPT !.docker[p].lines = v] \in Disk
  BY <1>2 DEF Disk
<1>4. \A s \in StemSet, v \in File : [d EXCEPT !.usage[s] = v, !.goga = b] \in Disk
  BY DEF Disk
<1>. QED
  BY <1>3, <1>4 DEF Disk

LEMMA ConfigUpdates ==
  ASSUME NEW c \in Config
  PROVE  /\ \A v \in BOOLEAN : [c EXCEPT !.skip = v] \in Config
         /\ \A v \in [KeySet -> {"none", "own", "ours"}] : [c EXCEPT !.usages = v] \in Config
         /\ \A v \in Seq(Note) : [c EXCEPT !.notes = v] \in Config
         /\ \A v \in {"none", "empty", "broken", "map"} : [c EXCEPT !.form = v] \in Config
         /\ \A v \in {"none"} \cup Paths : [c EXCEPT !.path = v] \in Config
<1>. HIDE DEF Note, KeySet
<1>. QED
  BY DEF Config

LEMMA Blanks ==
  /\ Blank \in Config /\ NoConfig \in Config /\ NoTool \in Tool /\ NoDocker \in Docker
  /\ Fresh \in Disk
<1>0. /\ <<>> \in Seq(Note) /\ <<>> \in Seq([name : SpecNames, nth : Nat])
      /\ <<>> \in Seq({"old", "current"})
  OBVIOUS
<1>1. Unregistered \in [KeySet -> {"none", "own", "ours"}]
  BY DEF Unregistered
<1>2. Blank \in Config
  <2>. HIDE DEF Note, KeySet, Unregistered
  <2>. QED
    BY <1>0, <1>1 DEF Blank, Config
<1>3. NoConfig \in Config
  BY <1>2, ConfigUpdates DEF NoConfig
<1>4. NoTool \in Tool
  BY <1>0 DEF NoTool, Tool
<1>5. NoDocker \in Docker
  BY <1>0 DEF NoDocker, Docker
<1>6. Fresh \in Disk
  <2>. HIDE DEF Config, Tool, Docker
  <2>. QED
    BY <1>3, <1>4, <1>5 DEF Fresh, Disk, File
<1>. QED
  BY <1>2, <1>3, <1>4, <1>5, <1>6

LEMMA LoadedTyped ==
  ASSUME TypeOK
  PROVE  Loaded \in Config /\ disk.config \in Config /\ disk.tool \in Tool
BY Blanks DEF TypeOK, Loaded, Disk

LEMMA PathTyped ==
  ASSUME TypeOK
  PROVE  ResolvePath \in Paths
<1>1. disk.config.path \in {"none"} \cup Paths
  BY LoadedTyped DEF Config
<1>. QED
  BY <1>1, BootstrapAssumption DEF ResolvePath

LEMMA ContributionTyped ==
  ASSUME TypeOK, SurveyInv, NEW enabled \in SUBSET Axes
  PROVE  /\ Contribution(answers, extras, enabled) \in Offer /\ Dropped \in Offer
         /\ Contribution(answers, extras, enabled).config # <<>> =>
              /\ ~Raises(answers)
              /\ Contribution(answers, extras, enabled).config[1].specs
                   = ParseSpecs(answers.first, extras)
<1>1. /\ answers \in Answers /\ extras \in Seq(SpecAnswer)
  BY BootstrapAssumption DEF TypeOK
<1>2. /\ answers.first \in [name : SpecNames, complete : BOOLEAN, nth : {0}]
      /\ answers.image \in BOOLEAN
  BY <1>1 DEF Answers
<1>3. ParseSpecs(answers.first, extras) \in Seq([name : SpecNames, nth : Nat])
  <2>1. Taken(answers.first, extras, Len(extras), ParseSpecs(answers.first, extras))
    BY <1>1, <1>2, ParsedSpecs DEF SurveyInv
  <2>. QED
    BY <2>1 DEF Taken
<1>. DEFINE data == ConfigData(answers, extras, enabled)
<1>4. /\ data \in [active : SUBSET MemberSet, axes : SUBSET Axes,
                   specs : Seq([name : SpecNames, nth : Nat])]
      /\ data.specs = ParseSpecs(answers.first, extras)
  <2>. HIDE DEF MemberSet
  <2>. QED
    BY <1>3 DEF ConfigData
<1>. HIDE DEF data
<1>5. Dropped \in Offer /\ Dropped.config = <<>>
  BY DEF Dropped, Offer
<1>6. CASE Raises(answers)
  BY <1>5, <1>6 DEF Contribution
<1>7. CASE ~Raises(answers)
  <2>1. Contribution(answers, extras, enabled) =
          [amended |-> [dockerfile |-> answers.image], config |-> <<data>>]
    BY <1>7 DEF Contribution, Amendments, data
  <2>2. /\ <<data>> \in Seq([active : SUBSET MemberSet, axes : SUBSET Axes,
                             specs : Seq([name : SpecNames, nth : Nat])])
        /\ <<data>>[1] = data
    BY <1>4
  <2>3. [amended |-> [dockerfile |-> answers.image], config |-> <<data>>] \in Offer
    BY <1>2, <2>2 DEF Offer
  <2>. QED
    BY <1>4, <1>5, <1>7, <2>1, <2>2, <2>3
<1>. QED
  BY <1>6, <1>7

LEMMA InstalledTyped ==
  ASSUME NEW lines \in Seq({"old", "current"})
  PROVE  /\ InstalledLines(lines) \in Seq({"old", "current"})
         /\ InstalledLines(lines) # <<>> /\ InstalledLines(lines)[1] = "current"
         /\ InstalledLines(InstalledLines(lines)) = InstalledLines(lines)
         /\ lines # <<>> => Len(InstalledLines(lines)) = Len(lines)
         /\ lines = <<>> => Len(InstalledLines(lines)) = 1
<1>1. CASE lines = <<>>
  <2>1. InstalledLines(lines) = <<"current">>
    BY <1>1 DEF InstalledLines
  <2>2. [<<"current">> EXCEPT ![1] = "current"] = <<"current">>
    OBVIOUS
  <2>3. <<"current">> \in Seq({"old", "current"}) /\ <<"current">>[1] = "current"
        /\ <<"current">> # <<>> /\ Len(<<"current">>) = 1
    OBVIOUS
  <2>. QED
    BY <1>1, <2>1, <2>2, <2>3 DEF InstalledLines
<1>2. CASE lines # <<>>
  <2>. DEFINE out == [lines EXCEPT ![1] = "current"]
  <2>1. InstalledLines(lines) = out
    BY <1>2 DEF InstalledLines
  <2>2. /\ out \in Seq({"old", "current"}) /\ out # <<>> /\ out[1] = "current"
        /\ Len(out) = Len(lines)
    BY <1>2
  <2>3. [out EXCEPT ![1] = "current"] = out
    <3>. HIDE DEF out
    <3>. QED
      BY <2>2
  <2>. HIDE DEF out
  <2>4. InstalledLines(out) = out
    BY <2>2, <2>3 DEF InstalledLines
  <2>. QED
    BY <1>2, <2>1, <2>2, <2>4
<1>. QED
  BY <1>1, <1>2

(* The project after each step.                                            *)
LEMMA DiskTyped ==
  ASSUME TypeOK, [Next]_vars
  PROVE  disk' \in Disk
<1>0. /\ disk \in Disk /\ Loaded \in Config /\ disk.config \in Config /\ disk.tool \in Tool
      /\ ResolvePath \in Paths /\ offer \in Offer
  BY LoadedTyped, PathTyped DEF TypeOK
<1>1. CASE disk' = disk
  BY <1>0, <1>1
<1>2. CASE Scaffold
  <2>1. SUFFICES ASSUME NEW t \in Templates, disk' = Scaffolded(t) PROVE disk' \in Disk
    BY <1>1, <1>2 DEF Scaffold
  <2>2. t \in Disk
    BY BootstrapAssumption
  <2>. HIDE DEF Config, Tool, Docker
  <2>. QED
    BY <1>0, <2>1, <2>2 DEF Scaffolded, Disk
<1>3. CASE Generate
  <2>1. PICK form, c, t, dk :
          /\ disk' = [disk EXCEPT !.goga = TRUE, !.config = c, !.docker[Default].here = dk,
                                  !.tool = t]
          /\ form = IF offer.amended.dockerfile THEN Default ELSE "none"
          /\ c = [Blank EXCEPT !.path = form]
          /\ dk = (disk.docker[Default].here \/ offer.amended.dockerfile)
          /\ t = IF offer.config = <<>> THEN disk.tool
                 ELSE [form |-> "map", active |-> offer.config[1].active, documented |-> {},
                       specs |-> offer.config[1].specs]
    BY <1>3 DEF Generate
  <2>2. offer.amended.dockerfile \in BOOLEAN
    BY <1>0 DEF Offer
  <2>3. form \in {"none"} \cup Paths
    BY <2>1, BootstrapAssumption
  <2>4. c \in Config
    BY <2>1, <2>3, Blanks, ConfigUpdates
  <2>5. t \in Tool
    <3>1. CASE offer.config = <<>>
      BY <1>0, <2>1, <3>1
    <3>2. CASE offer.config # <<>>
      <4>1. /\ offer.config[1].active \in SUBSET MemberSet
            /\ offer.config[1].specs \in Seq([name : SpecNames, nth : Nat])
        <5>. DEFINE Data == [active : SUBSET MemberSet, axes : SUBSET Axes,
                             specs : Seq([name : SpecNames, nth : Nat])]
        <5>1. offer.config \in Seq(Data)
          BY <1>0 DEF Offer
        <5>2. offer.config[1] \in Data
          <6>. HIDE DEF Data
          <6>. QED
            BY <3>2, <5>1
        <5>. QED
          BY <5>2
      <4>. HIDE DEF MemberSet
      <4>. QED
        BY <2>1, <3>2, <4>1 DEF Tool
    <3>. QED
      BY <3>1, <3>2
  <2>6. dk \in BOOLEAN
    BY <1>0, <2>1, <2>2, BootstrapAssumption DEF Disk, Docker
  <2>7. [disk.docker EXCEPT ![Default].here = dk] \in [Paths -> Docker]
    BY <1>0, <2>6, BootstrapAssumption DEF Disk, Docker
  <2>. HIDE DEF Config, Tool, Docker
  <2>. QED
    BY <1>0, <2>1, <2>4, <2>5, <2>7 DEF Disk
<1>4. CASE CopyNext
  <2>1. Stems[next] \in StemSet
    BY <1>4 DEF CopyNext, StemSet, TypeOK
  <2>. QED
    BY <1>0, <1>4, <2>1, DiskUpdates DEF CopyNext, File
<1>5. CASE Document
  <2>1. Documents \subseteq MemberSet
    BY DEF Documents, Pending, MemberSet
  <2>2. [disk.tool EXCEPT !.documented = @ \cup Documents] \in Tool
    <3>. HIDE DEF MemberSet, Documents
    <3>. QED
      BY <1>0, <2>1 DEF Tool
  <2>3. disk' = [disk EXCEPT !.tool = [disk.tool EXCEPT !.documented = @ \cup Documents]]
    BY <1>5 DEF Document
  <2>. QED
    BY <1>0, <2>2, <2>3, DiskUpdates
<1>6. CASE Slot
  BY <1>0, <1>6, DiskUpdates DEF Slot, File
<1>7. CASE EnsureReviewSkip
  <2>1. [Loaded EXCEPT !.skip = TRUE] \in Config
    BY <1>0, ConfigUpdates
  <2>. QED
    BY <1>0, <1>7, <2>1, DiskUpdates DEF EnsureReviewSkip
<1>8. CASE InstallPybuggy
  <2>1. disk.docker[ResolvePath].lines \in Seq({"old", "current"})
    BY <1>0 DEF Disk, Docker
  <2>2. InstalledLines(disk.docker[ResolvePath].lines) \in Seq({"old", "current"})
    BY <2>1, InstalledTyped
  <2>. QED
    BY <1>0, <1>8, <2>2, DiskUpdates DEF InstallPybuggy
<1>9. CASE RegisterUsages
  <2>1. WithKeys(Loaded.usages) \in [KeySet -> {"none", "own", "ours"}]
    <3>. HIDE DEF KeySet
    <3>. QED
      BY <1>0 DEF WithKeys, Config
  <2>2. [Loaded EXCEPT !.usages = WithKeys(@)] \in Config
    BY <1>0, <2>1, ConfigUpdates
  <2>. QED
    BY <1>0, <1>9, <2>2, DiskUpdates DEF RegisterUsages
<1>10. CASE RegisterAnnotations
  <2>1. Loaded.notes \in Seq(Note)
    BY <1>0 DEF Config
  <2>2. [Loaded EXCEPT !.notes = Annotated(@)] \in Config
    BY <1>0, <2>1, AllAnnotated, ConfigUpdates
  <2>. QED
    BY <1>0, <1>10, <2>2, DiskUpdates DEF RegisterAnnotations
<1>11. CASE GateConftest
  BY <1>0, <1>11, DiskUpdates DEF GateConftest, File
<1>12. CASE StepFails
  <2>1. /\ \A f \in {"empty", "broken"} : [Blank EXCEPT !.form = f] \in Config
        /\ \A f \in {"empty", "broken"} : [NoTool EXCEPT !.form = f] \in Tool
        /\ <<>> \in Seq({"old", "current"})
    <3>1. ASSUME NEW f \in {"empty", "broken"} PROVE [Blank EXCEPT !.form = f] \in Config
      <4>. HIDE DEF Blank, Config
      <4>. QED
        BY Blanks, ConfigUpdates
    <3>2. ASSUME NEW f \in {"empty", "broken"} PROVE [NoTool EXCEPT !.form = f] \in Tool
      <4>. HIDE DEF MemberSet, NoTool
      <4>. QED
        BY Blanks DEF Tool
    <3>. QED
      BY <3>1, <3>2
  <2>2. \/ UNCHANGED disk
        \/ \E f \in {"empty", "broken"} :
             disk' = [disk EXCEPT !.config = [Blank EXCEPT !.form = f], !.goga = TRUE]
        \/ /\ pc = "copy" /\ next <= Len(Stems)
           /\ disk' = [disk EXCEPT !.usage[Stems[next]] = "torn", !.goga = TRUE]
        \/ disk' = [disk EXCEPT !.slot = "torn", !.goga = TRUE]
        \/ \E f \in {"empty", "broken"} : disk' = [disk EXCEPT !.tool = [NoTool EXCEPT !.form = f]]
        \/ disk' = [disk EXCEPT !.docker[ResolvePath].lines = <<>>]
        \/ disk' = [disk EXCEPT !.conftest = "torn"]
    BY <1>12 DEF StepFails, TornBy
  <2>3. next <= Len(Stems) => Stems[next] \in StemSet
    BY BootstrapAssumption DEF StemSet, TypeOK
  <2>. QED
    <3>. DEFINE U(v) == [disk EXCEPT !.config = v, !.goga = TRUE]
    <3>1. CASE \E v \in Config : disk' = U(v)
      BY <1>0, <3>1, DiskUpdates
    <3>2. CASE \E v \in Tool : disk' = [disk EXCEPT !.tool = v]
      BY <1>0, <3>2, DiskUpdates
    <3>t. "torn" \in File
      BY DEF File
    <3>3. CASE \E s \in StemSet : disk' = [disk EXCEPT !.usage[s] = "torn", !.goga = TRUE]
      <4>1. PICK s \in StemSet : disk' = [disk EXCEPT !.usage[s] = "torn", !.goga = TRUE]
        BY <3>3
      <4>2. [disk EXCEPT !.usage[s] = "torn", !.goga = TRUE] \in Disk
        BY <1>0, <3>t, DiskUpdates
      <4>. QED
        BY <4>1, <4>2
    <3>5. CASE \/ disk' = [disk EXCEPT !.slot = "torn", !.goga = TRUE]
               \/ disk' = [disk EXCEPT !.conftest = "torn"]
      BY <1>0, <3>t, <3>5, DiskUpdates
    <3>4. CASE disk' = [disk EXCEPT !.docker[ResolvePath].lines = <<>>]
      BY <1>0, <2>1, <3>4, DiskUpdates
    <3>. QED
      BY <1>1, <2>1, <2>2, <2>3, <3>1, <3>2, <3>3, <3>4, <3>5
<1>13. CASE UserEdits
  <2>1. CASE \E v \in SUBSET MemberSet : disk' = [disk EXCEPT !.tool.active = v]
    <3>1. PICK v \in SUBSET MemberSet : disk' = [disk EXCEPT !.tool = [disk.tool EXCEPT !.active = v]]
      BY <2>1
    <3>2. [disk.tool EXCEPT !.active = v] \in Tool
      BY <1>0, <3>1 DEF Tool
    <3>. QED
      BY <1>0, <3>1, <3>2, DiskUpdates
  <2>2. CASE disk' = [disk EXCEPT !.goga = FALSE, !.usage = Fresh.usage, !.slot = "none",
                             !.config = NoConfig, !.tool = NoTool,
                             !.docker[Default] = NoDocker]
    <3>1. Fresh.usage \in [StemSet -> File]
      BY DEF Fresh, File
    <3>. HIDE DEF Config, Tool, Docker
    <3>. QED
      BY <1>0, <2>2, <3>1, Blanks, BootstrapAssumption DEF Disk, File
  <2>3. disk.tool.active \in SUBSET MemberSet
    BY <1>0 DEF Tool
  <2>. QED
    BY <1>13, <2>1, <2>2, <2>3 DEF UserEdits
<1>14. CASE \/ Invoke \/ Upgrade \/ Session \/ AnotherSpec \/ NoMoreSpecs \/ Contribute
            \/ AbandonSurvey \/ Copied \/ CheckDockerfile \/ StepRefused \/ Leave
            \/ UNCHANGED vars
  <2>1. UNCHANGED disk
    BY <1>14 DEF Invoke, Upgrade, Session, AnotherSpec, NoMoreSpecs, Contribute,
       AbandonSurvey, Copied, CheckDockerfile, StepRefused, Leave, vars
  <2>. QED
    BY <1>1, <2>1
<1>. QED
  BY <1>2, <1>3, <1>4, <1>5, <1>6, <1>7, <1>8, <1>9, <1>10, <1>11, <1>12, <1>13, <1>14 DEF Next

(* The session: what it is told, and what it is handed.                    *)
LEMMA SurveyTyped ==
  ASSUME TypeOK, SurveyInv, [Next]_vars
  PROVE  /\ answers' \in Interviews /\ extras' \in Seq(SpecAnswer) /\ offer' \in Offer
         /\ SurveyInv'
<1>0. /\ answers \in Interviews /\ extras \in Seq(SpecAnswer) /\ offer \in Offer
  BY DEF TypeOK
<1>d. Dropped \in Offer /\ Dropped.config = <<>>
  BY DEF Dropped, Offer
<1>1. CASE UNCHANGED <<answers, extras, offer>> /\ pc' # "generate"
  BY <1>0, <1>1 DEF SurveyInv
<1>2. CASE Session
  <2>1. CASE answers' \in Interviews /\ extras' = <<>> /\ offer' = Dropped
    <3>1. extras' \in Seq(SpecAnswer) /\ DOMAIN extras' = {}
      BY <2>1
    <3>. QED
      BY <1>d, <2>1, <3>1 DEF SurveyInv
  <2>2. CASE UNCHANGED <<answers, extras, offer>> /\ pc' \in {"copy", "done"}
    BY <1>1, <2>2
  <2>. QED
    BY <1>2, <2>1, <2>2 DEF Session, Exit, survey
<1>3. CASE AnotherSpec
  <2>1. PICK name \in SpecNames :
          extras' = Append(extras, [name |-> name, complete |-> TRUE, nth |-> Len(extras) + 1])
    BY <1>3 DEF AnotherSpec
  <2>2. /\ [name |-> name, complete |-> TRUE, nth |-> Len(extras) + 1] \in SpecAnswer
        /\ Len(extras) \in Nat
    BY <1>0 DEF SpecAnswer
  <2>3. /\ extras' \in Seq(SpecAnswer) /\ DOMAIN extras' = 1..(Len(extras) + 1)
        /\ extras'[Len(extras) + 1] =
             [name |-> name, complete |-> TRUE, nth |-> Len(extras) + 1]
        /\ \A i \in 1..Len(extras) : extras'[i] = extras[i]
    BY <1>0, <2>1, <2>2
  <2>4. \A i \in 1..(Len(extras) + 1) : i \in 1..Len(extras) \/ i = Len(extras) + 1
    BY <2>2
  <2>5. \A i \in DOMAIN extras' : extras'[i].complete /\ extras'[i].nth = i
    BY <1>0, <2>3, <2>4 DEF SurveyInv
  <2>6. UNCHANGED <<answers, offer>> /\ pc' = "specs"
    BY <1>3 DEF AnotherSpec
  <2>. QED
    BY <1>0, <2>3, <2>5, <2>6 DEF SurveyInv
<1>4. CASE Contribute
  <2>1. PICK enabled \in SUBSET Axes : offer' = Contribution(answers, extras, enabled)
    BY <1>4 DEF Contribute
  <2>2. UNCHANGED <<answers, extras>>
    BY <1>4 DEF Contribute
  <2>3. /\ offer' \in Offer
        /\ offer'.config # <<>> =>
             ~Raises(answers) /\ offer'.config[1].specs = ParseSpecs(answers.first, extras)
    BY <2>1, ContributionTyped
  <2>. QED
    BY <1>0, <2>2, <2>3 DEF SurveyInv
<1>5. CASE AbandonSurvey
  BY <1>0, <1>d, <1>5 DEF AbandonSurvey, SurveyInv
<1>6. CASE \/ Invoke \/ Upgrade \/ Scaffold \/ NoMoreSpecs \/ Generate
  <2>1. UNCHANGED <<answers, extras, offer>> /\ pc' # "generate"
    BY <1>6, InvokeCases DEF Invoke, Upgrade, Scaffold, NoMoreSpecs, Generate, Exit, survey
  <2>. QED
    BY <1>1, <2>1
<1>7. CASE \/ CopyNext \/ Copied \/ Document \/ Slot \/ EnsureReviewSkip \/ InstallPybuggy
           \/ RegisterUsages \/ RegisterAnnotations \/ GateConftest
  <2>1. UNCHANGED <<answers, extras, offer>> /\ pc' # "generate"
    BY <1>7 DEF CopyNext, Copied, Document, Slot, EnsureReviewSkip, InstallPybuggy,
       RegisterUsages, RegisterAnnotations, GateConftest, survey
  <2>. QED
    BY <1>1, <2>1
<1>8. CASE CheckDockerfile \/ StepRefused \/ StepFails \/ Leave \/ UserEdits
  <2>1. UNCHANGED <<answers, extras, offer>> /\ pc' # "generate"
    BY <1>8 DEF CheckDockerfile, StepRefused, StepFails, Leave, UserEdits, Exit, survey
  <2>. QED
    BY <1>1, <2>1
<1>9. CASE UNCHANGED vars
  BY <1>0, <1>9 DEF vars, SurveyInv
<1>. QED
  BY <1>2, <1>3, <1>4, <1>5, <1>6, <1>7, <1>8, <1>9 DEF Next

LEMMA ControlTyped ==
  ASSUME TypeOK, [Next]_vars
  PROVE  /\ pc' \in {"idle", "scaffold", "upgrade", "session", "specs", "autonomy",
                     "generate", "done"} \cup Steps
         /\ mode' \in {"bare", "template", "upgrade"}
         /\ before' \in Disk /\ next' \in Nat \ {0} /\ path' \in Paths /\ code' \in {0, 1, 2}
         /\ repeat' \in BOOLEAN /\ {runs', faults', edits'} \subseteq Nat
<1>a. repeat' \in BOOLEAN
  <2>1. CASE UNCHANGED repeat
    BY <2>1 DEF TypeOK
  <2>2. CASE repeat' = FALSE
    BY <2>2
  <2>3. CASE Leave
    <3>1. repeat' = (code = 0 /\ mode # "upgrade")
      BY <2>3 DEF Leave
    <3>. QED
      BY <3>1, Zenon
  <2>4. CASE Scaffold
    <3>1. repeat' = (repeat /\ disk' = disk) \/ repeat' = repeat
      BY <2>4 DEF Scaffold
    <3>. QED
      BY <2>1, <3>1
  <2>5. \/ UNCHANGED repeat \/ repeat' = FALSE \/ Leave \/ Scaffold
    BY DEF Next, vars, bounds, Invoke, Upgrade, Session, AnotherSpec, NoMoreSpecs, Contribute,
       AbandonSurvey, Generate, CopyNext, Copied, Document, Slot, EnsureReviewSkip,
       InstallPybuggy, RegisterUsages, RegisterAnnotations, GateConftest, CheckDockerfile,
       StepRefused, StepFails, UserEdits
  <2>. QED
    BY <2>1, <2>2, <2>3, <2>4, <2>5
<1>b. /\ pc \in {"idle", "scaffold", "upgrade", "session", "specs", "autonomy",
                 "generate", "done"} \cup Steps
      /\ mode \in {"bare", "template", "upgrade"} /\ disk \in Disk
      /\ before \in Disk /\ next \in Nat \ {0} /\ path \in Paths /\ code \in {0, 1, 2}
      /\ runs \in Nat /\ faults \in Nat /\ edits \in Nat
  BY DEF TypeOK
<1>1. CASE Invoke
  <2>1. /\ pc' \in {"done", "upgrade", "session", "scaffold"} /\ code' \in {1, code}
        /\ mode' \in {mode, "bare", "template", "upgrade"}
    <3>1. PICK tpl, ref, upgrade \in BOOLEAN :
            LET m == ResolveMode(tpl, ref, upgrade) IN
             /\ mode' = IF m = "refused" THEN mode ELSE m
             /\ \/ (m = "refused" \/ (m = "bare" /\ disk.goga)) /\ Exit(1)
                \/ m = "bare" /\ ~disk.goga /\ pc' = "session" /\ UNCHANGED code
                \/ m = "upgrade" /\ pc' = "upgrade" /\ UNCHANGED code
                \/ m = "template" /\ pc' = "scaffold" /\ UNCHANGED code
      BY <1>1 DEF Invoke
    <3>. QED
      BY <3>1 DEF Exit, ResolveMode
  <2>2. before' = disk /\ runs' = runs + 1 /\ UNCHANGED <<next, path, faults, edits>>
    BY <1>1 DEF Invoke
  <2>3. /\ pc' \in {"idle", "scaffold", "upgrade", "session", "specs", "autonomy",
                    "generate", "done"} \cup Steps
        /\ mode' \in {"bare", "template", "upgrade"}
    BY <1>b, <2>1
  <2>4. before' \in Disk /\ next' \in Nat \ {0} /\ path' \in Paths /\ code' \in {0, 1, 2}
    BY <1>b, <2>1, <2>2
  <2>5. {runs', faults', edits'} \subseteq Nat
    BY <1>b, <2>2
  <2>. QED
    BY <1>a, <2>3, <2>4, <2>5
<1>2. CASE ~Invoke
  <2>1. UNCHANGED before
    BY <1>2 DEF Next, vars, Upgrade, Scaffold, Session, AnotherSpec, NoMoreSpecs, Contribute,
       AbandonSurvey, Generate, CopyNext, Copied, Document, Slot, EnsureReviewSkip,
       InstallPybuggy, RegisterUsages, RegisterAnnotations, GateConftest, CheckDockerfile,
       StepRefused, StepFails, Leave, UserEdits
  <2>2. UNCHANGED mode
    BY <1>2 DEF Next, vars, Upgrade, Scaffold, Session, AnotherSpec, NoMoreSpecs, Contribute,
       AbandonSurvey, Generate, CopyNext, Copied, Document, Slot, EnsureReviewSkip,
       InstallPybuggy, RegisterUsages, RegisterAnnotations, GateConftest, CheckDockerfile,
       StepRefused, StepFails, Leave, UserEdits
  <2>3. path' \in {path, ResolvePath}
    BY <1>2 DEF Next, vars, Upgrade, Scaffold, Session, AnotherSpec, NoMoreSpecs, Contribute,
       AbandonSurvey, Generate, CopyNext, Copied, Document, Slot, EnsureReviewSkip,
       InstallPybuggy, RegisterUsages, RegisterAnnotations, GateConftest, CheckDockerfile,
       StepRefused, StepFails, Leave, UserEdits
  <2>4. next' \in {next, 1, next + 1}
    BY <1>2 DEF Next, vars, Upgrade, Scaffold, Session, AnotherSpec, NoMoreSpecs, Contribute,
       AbandonSurvey, Generate, CopyNext, Copied, Document, Slot, EnsureReviewSkip,
       InstallPybuggy, RegisterUsages, RegisterAnnotations, GateConftest, CheckDockerfile,
       StepRefused, StepFails, Leave, UserEdits
  <2>5. code' \in {code, 0, 1, 2}
    BY <1>2 DEF Next, vars, Upgrade, Scaffold, Session, AnotherSpec, NoMoreSpecs, Contribute,
       AbandonSurvey, Generate, CopyNext, Copied, Document, Slot, EnsureReviewSkip,
       InstallPybuggy, RegisterUsages, RegisterAnnotations, GateConftest, CheckDockerfile,
       StepRefused, StepFails, Leave, UserEdits, Exit
  <2>6. runs' = runs /\ faults' \in {faults, faults + 1} /\ edits' \in {edits, edits + 1}
    BY <1>2 DEF Next, vars, bounds, Upgrade, Scaffold, Session, AnotherSpec, NoMoreSpecs,
       Contribute, AbandonSurvey, Generate, CopyNext, Copied, Document, Slot, EnsureReviewSkip,
       InstallPybuggy, RegisterUsages, RegisterAnnotations, GateConftest, CheckDockerfile,
       StepRefused, StepFails, Leave, UserEdits
  <2>7. pc' \in {pc, "idle", "session", "specs", "autonomy", "generate", "done"} \cup Steps
    BY <1>2 DEF Next, vars, Upgrade, Scaffold, Session, AnotherSpec, NoMoreSpecs, Contribute,
       AbandonSurvey, Generate, CopyNext, Copied, Document, Slot, EnsureReviewSkip,
       InstallPybuggy, RegisterUsages, RegisterAnnotations, GateConftest, CheckDockerfile,
       StepRefused, StepFails, Leave, UserEdits, Exit, Steps
  <2>8. /\ pc' \in {"idle", "scaffold", "upgrade", "session", "specs", "autonomy",
                    "generate", "done"} \cup Steps
    BY <1>b, <2>7
  <2>9. path' \in Paths
    BY <1>b, <2>3, PathTyped
  <2>10. next' \in Nat \ {0} /\ code' \in {0, 1, 2} /\ {runs', faults', edits'} \subseteq Nat
    BY <1>b, <2>4, <2>5, <2>6
  <2>11. before' \in Disk /\ mode' \in {"bare", "template", "upgrade"}
    BY <1>b, <2>1, <2>2
  <2>. QED
    BY <1>a, <2>8, <2>9, <2>10, <2>11
<1>. QED
  BY <1>1, <1>2

LEMMA TypeInvariant == Spec => [](TypeOK /\ SurveyInv)
<1>1. Init => TypeOK /\ SurveyInv
  <2>1. ASSUME Init PROVE TypeOK /\ SurveyInv
    <3>1. disk \in Disk /\ before \in Disk
      <4>1. [Fresh EXCEPT !.conftest = "own"] \in Disk
        BY Blanks, DiskUpdates DEF File
      <4>. QED
        BY <2>1, <4>1, Blanks DEF Init
    <3>2. Dropped \in Offer /\ Dropped.config = <<>>
      BY DEF Dropped, Offer
    <3>3. <<>> \in Seq(SpecAnswer) /\ DOMAIN <<>> = {}
      OBVIOUS
    <3>a. /\ pc = "idle" /\ mode = "bare" /\ next = 1 /\ path = Default /\ code = 0
          /\ answers \in Interviews /\ extras = <<>> /\ offer = Dropped
          /\ runs = 0 /\ faults = 0 /\ edits = 0
      BY <2>1 DEF Init
    <3>b. repeat \in BOOLEAN
      <4>1. repeat = FALSE
        BY <2>1 DEF Init
      <4>. QED
        BY <4>1
    <3>4. TypeOK
      BY <3>1, <3>2, <3>3, <3>a, <3>b, BootstrapAssumption DEF TypeOK
    <3>5. SurveyInv
      BY <2>1, <3>3 DEF Init, SurveyInv
    <3>. QED
      BY <3>4, <3>5
  <2>. QED
    BY <2>1
<1>2. TypeOK /\ SurveyInv /\ [Next]_vars => TypeOK' /\ SurveyInv'
  <2>1. ASSUME TypeOK, SurveyInv, [Next]_vars PROVE TypeOK' /\ SurveyInv'
    <3>1. /\ disk' \in Disk
      BY <2>1, DiskTyped
    <3>2. TypeOK'
      BY <2>1, <3>1, SurveyTyped, ControlTyped DEF TypeOK
    <3>. QED
      BY <2>1, <3>2, SurveyTyped
  <2>. QED
    BY <2>1
<1>. QED
  BY <1>1, <1>2, PTL DEF Spec

(* Every variable keeps its type: for any packaged usages, templates and   *)
(* interviews, whatever step fails and whatever the user edits.            *)
THEOREM BootstrapTypeOK == Spec => []TypeOK
BY TypeInvariant, PTL

(* Of the further specifications each that is the first of its name is     *)
(* taken over, and no other.                                               *)
THEOREM SpecsFirstAlwaysWins == Spec => []SpecsFirstWins
<1>1. TypeOK /\ SurveyInv => SpecsFirstWins
  <2>1. SUFFICES ASSUME TypeOK, SurveyInv, pc = "generate", offer.config # <<>>,
                        NEW specs, specs = offer.config[1].specs
                 PROVE  /\ specs[1] = [name |-> answers.first.name, nth |-> 0]
                        /\ \A i \in DOMAIN extras :
                             (\E j \in DOMAIN specs : specs[j] = [name |-> extras[i].name, nth |-> i])
                               <=> /\ extras[i].name # answers.first.name
                                   /\ \A h \in 1..(i - 1) : extras[h].name # extras[i].name
    BY DEF SpecsFirstWins
  <2>. DEFINE first == answers.first
  <2>2. /\ extras \in Seq(SpecAnswer) /\ first \in [name : SpecNames, complete : BOOLEAN, nth : {0}]
        /\ \A i \in DOMAIN extras : extras[i].complete /\ extras[i].nth = i
        /\ specs = ParseSpecs(first, extras)
    BY <2>1, BootstrapAssumption DEF TypeOK, SurveyInv, Answers
  <2>. HIDE DEF first
  <2>3. Taken(first, extras, Len(extras), specs)
    BY <2>2, ParsedSpecs
  <2>4. first.nth = 0 /\ Entry(first) = [name |-> first.name, nth |-> 0]
    BY <2>2 DEF Entry
  <2>5. \A h \in DOMAIN extras : Entry(extras[h]) = [name |-> extras[h].name, nth |-> h]
    BY <2>2 DEF Entry
  <2>6. DOMAIN extras = 1..Len(extras) /\ Len(extras) \in Nat
    BY <2>2
  <2>7. ASSUME NEW i \in DOMAIN extras, NEW j \in DOMAIN specs,
               specs[j] = [name |-> extras[i].name, nth |-> i]
        PROVE  New(first, extras, i)
    <3>1. specs[j].nth = i /\ i # 0
      BY <2>6, <2>7
    <3>2. specs[j] # Entry(first)
      BY <2>4, <3>1
    <3>3. PICK h \in 1..Len(extras) : specs[j] = Entry(extras[h]) /\ New(first, extras, h)
      BY <2>3, <2>7, <3>2 DEF Taken
    <3>4. h = i
      BY <2>5, <2>6, <3>1, <3>3
    <3>. QED
      BY <3>3, <3>4
  <2>8. ASSUME NEW i \in DOMAIN extras, New(first, extras, i)
        PROVE  \E j \in DOMAIN specs : specs[j] = [name |-> extras[i].name, nth |-> i]
    BY <2>3, <2>5, <2>6, <2>8 DEF Taken
  <2>9. specs[1] = [name |-> first.name, nth |-> 0]
    BY <2>3, <2>4 DEF Taken
  <2>. QED
    BY <2>7, <2>8, <2>9 DEF New, first
<1>. QED
  BY <1>1, TypeInvariant, PTL
-----------------------------------------------------------------------------
(***************************************************************************)
(* What every step leaves done.                                            *)
(***************************************************************************)
HasRecords == Documents \subseteq disk.tool.documented
HasSkip    == disk.config.form = "map" /\ disk.config.skip
HasInstall == ~Installs(ResolvePath)
HasKeys    == \A k \in KeySet : disk.config.usages[k] # "none"
HasNotes   == \A k \in KeySet : Leads(disk.config.notes, k)

AfterDocument == AfterCopy \ {"document"}
AfterSkip     == AfterSlot \ {"skip"}
AfterInstall  == AfterSkip \ {"install"}
AfterUsages   == AfterInstall \ {"usages"}
AfterNotes    == AfterUsages \ {"annotations"}

StageInv ==
  /\ pc \in AfterDocument => HasRecords
  /\ pc \in AfterSkip => HasSkip
  /\ pc \in AfterInstall => path = ResolvePath /\ HasInstall
  /\ pc \in AfterUsages => HasKeys
  /\ pc \in AfterNotes => HasNotes
  /\ pc = "check" => disk.conftest # "none"

(* The project every step would leave as it is.                            *)
Settled ==
  /\ disk.goga
  /\ \A s \in StemSet : disk.usage[s] # "none"
  /\ disk.slot # "none" /\ disk.conftest # "none"
  /\ disk.docker[ResolvePath].here
  /\ HasRecords /\ HasSkip /\ HasInstall /\ HasKeys /\ HasNotes

(* A config is in .goga; the session runs only without one.                *)
ModeInv ==
  /\ pc = "upgrade" => mode = "upgrade"
  /\ disk.config.form # "none" => disk.goga
  /\ pc \in {"specs", "autonomy", "generate"} => disk.config.form = "none"

EndInv == Ended(0) => Settled

(* A repeat finds the project settled and has left it so; bare mode has    *)
(* refused it.                                                             *)
RepeatInv ==
  repeat => /\ Settled
            /\ pc # "idle" => disk = before
            /\ pc \notin {"idle", "done"} => mode # "bare"

Afters == /\ AfterCopy = {"document", "slot", "skip", "install", "usages", "annotations",
                          "gate", "check"}
          /\ AfterDocument = {"slot", "skip", "install", "usages", "annotations", "gate", "check"}
          /\ AfterSlot = {"skip", "install", "usages", "annotations", "gate", "check"}
          /\ AfterSkip = {"install", "usages", "annotations", "gate", "check"}
          /\ AfterInstall = {"usages", "annotations", "gate", "check"}
          /\ AfterUsages = {"annotations", "gate", "check"}
          /\ AfterNotes = {"gate", "check"}

LEMMA AfterSets == Afters
BY DEF Afters, AfterDocument, AfterCopy, AfterSlot, AfterSkip, AfterInstall, AfterUsages,
   AfterNotes, Steps

(* What a step leaves alone stays done.                                    *)
LEMMA RecordsStay ==
  ASSUME disk'.tool = disk.tool, HasRecords
  PROVE  HasRecords'
BY DEF HasRecords, Documents, Pending, Marked, Pinned

LEMMA InstallStays ==
  ASSUME disk'.docker = disk.docker, disk'.config.form = disk.config.form,
         disk'.config.path = disk.config.path
  PROVE  ResolvePath' = ResolvePath /\ (HasInstall => HasInstall')
<1>1. ResolvePath' = ResolvePath
  BY DEF ResolvePath
<1>. QED
  BY <1>1 DEF HasInstall, Installs

LEMMA SettledStays ==
  ASSUME UNCHANGED disk, Settled
  PROVE  Settled'
<1>1. HasRecords' /\ HasInstall' /\ ResolvePath' = ResolvePath
  BY RecordsStay, InstallStays DEF Settled
<1>. QED
  BY <1>1 DEF Settled, HasSkip, HasKeys, HasNotes, Leads

(* A step that records the members leaves no member to record.             *)
LEMMA Documented ==
  ASSUME TypeOK, Document
  PROVE  /\ HasRecords'
         /\ UNCHANGED <<disk.goga, disk.usage, disk.slot, disk.conftest, disk.config, disk.docker>>
         /\ HasRecords => disk' = disk
<1>0. disk \in Disk /\ disk.tool \in Tool
  BY LoadedTyped DEF TypeOK
<1>. DEFINE t == [disk.tool EXCEPT !.documented = @ \cup Documents]
<1>1. /\ disk' = [disk EXCEPT !.tool = t]
  BY DEF Document
<1>2. /\ t.form = disk.tool.form /\ t.active = disk.tool.active /\ t.specs = disk.tool.specs
      /\ t.documented = disk.tool.documented \cup Documents
      /\ HasRecords => t = disk.tool
  <2>. HIDE DEF MemberSet, Documents
  <2>. QED
    BY <1>0 DEF Tool, HasRecords
<1>. HIDE DEF t
<1>3. /\ disk'.tool = t
      /\ UNCHANGED <<disk.goga, disk.usage, disk.slot, disk.conftest, disk.config, disk.docker>>
      /\ t = disk.tool => disk' = disk
  <2>. HIDE DEF Config, Tool, Docker, File
  <2>. QED
    BY <1>0, <1>1 DEF Disk
<1>4. /\ disk'.tool.form = disk.tool.form /\ disk'.tool.active = disk.tool.active
      /\ disk'.tool.specs = disk.tool.specs
      /\ disk'.tool.documented = disk.tool.documented \cup Documents
  BY <1>2, <1>3
<1>5. \A m : Marked(m) => Marked(m)'
  BY <1>4 DEF Marked
<1>6. \A i : Pinned(i)' <=> Pinned(i)
  BY <1>4 DEF Pinned
<1>7. Pending' \subseteq Pending
  BY <1>4, <1>5, <1>6 DEF Pending
<1>8. Documents' \subseteq Documents
  BY <1>4, <1>7 DEF Documents
<1>. QED
  BY <1>2, <1>3, <1>4, <1>8 DEF HasRecords

(* A config written: the rest of the project stays.                        *)
LEMMA ConfigWritten ==
  ASSUME disk \in Disk, NEW c, NEW g,
         disk' = [disk EXCEPT !.config = c, !.goga = g] \/ disk' = [disk EXCEPT !.config = c]
  PROVE  /\ disk'.config = c /\ disk'.goga \in {g, disk.goga}
         /\ disk' = [disk EXCEPT !.config = c] => disk'.goga = disk.goga
         /\ UNCHANGED <<disk.usage, disk.slot, disk.conftest, disk.tool, disk.docker>>
         /\ c = disk.config /\ disk' = [disk EXCEPT !.config = c] => disk' = disk
<1>. HIDE DEF Config, Tool, Docker, File
<1>. QED
  BY DEF Disk

(* A config that loads and is no mapping is taken for an empty one.        *)
LEMMA LoadedForm ==
  ASSUME TypeOK, disk.config.form # "broken"
  PROVE  /\ Loaded.form = "map"
         /\ disk.config.form = "map" => Loaded = disk.config
         /\ disk.config.form # "map" => ~Loaded.skip
<1>1. disk.config.form \in {"none", "empty", "broken", "map"}
  BY LoadedTyped DEF Config
<1>2. Blank.form = "map" /\ ~Blank.skip
  BY DEF Blank
<1>. QED
  BY <1>1, <1>2 DEF Loaded

LEMMA Skipped ==
  ASSUME TypeOK, EnsureReviewSkip
  PROVE  /\ HasSkip'
         /\ UNCHANGED <<disk.usage, disk.slot, disk.conftest, disk.tool, disk.docker>>
         /\ disk'.goga \in {TRUE, disk.goga} /\ (disk' # disk => disk'.goga = TRUE)
         /\ HasSkip => disk' = disk
         /\ disk.config.form = "map" =>
              /\ disk'.config.usages = disk.config.usages
              /\ disk'.config.notes = disk.config.notes
              /\ disk'.config.path = disk.config.path
<1>0. disk \in Disk /\ Loaded \in Config /\ disk.config.form # "broken"
  BY LoadedTyped DEF TypeOK, EnsureReviewSkip
<1>1. CASE Loaded.skip
  <2>1. disk' = disk
    BY <1>1 DEF EnsureReviewSkip
  <2>2. disk.config.form = "map" /\ disk.config.skip
    BY <1>0, <1>1, LoadedForm
  <2>. QED
    BY <2>1, <2>2 DEF HasSkip
<1>2. CASE ~Loaded.skip
  <2>. DEFINE c == [Loaded EXCEPT !.skip = TRUE]
  <2>1. disk' = [disk EXCEPT !.config = c, !.goga = TRUE]
    BY <1>2 DEF EnsureReviewSkip
  <2>2. /\ c.form = Loaded.form /\ c.skip = TRUE /\ c.path = Loaded.path
        /\ c.usages = Loaded.usages /\ c.notes = Loaded.notes
    <3>. HIDE DEF KeySet, Note
    <3>. QED
      BY <1>0 DEF Config
  <2>. HIDE DEF c
  <2>3. /\ disk'.config = c /\ disk'.goga = TRUE
        /\ UNCHANGED <<disk.usage, disk.slot, disk.conftest, disk.tool, disk.docker>>
    <3>. HIDE DEF Config, Tool, Docker, File
    <3>. QED
      BY <1>0, <2>1 DEF Disk
  <2>4. ~HasSkip
    BY <1>0, <1>2, LoadedForm DEF HasSkip
  <2>. QED
    BY <1>0, <2>2, <2>3, <2>4, LoadedForm DEF HasSkip
<1>. QED
  BY <1>1, <1>2

LEMMA Installed ==
  ASSUME TypeOK, InstallPybuggy
  PROVE  /\ HasInstall' /\ ResolvePath' = ResolvePath /\ path' = ResolvePath
         /\ UNCHANGED <<disk.goga, disk.usage, disk.slot, disk.conftest, disk.config, disk.tool>>
         /\ HasInstall => disk' = disk
<1>. DEFINE p == ResolvePath
            lines == disk.docker[p].lines
<1>0. /\ disk \in Disk /\ p \in Paths /\ lines \in Seq({"old", "current"})
      /\ path' = p
  BY PathTyped DEF TypeOK, Disk, Docker, InstallPybuggy
<1>1. CASE ~Installs(p)
  <2>1. disk' = disk
    BY <1>1 DEF InstallPybuggy
  <2>2. ResolvePath' = ResolvePath
    BY <2>1 DEF ResolvePath
  <2>. QED
    BY <1>0, <1>1, <2>1, <2>2 DEF HasInstall, Installs
<1>2. CASE Installs(p)
  <2>. DEFINE new == InstalledLines(lines)
  <2>. HIDE DEF p
  <2>1. disk' = [disk EXCEPT !.docker[p].lines = new]
    BY <1>2 DEF InstallPybuggy, p
  <2>2. new \in Seq({"old", "current"}) /\ InstalledLines(new) = new
    BY <1>0, InstalledTyped
  <2>. HIDE DEF new
  <2>3. /\ UNCHANGED <<disk.goga, disk.usage, disk.slot, disk.conftest, disk.config, disk.tool>>
        /\ disk'.docker[p].lines = new
    <3>. HIDE DEF Config, Tool, File
    <3>. QED
      BY <1>0, <2>1 DEF Disk, Docker
  <2>4. ResolvePath' = ResolvePath
    BY <2>3 DEF ResolvePath
  <2>5. ~Installs(p)'
    BY <2>2, <2>3, <2>4 DEF Installs, p
  <2>. QED
    BY <1>0, <1>2, <2>3, <2>4, <2>5 DEF HasInstall, p, Installs
<1>. QED
  BY <1>1, <1>2

LEMMA UsagesRegistered ==
  ASSUME TypeOK, RegisterUsages
  PROVE  /\ HasKeys' /\ disk'.goga = disk.goga
         /\ UNCHANGED <<disk.usage, disk.slot, disk.conftest, disk.tool, disk.docker>>
         /\ disk.config.form = "map" =>
              /\ UNCHANGED <<disk.config.form, disk.config.skip, disk.config.path,
                             disk.config.notes>>
              /\ \A k \in KeySet : Stays(disk.config.usages[k], disk'.config.usages[k])
              /\ HasKeys => disk' = disk
<1>0. /\ disk \in Disk /\ Loaded \in Config /\ disk.config \in Config
      /\ disk.config.form # "broken"
  BY LoadedTyped DEF TypeOK, RegisterUsages
<1>. DEFINE new == WithKeys(Loaded.usages)
            c   == [Loaded EXCEPT !.usages = new]
<1>1. disk' = [disk EXCEPT !.config = c]
  BY DEF RegisterUsages
<1>2. \A k \in KeySet : /\ new[k] # "none"
                        /\ Loaded.usages[k] # "none" => new[k] = Loaded.usages[k]
  BY DEF WithKeys
<1>3. (\A k \in KeySet : Loaded.usages[k] # "none") => new = Loaded.usages
  <2>1. Loaded.usages \in [KeySet -> {"none", "own", "ours"}]
    <3>. HIDE DEF KeySet, Note
    <3>. QED
      BY <1>0 DEF Config
  <2>. HIDE DEF KeySet
  <2>. QED
    BY <2>1 DEF WithKeys
<1>. HIDE DEF new
<1>4. /\ c.form = Loaded.form /\ c.skip = Loaded.skip /\ c.path = Loaded.path
      /\ c.usages = new /\ c.notes = Loaded.notes
      /\ new = Loaded.usages => c = Loaded
  <2>. HIDE DEF KeySet, Note
  <2>. QED
    BY <1>0 DEF Config
<1>. HIDE DEF c
<1>5. /\ disk'.config = c /\ disk'.goga = disk.goga
      /\ UNCHANGED <<disk.usage, disk.slot, disk.conftest, disk.tool, disk.docker>>
      /\ c = disk.config => disk' = disk
  BY <1>0, <1>1, ConfigWritten
<1>. QED
  BY <1>0, <1>2, <1>3, <1>4, <1>5, LoadedForm DEF HasKeys, Stays

LEMMA NotesRegistered ==
  ASSUME TypeOK, RegisterAnnotations
  PROVE  /\ HasNotes' /\ disk'.goga = disk.goga
         /\ UNCHANGED <<disk.usage, disk.slot, disk.conftest, disk.tool, disk.docker>>
         /\ disk.config.form = "map" =>
              /\ UNCHANGED <<disk.config.form, disk.config.skip, disk.config.path,
                             disk.config.usages>>
              /\ Unrelated(disk'.config.notes) = Unrelated(disk.config.notes)
              /\ HasNotes => disk' = disk
<1>0. /\ disk \in Disk /\ Loaded \in Config /\ disk.config \in Config
      /\ disk.config.form # "broken"
  BY LoadedTyped DEF TypeOK, RegisterAnnotations
<1>. DEFINE new == Annotated(Loaded.notes)
            c   == [Loaded EXCEPT !.notes = new]
<1>1. disk' = [disk EXCEPT !.config = c]
  BY DEF RegisterAnnotations
<1>2. Loaded.notes \in Seq(Note)
  BY <1>0 DEF Config
<1>3. /\ \A k \in KeySet : Leads(new, k)
      /\ (\A k \in KeySet : Leads(Loaded.notes, k)) => new = Loaded.notes
      /\ Unrelated(new) = Unrelated(Loaded.notes)
  BY <1>2, AllAnnotated
<1>. HIDE DEF new
<1>4. /\ c.form = Loaded.form /\ c.skip = Loaded.skip /\ c.path = Loaded.path
      /\ c.usages = Loaded.usages /\ c.notes = new
      /\ new = Loaded.notes => c = Loaded
  <2>. HIDE DEF KeySet, Note
  <2>. QED
    BY <1>0 DEF Config
<1>. HIDE DEF c
<1>5. /\ disk'.config = c /\ disk'.goga = disk.goga
      /\ UNCHANGED <<disk.usage, disk.slot, disk.conftest, disk.tool, disk.docker>>
      /\ c = disk.config => disk' = disk
  BY <1>0, <1>1, ConfigWritten
<1>6. HasNotes'
  <2>1. disk'.config.notes = new
    BY <1>4, <1>5
  <2>. QED
    BY <1>3, <2>1 DEF HasNotes, Leads
<1>. QED
  BY <1>0, <1>3, <1>4, <1>5, <1>6, LoadedForm DEF HasNotes

LEMMA StageStep ==
  ASSUME TypeOK, IInv, ModeInv, StageInv, [Next]_vars
  PROVE  StageInv'
<1>0. Afters
  BY AfterSets
<1>1. ASSUME pc' \notin AfterDocument PROVE StageInv'
  BY <1>0, <1>1 DEF StageInv, Afters
<1>2. CASE \/ Invoke \/ Upgrade \/ Scaffold \/ Session \/ AnotherSpec \/ NoMoreSpecs
           \/ Contribute \/ AbandonSurvey \/ Generate
  <2>1. pc' \notin AfterDocument
    BY <1>0, <1>2, InvokeCases DEF Upgrade, Scaffold, Session, AnotherSpec, NoMoreSpecs,
       Contribute, AbandonSurvey, Generate, Exit, Afters
  <2>. QED
    BY <1>1, <2>1
<1>3. CASE \/ CopyNext \/ Copied \/ CheckDockerfile \/ StepRefused \/ StepFails \/ Leave
           \/ UserEdits
  <2>1. pc' \notin AfterDocument
    BY <1>0, <1>3 DEF CopyNext, Copied, CheckDockerfile, StepRefused, StepFails, Leave,
       UserEdits, Exit, Afters
  <2>. QED
    BY <1>1, <2>1
<1>4. CASE Document
  <2>1. pc' = "slot" /\ HasRecords'
    BY <1>4, Documented DEF Document
  <2>. QED
    BY <1>0, <2>1 DEF StageInv, Afters
<1>5. CASE Slot
  <2>1. pc = "slot" /\ pc' = "skip" /\ disk'.tool = disk.tool
    BY <1>5 DEF Slot, IInv, Shape
  <2>2. HasRecords'
    BY <1>0, <2>1, RecordsStay DEF StageInv, Afters
  <2>. QED
    BY <1>0, <2>1, <2>2 DEF StageInv, Afters
<1>6. CASE EnsureReviewSkip
  <2>1. pc = "skip" /\ pc' = "install" /\ HasSkip' /\ disk'.tool = disk.tool
    BY <1>6, Skipped DEF EnsureReviewSkip
  <2>2. HasRecords'
    BY <1>0, <2>1, RecordsStay DEF StageInv, Afters
  <2>. QED
    BY <1>0, <2>1, <2>2 DEF StageInv, Afters
<1>7. CASE InstallPybuggy
  <2>1. /\ pc = "install" /\ pc' = "usages" /\ HasInstall' /\ path' = ResolvePath'
        /\ UNCHANGED <<disk.config, disk.tool>>
    BY <1>7, Installed DEF InstallPybuggy
  <2>2. HasRecords' /\ HasSkip'
    BY <1>0, <2>1, RecordsStay DEF StageInv, Afters, HasSkip
  <2>. QED
    BY <1>0, <2>1, <2>2 DEF StageInv, Afters
<1>8. CASE RegisterUsages
  <2>1. pc = "usages" /\ pc' = "annotations" /\ path' = path
    BY <1>8 DEF RegisterUsages
  <2>2. HasRecords /\ HasSkip /\ HasInstall /\ path = ResolvePath
    BY <1>0, <2>1 DEF StageInv, Afters
  <2>3. /\ HasKeys' /\ UNCHANGED <<disk.tool, disk.docker, disk.config.form, disk.config.skip,
                                   disk.config.path>>
    BY <1>8, <2>2, UsagesRegistered DEF HasSkip
  <2>4. HasRecords' /\ HasSkip' /\ HasInstall' /\ path' = ResolvePath'
    BY <2>1, <2>2, <2>3, RecordsStay, InstallStays DEF HasSkip
  <2>. QED
    BY <1>0, <2>1, <2>3, <2>4 DEF StageInv, Afters
<1>9. CASE RegisterAnnotations
  <2>1. pc = "annotations" /\ pc' = "gate" /\ path' = path
    BY <1>9 DEF RegisterAnnotations
  <2>2. HasRecords /\ HasSkip /\ HasInstall /\ path = ResolvePath /\ HasKeys
    BY <1>0, <2>1 DEF StageInv, Afters
  <2>3. /\ HasNotes' /\ UNCHANGED <<disk.tool, disk.docker, disk.config.form, disk.config.skip,
                                    disk.config.path, disk.config.usages>>
    BY <1>9, <2>2, NotesRegistered DEF HasSkip
  <2>4. HasRecords' /\ HasSkip' /\ HasInstall' /\ path' = ResolvePath' /\ HasKeys'
    BY <2>1, <2>2, <2>3, RecordsStay, InstallStays DEF HasSkip, HasKeys
  <2>. QED
    BY <1>0, <2>1, <2>3, <2>4 DEF StageInv, Afters
<1>10. CASE GateConftest
  <2>1. pc = "gate" /\ pc' = "check" /\ path' = path
    BY <1>10 DEF GateConftest
  <2>2. HasRecords /\ HasSkip /\ HasInstall /\ path = ResolvePath /\ HasKeys /\ HasNotes
    BY <1>0, <2>1 DEF StageInv, Afters
  <2>3. disk'.conftest # "none" /\ UNCHANGED <<disk.tool, disk.docker, disk.config>>
    BY <1>10 DEF GateConftest, IInv, Shape
  <2>4. /\ HasRecords' /\ HasSkip' /\ HasInstall' /\ path' = ResolvePath' /\ HasKeys'
        /\ HasNotes'
    BY <2>1, <2>2, <2>3, RecordsStay, InstallStays DEF HasSkip, HasKeys, HasNotes, Leads
  <2>. QED
    BY <1>0, <2>1, <2>3, <2>4 DEF StageInv, Afters
<1>11. CASE UNCHANGED vars
  <2>1. UNCHANGED <<disk, pc, path>>
    BY <1>11 DEF vars
  <2>2. HasRecords => HasRecords'
    BY <2>1, RecordsStay
  <2>3. ResolvePath' = ResolvePath /\ (HasInstall => HasInstall')
    BY <2>1, InstallStays
  <2>4. (HasSkip => HasSkip') /\ (HasKeys => HasKeys') /\ (HasNotes => HasNotes')
    BY <2>1 DEF HasSkip, HasKeys, HasNotes, Leads
  <2>. QED
    BY <1>0, <2>1, <2>2, <2>3, <2>4 DEF StageInv, Afters
<1>. QED
  BY <1>2, <1>3, <1>4, <1>5, <1>6, <1>7, <1>8, <1>9, <1>10, <1>11 DEF Next

(* What a step that fails may leave of the project.                        *)
LEMMA Torn ==
  ASSUME TypeOK, IInv, StepFails
  PROVE  /\ \/ disk'.config = disk.config /\ disk'.goga \in {TRUE, disk.goga}
            \/ disk'.config.form \in {"empty", "broken"} /\ disk'.goga = TRUE
         /\ mode = "template" => Stays(disk.conftest, disk'.conftest)
<1>0. disk \in Disk /\ Shape
  BY DEF TypeOK, IInv
<1>1. \/ UNCHANGED disk
      \/ \E f \in {"empty", "broken"} :
           disk' = [disk EXCEPT !.config = [Blank EXCEPT !.form = f], !.goga = TRUE]
      \/ disk' = [disk EXCEPT !.usage[Stems[next]] = "torn", !.goga = TRUE]
      \/ disk' = [disk EXCEPT !.slot = "torn", !.goga = TRUE]
      \/ \E f \in {"empty", "broken"} : disk' = [disk EXCEPT !.tool = [NoTool EXCEPT !.form = f]]
      \/ disk' = [disk EXCEPT !.docker[ResolvePath].lines = <<>>]
      \/ /\ disk' = [disk EXCEPT !.conftest = "torn"]
         /\ disk.conftest = "none" \/ mode = "bare"
  BY DEF StepFails, TornBy
<1>2. CASE \E f \in {"empty", "broken"} :
             disk' = [disk EXCEPT !.config = [Blank EXCEPT !.form = f], !.goga = TRUE]
  <2>1. PICK f \in {"empty", "broken"} :
          disk' = [disk EXCEPT !.config = [Blank EXCEPT !.form = f], !.goga = TRUE]
    BY <1>2
  <2>2. disk'.config = [Blank EXCEPT !.form = f] /\ disk'.goga = TRUE
        /\ disk'.conftest = disk.conftest
    BY <1>0, <2>1 DEF Shape
  <2>3. disk'.config.form = f
    BY <2>2 DEF Blank
  <2>. QED
    BY <2>2, <2>3 DEF Stays
<1>3. CASE \/ UNCHANGED disk
           \/ disk' = [disk EXCEPT !.usage[Stems[next]] = "torn", !.goga = TRUE]
           \/ disk' = [disk EXCEPT !.slot = "torn", !.goga = TRUE]
           \/ \E f \in {"empty", "broken"} :
                disk' = [disk EXCEPT !.tool = [NoTool EXCEPT !.form = f]]
           \/ disk' = [disk EXCEPT !.docker[ResolvePath].lines = <<>>]
  <2>1. /\ disk'.config = disk.config /\ disk'.goga \in {TRUE, disk.goga}
        /\ disk'.conftest = disk.conftest
    BY <1>0, <1>3 DEF Shape
  <2>. QED
    BY <2>1 DEF Stays
<1>4. CASE /\ disk' = [disk EXCEPT !.conftest = "torn"]
           /\ disk.conftest = "none" \/ mode = "bare"
  <2>1. disk'.config = disk.config /\ disk'.goga = disk.goga
    BY <1>0, <1>4 DEF Shape
  <2>. QED
    BY <1>4, <2>1 DEF Stays
<1>. QED
  BY <1>1, <1>2, <1>3, <1>4

LEMMA ModeStep ==
  ASSUME TypeOK, IInv, ModeInv, StageInv, [Next]_vars
  PROVE  ModeInv'
<1>0. Shape /\ disk \in Disk /\ disk.goga \in BOOLEAN /\ Afters
  BY AfterSets DEF TypeOK, Disk, IInv
<1>1. ASSUME pc' \notin {"upgrade", "specs", "autonomy", "generate"},
             disk'.config = disk.config \/ disk'.config.form = "none", disk'.goga \in {TRUE, disk.goga}
      PROVE  ModeInv'
  BY <1>1 DEF ModeInv
<1>2. ASSUME pc' \notin {"upgrade", "specs", "autonomy", "generate"}, disk'.goga = TRUE
      PROVE  ModeInv'
  BY <1>2 DEF ModeInv
<1>3. CASE Invoke
  <2>1. UNCHANGED disk
    BY <1>3 DEF Invoke
  <2>. QED
    BY <1>3, <2>1, InvokeCases DEF ModeInv
<1>4. CASE \/ Upgrade \/ Session \/ AnotherSpec \/ NoMoreSpecs \/ Contribute \/ AbandonSurvey
  <2>1. UNCHANGED disk /\ pc' # "upgrade"
    BY <1>4 DEF Upgrade, Session, AnotherSpec, NoMoreSpecs, Contribute, AbandonSurvey, Exit
  <2>2. pc' \in {"specs", "autonomy", "generate"} => disk.config.form = "none"
    BY <1>4 DEF Upgrade, Session, AnotherSpec, NoMoreSpecs, Contribute, AbandonSurvey, Exit,
       ModeInv
  <2>. QED
    BY <2>1, <2>2 DEF ModeInv
<1>5. CASE \/ Copied \/ CheckDockerfile \/ StepRefused \/ Leave
  <2>1. UNCHANGED disk /\ pc' \notin {"upgrade", "specs", "autonomy", "generate"}
    BY <1>5 DEF Copied, CheckDockerfile, StepRefused, Leave, Exit
  <2>. QED
    BY <1>1, <2>1
<1>6. CASE Scaffold
  <2>1. pc' \notin {"upgrade", "specs", "autonomy", "generate"}
    BY <1>6 DEF Scaffold, Exit
  <2>2. disk' = disk \/ disk'.goga = TRUE
    BY <1>6 DEF Scaffold, Scaffolded
  <2>. QED
    BY <1>1, <1>2, <2>1, <2>2
<1>7. CASE Generate
  <2>1. pc' = "copy" /\ disk'.goga = TRUE
    BY <1>0, <1>7 DEF Generate, Shape
  <2>. QED
    BY <1>2, <2>1
<1>8. CASE CopyNext \/ Slot \/ GateConftest
  <2>1. /\ pc' \notin {"upgrade", "specs", "autonomy", "generate"}
        /\ disk'.config = disk.config /\ disk'.goga \in {TRUE, disk.goga}
    BY <1>0, <1>8 DEF CopyNext, Slot, GateConftest, Shape
  <2>. QED
    BY <1>1, <2>1
<1>9. CASE Document \/ InstallPybuggy
  <2>1. /\ pc' \notin {"upgrade", "specs", "autonomy", "generate"}
        /\ disk'.config = disk.config /\ disk'.goga = disk.goga
    BY <1>9, Documented, Installed DEF Document, InstallPybuggy
  <2>. QED
    BY <1>1, <2>1
<1>10. CASE EnsureReviewSkip
  <2>1. /\ pc' \notin {"upgrade", "specs", "autonomy", "generate"}
        /\ disk' = disk \/ disk'.goga = TRUE
    BY <1>10, Skipped DEF EnsureReviewSkip
  <2>. QED
    BY <1>1, <1>2, <2>1
<1>11. CASE RegisterUsages \/ RegisterAnnotations
  <2>1. /\ pc' \notin {"upgrade", "specs", "autonomy", "generate"} /\ pc \in AfterSkip
        /\ disk'.goga = disk.goga
    BY <1>0, <1>11, UsagesRegistered, NotesRegistered
       DEF RegisterUsages, RegisterAnnotations, Afters
  <2>2. disk.goga = TRUE
    BY <1>0, <2>1 DEF StageInv, HasSkip, ModeInv
  <2>. QED
    BY <1>2, <2>1, <2>2
<1>12. CASE StepFails
  <2>1. pc' = "done"
    BY <1>12 DEF StepFails, Exit
  <2>. QED
    BY <1>1, <1>2, <1>12, <2>1, Torn
<1>13. CASE UserEdits
  <2>1. pc' = "idle"
    BY <1>13 DEF UserEdits
  <2>2. CASE \E v : disk' = [disk EXCEPT !.tool.active = v]
    <3>1. disk'.config = disk.config /\ disk'.goga = disk.goga
      BY <1>0, <2>2 DEF Shape
    <3>. QED
      BY <1>1, <2>1, <3>1
  <2>3. CASE disk' = [disk EXCEPT !.goga = FALSE, !.usage = Fresh.usage, !.slot = "none",
                             !.config = NoConfig, !.tool = NoTool,
                             !.docker[Default] = NoDocker]
    <3>1. disk'.config = NoConfig
      BY <1>0, <2>3 DEF Shape
    <3>2. NoConfig.form = "none"
      BY DEF NoConfig, Blank
    <3>. QED
      BY <2>1, <3>1, <3>2 DEF ModeInv
  <2>. QED
    BY <1>13, <2>2, <2>3 DEF UserEdits
<1>14. CASE UNCHANGED vars
  BY <1>14 DEF vars, ModeInv
<1>. QED
  BY <1>3, <1>4, <1>5, <1>6, <1>7, <1>8, <1>9, <1>10, <1>11, <1>12, <1>13, <1>14 DEF Next

(* A run that ends with 0 has passed its last step.                        *)
LEMMA EndStep ==
  ASSUME TypeOK, IInv, ModeInv, StageInv, EndInv, [Next]_vars
  PROVE  EndInv'
<1>0. Afters
  BY AfterSets
<1>1. ASSUME pc' = "done" => code' # 0 PROVE EndInv'
  BY <1>1 DEF EndInv, Ended
<1>2. CASE \/ Scaffold \/ Session \/ AnotherSpec \/ NoMoreSpecs \/ Contribute
           \/ AbandonSurvey \/ Generate \/ CopyNext \/ Copied \/ Document \/ Slot
           \/ EnsureReviewSkip \/ InstallPybuggy \/ RegisterUsages \/ RegisterAnnotations
  <2>1. pc' = "done" => code' # 0
    BY <1>2 DEF Scaffold, Session, AnotherSpec, NoMoreSpecs, Contribute, AbandonSurvey,
       Generate, CopyNext, Copied, Document, Slot, EnsureReviewSkip, InstallPybuggy,
       RegisterUsages, RegisterAnnotations, Exit
  <2>. QED
    BY <1>1, <2>1
<1>3. CASE GateConftest \/ StepRefused \/ StepFails \/ Leave \/ UserEdits
  <2>1. pc' = "done" => code' # 0
    BY <1>3 DEF GateConftest, StepRefused, StepFails, Leave, UserEdits, Exit
  <2>. QED
    BY <1>1, <2>1
<1>4. CASE Invoke
  <2>1. pc' = "done" => code' # 0
    BY <1>4 DEF Invoke, Exit
  <2>. QED
    BY <1>1, <2>1
<1>5. CASE Upgrade
  <2>1. mode' = "upgrade"
    BY <1>5 DEF Upgrade, ModeInv
  <2>. QED
    BY <2>1 DEF EndInv, Ended
<1>6. CASE CheckDockerfile
  <2>1. /\ pc = "check" /\ disk' = disk
        /\ code' = IF disk.docker[path].here THEN 0 ELSE 1
    BY <1>6 DEF CheckDockerfile, Exit
  <2>2. CASE code' # 0
    BY <1>1, <2>2
  <2>3. CASE code' = 0
    <3>1. disk.docker[path].here
      BY <2>1, <2>3
    <3>2. /\ HasRecords /\ HasSkip /\ path = ResolvePath /\ HasInstall /\ HasKeys /\ HasNotes
          /\ disk.conftest # "none"
      BY <1>0, <2>1 DEF StageInv, Afters
    <3>3. disk.slot # "none" /\ \A s \in StemSet : disk.usage[s] # "none"
      BY <1>0, <2>1 DEF IInv, Progress, Afters
    <3>4. disk.goga
      BY <3>2 DEF ModeInv, HasSkip
    <3>5. Settled
      BY <3>1, <3>2, <3>3, <3>4 DEF Settled
    <3>. QED
      BY <2>1, <3>5, SettledStays DEF EndInv
  <2>. QED
    BY <2>2, <2>3
<1>7. CASE UNCHANGED vars
  <2>1. UNCHANGED <<disk, pc, mode, code>>
    BY <1>7 DEF vars
  <2>. QED
    BY <2>1, SettledStays DEF EndInv, Ended
<1>. QED
  BY <1>2, <1>3, <1>4, <1>5, <1>6, <1>7 DEF Next

(* No step of a repeat changes the project.                                *)
LEMMA RepeatStep ==
  ASSUME TypeOK, IInv, ModeInv, StageInv, EndInv, RepeatInv, [Next]_vars
  PROVE  RepeatInv'
<1>0. /\ Shape /\ disk \in Disk /\ mode \in {"bare", "template", "upgrade"}
  BY DEF TypeOK, IInv
<1>1. ASSUME repeat' => repeat /\ UNCHANGED <<disk, before, mode>>,
             pc # "idle", pc' = "idle" \/ pc' = "done" \/ pc # "done"
      PROVE  RepeatInv'
  BY <1>1, SettledStays DEF RepeatInv
<1>2. CASE Invoke
  <2>1. UNCHANGED <<disk, repeat>> /\ before' = disk
    BY <1>2 DEF Invoke
  <2>2. repeat => disk.goga /\ Settled
    BY DEF RepeatInv, Settled
  <2>3. repeat => pc' \in {"idle", "done"} \/ mode' # "bare"
    BY <1>2, <2>2, InvokeCases
  <2>. QED
    BY <2>1, <2>2, <2>3, SettledStays DEF RepeatInv
<1>3. CASE \/ Upgrade \/ Session \/ AnotherSpec \/ NoMoreSpecs \/ Contribute \/ AbandonSurvey
           \/ Copied \/ CheckDockerfile \/ StepRefused
  <2>1. /\ UNCHANGED <<disk, before, mode, repeat>> /\ pc \notin {"idle", "done"}
    BY <1>3 DEF Upgrade, Session, AnotherSpec, NoMoreSpecs, Contribute, AbandonSurvey, Copied,
       CheckDockerfile, StepRefused, Steps
  <2>. QED
    BY <1>1, <2>1
<1>4. CASE Scaffold
  <2>1. UNCHANGED <<before, mode>> /\ pc = "scaffold"
    BY <1>4 DEF Scaffold
  <2>2. repeat' = (repeat /\ disk' = disk) \/ UNCHANGED <<disk, repeat>>
    BY <1>4 DEF Scaffold
  <2>3. repeat' => repeat /\ disk' = disk
    <3>1. CASE repeat' = (repeat /\ disk' = disk)
      BY <3>1, Zenon
    <3>2. CASE UNCHANGED <<disk, repeat>>
      BY <3>2
    <3>. QED
      BY <2>2, <3>1, <3>2
  <2>. QED
    BY <1>1, <2>1, <2>3
<1>5. CASE Generate
  <2>1. UNCHANGED repeat /\ pc = "generate"
    BY <1>5 DEF Generate
  <2>2. ~repeat
    BY <2>1 DEF RepeatInv, Settled, HasSkip, ModeInv
  <2>. QED
    BY <2>1, <2>2 DEF RepeatInv
<1>6. CASE CopyNext
  <2>1. UNCHANGED <<before, mode, repeat>> /\ pc = "copy" /\ Stems[next] \in StemSet
    BY <1>0, <1>6, BootstrapAssumption DEF CopyNext, StemSet, Shape
  <2>2. repeat => mode = "template" /\ disk.usage[Stems[next]] # "none"
    BY <1>0, <2>1 DEF RepeatInv, Settled, IInv, Unscaffolded
  <2>3. repeat => disk' = disk
    BY <1>6, <2>2 DEF CopyNext, Copies
  <2>. QED
    BY <1>1, <2>1, <2>3
<1>7. CASE Document
  <2>1. UNCHANGED <<before, mode, repeat>> /\ pc = "document"
    BY <1>7 DEF Document
  <2>2. repeat => disk' = disk
    BY <1>7, Documented DEF RepeatInv, Settled
  <2>. QED
    BY <1>1, <2>1, <2>2
<1>8. CASE Slot
  <2>1. UNCHANGED <<before, mode, repeat>> /\ pc = "slot"
    BY <1>8 DEF Slot
  <2>2. repeat => disk' = disk
    BY <1>8 DEF Slot, Occupies, RepeatInv, Settled
  <2>. QED
    BY <1>1, <2>1, <2>2
<1>9. CASE EnsureReviewSkip
  <2>1. UNCHANGED <<before, mode, repeat>> /\ pc = "skip"
    BY <1>9 DEF EnsureReviewSkip
  <2>2. repeat => disk' = disk
    BY <1>9, Skipped DEF RepeatInv, Settled
  <2>. QED
    BY <1>1, <2>1, <2>2
<1>10. CASE InstallPybuggy
  <2>1. UNCHANGED <<before, mode, repeat>> /\ pc = "install"
    BY <1>10 DEF InstallPybuggy
  <2>2. repeat => disk' = disk
    BY <1>10, Installed DEF RepeatInv, Settled
  <2>. QED
    BY <1>1, <2>1, <2>2
<1>11. CASE RegisterUsages
  <2>1. UNCHANGED <<before, mode, repeat>> /\ pc = "usages"
    BY <1>11 DEF RegisterUsages
  <2>2. repeat => disk' = disk
    BY <1>11, UsagesRegistered DEF RepeatInv, Settled, HasSkip
  <2>. QED
    BY <1>1, <2>1, <2>2
<1>12. CASE RegisterAnnotations
  <2>1. UNCHANGED <<before, mode, repeat>> /\ pc = "annotations"
    BY <1>12 DEF RegisterAnnotations
  <2>2. repeat => disk' = disk
    BY <1>12, NotesRegistered DEF RepeatInv, Settled, HasSkip
  <2>. QED
    BY <1>1, <2>1, <2>2
<1>13. CASE GateConftest
  <2>1. UNCHANGED <<before, mode, repeat>> /\ pc = "gate"
    BY <1>13 DEF GateConftest
  <2>2. repeat => disk' = disk
    BY <1>13 DEF GateConftest, RepeatInv, Settled
  <2>. QED
    BY <1>1, <2>1, <2>2
<1>14. CASE StepFails \/ UserEdits
  <2>1. repeat' = FALSE
    BY <1>14 DEF StepFails, UserEdits
  <2>. QED
    BY <2>1 DEF RepeatInv
<1>15. CASE Leave
  <2>1. /\ UNCHANGED disk /\ pc = "done" /\ pc' = "idle"
        /\ repeat' => code = 0 /\ mode # "upgrade"
    BY <1>15 DEF Leave
  <2>2. repeat' => Settled
    BY <1>0, <2>1 DEF EndInv, Ended
  <2>. QED
    BY <2>1, <2>2, SettledStays DEF RepeatInv
<1>16. CASE UNCHANGED vars
  <2>1. UNCHANGED <<disk, before, mode, repeat, pc>>
    BY <1>16 DEF vars
  <2>. QED
    BY <2>1, SettledStays DEF RepeatInv
<1>. QED
  BY <1>2, <1>3, <1>4, <1>5, <1>6, <1>7, <1>8, <1>9, <1>10, <1>11, <1>12, <1>13, <1>14, <1>15,
     <1>16 DEF Next

CompleteInv == TypeOK /\ IInv /\ ModeInv /\ StageInv /\ EndInv /\ RepeatInv

LEMMA CompleteInvariant == Spec => []CompleteInv
<1>1. Init => ModeInv /\ StageInv /\ EndInv /\ RepeatInv
  <2>1. ASSUME Init PROVE ModeInv /\ StageInv /\ EndInv /\ RepeatInv
    <3>1. pc = "idle" /\ repeat = FALSE
      BY <2>1 DEF Init
    <3>2. disk.config = NoConfig
      BY <2>1 DEF Init, Fresh
    <3>3. NoConfig.form = "none"
      BY DEF NoConfig, Blank
    <3>. QED
      BY <3>1, <3>2, <3>3, AfterSets DEF ModeInv, StageInv, EndInv, Ended, RepeatInv, Afters
  <2>. QED
    BY <2>1
<1>2. TypeOK /\ IInv /\ (ModeInv /\ StageInv /\ EndInv /\ RepeatInv) /\ [Next]_vars
        => (ModeInv /\ StageInv /\ EndInv /\ RepeatInv)'
  <2>1. ASSUME TypeOK, IInv, ModeInv, StageInv, EndInv, RepeatInv, [Next]_vars
        PROVE  ModeInv' /\ StageInv' /\ EndInv' /\ RepeatInv'
    BY <2>1, ModeStep, StageStep, EndStep, RepeatStep
  <2>. QED
    BY <2>1
<1>3. CompleteInv <=> TypeOK /\ IInv /\ (ModeInv /\ StageInv /\ EndInv /\ RepeatInv)
  BY DEF CompleteInv
<1>. QED
  BY <1>1, <1>2, <1>3, TypeInvariant, BootstrapInvariant, PTL DEF Spec

(* A run over the outcome of a successful one ends with the project it     *)
(* began with, in every mode and with any template: every step is          *)
(* idempotent.                                                             *)
THEOREM RepeatsChangeNothing == Spec => []RepeatChangesNothing
<1>1. CompleteInv => RepeatChangesNothing
  BY DEF CompleteInv, RepeatInv, RepeatChangesNothing, Ended
<1>. QED
  BY <1>1, CompleteInvariant, PTL

(* Every Dockerfile of a template installs pybuggy at most once.           *)
OneInstallLine == \A t \in Templates, p \in Paths : Len(t.docker[p].lines) <= 1
OneLine        == \A p \in Paths : Len(disk.docker[p].lines) <= 1

LEMMA OneLineStep ==
  ASSUME OneInstallLine, TypeOK, IInv, OneLine, [Next]_vars
  PROVE  OneLine'
<1>0. /\ disk \in Disk /\ Shape /\ ResolvePath \in Paths /\ Default \in Paths
      /\ \A p \in Paths : disk.docker[p] \in Docker
  BY PathTyped, BootstrapAssumption DEF TypeOK, IInv, Disk
<1>1. ASSUME disk'.docker = disk.docker PROVE OneLine'
  BY <1>1 DEF OneLine
<1>2. ASSUME NEW p \in Paths, NEW lines, disk' = [disk EXCEPT !.docker[p].lines = lines],
             Len(lines) <= 1
      PROVE  OneLine'
  <2>1. disk'.docker = [disk.docker EXCEPT ![p].lines = lines]
    BY <1>0, <1>2 DEF Shape
  <2>2. \A q \in Paths : disk'.docker[q].lines = IF q = p THEN lines ELSE disk.docker[q].lines
    BY <1>0, <2>1 DEF Disk, Docker
  <2>. QED
    BY <1>2, <2>2 DEF OneLine
<1>3. CASE \/ Invoke \/ Upgrade \/ Session \/ AnotherSpec \/ NoMoreSpecs \/ Contribute
           \/ AbandonSurvey \/ Copied \/ CheckDockerfile \/ StepRefused \/ Leave
           \/ UNCHANGED vars
  <2>1. UNCHANGED disk
    BY <1>3 DEF Invoke, Upgrade, Session, AnotherSpec, NoMoreSpecs, Contribute,
       AbandonSurvey, Copied, CheckDockerfile, StepRefused, Leave, vars
  <2>. QED
    BY <1>1, <2>1
<1>4. CASE \/ CopyNext \/ Document \/ Slot \/ EnsureReviewSkip \/ RegisterUsages
           \/ RegisterAnnotations \/ GateConftest
  <2>1. disk'.docker = disk.docker
    BY <1>0, <1>4 DEF CopyNext, Document, Slot, EnsureReviewSkip, RegisterUsages,
       RegisterAnnotations, GateConftest, Shape
  <2>. QED
    BY <1>1, <2>1
<1>5. CASE Scaffold
  <2>1. CASE UNCHANGED disk
    BY <1>1, <2>1
  <2>2. ASSUME NEW t \in Templates, disk' = Scaffolded(t) PROVE OneLine'
    <3>1. disk'.docker = [p \in Paths |-> IF disk.docker[p].here THEN disk.docker[p] ELSE t.docker[p]]
      BY <2>2 DEF Scaffolded
    <3>. QED
      BY <3>1 DEF OneLine, OneInstallLine
  <2>. QED
    BY <1>5, <2>1, <2>2 DEF Scaffold
<1>6. CASE Generate
  <2>1. PICK h : disk'.docker = [disk.docker EXCEPT ![Default].here = h]
    BY <1>0, <1>6 DEF Generate, Shape
  <2>2. \A q \in Paths : disk'.docker[q].lines = disk.docker[q].lines
    BY <1>0, <2>1 DEF Disk, Docker
  <2>. QED
    BY <2>2 DEF OneLine
<1>7. CASE InstallPybuggy
  <2>. DEFINE p == ResolvePath
              lines == disk.docker[p].lines
  <2>1. p \in Paths /\ lines \in Seq({"old", "current"}) /\ Len(lines) <= 1
    BY <1>0 DEF Docker, OneLine
  <2>2. Len(InstalledLines(lines)) <= 1
    <3>. HIDE DEF p, lines
    <3>1. Len(InstalledLines(lines)) = 1 \/ Len(InstalledLines(lines)) = Len(lines)
      BY <2>1, InstalledTyped
    <3>. DEFINE a == Len(InstalledLines(lines))
                b == Len(lines)
    <3>2. b <= 1 /\ (a = 1 \/ a = b)
      BY <2>1, <3>1
    <3>. HIDE DEF a, b
    <3>3. a <= 1
      BY <3>2
    <3>. QED
      BY <3>3 DEF a
  <2>3. disk' = disk \/ disk' = [disk EXCEPT !.docker[p].lines = InstalledLines(lines)]
    BY <1>7 DEF InstallPybuggy
  <2>. HIDE DEF p
  <2>. QED
    BY <1>1, <1>2, <2>1, <2>2, <2>3
<1>8. CASE StepFails
  <2>1. \/ disk'.docker = disk.docker
        \/ disk' = [disk EXCEPT !.docker[ResolvePath].lines = <<>>]
    <3>1. \/ UNCHANGED disk
          \/ \E f \in {"empty", "broken"} :
               disk' = [disk EXCEPT !.config = [Blank EXCEPT !.form = f], !.goga = TRUE]
          \/ disk' = [disk EXCEPT !.usage[Stems[next]] = "torn", !.goga = TRUE]
          \/ disk' = [disk EXCEPT !.slot = "torn", !.goga = TRUE]
          \/ \E f \in {"empty", "broken"} : disk' = [disk EXCEPT !.tool = [NoTool EXCEPT !.form = f]]
          \/ disk' = [disk EXCEPT !.docker[ResolvePath].lines = <<>>]
          \/ disk' = [disk EXCEPT !.conftest = "torn"]
      BY <1>8 DEF StepFails, TornBy
    <3>. QED
      BY <1>0, <3>1 DEF Shape
  <2>2. Len(<<>>) <= 1
    OBVIOUS
  <2>. QED
    BY <1>0, <1>1, <1>2, <2>1, <2>2
<1>9. CASE UserEdits
  <2>1. CASE \E v : disk' = [disk EXCEPT !.tool.active = v]
    <3>1. disk'.docker = disk.docker
      BY <1>0, <2>1 DEF Shape
    <3>. QED
      BY <1>1, <3>1
  <2>2. CASE disk' = [disk EXCEPT !.goga = FALSE, !.usage = Fresh.usage, !.slot = "none",
                             !.config = NoConfig, !.tool = NoTool,
                             !.docker[Default] = NoDocker]
    <3>1. disk'.docker = [disk.docker EXCEPT ![Default] = NoDocker]
      BY <1>0, <2>2 DEF Shape
    <3>2. Len(NoDocker.lines) <= 1
      BY DEF NoDocker
    <3>3. \A q \in Paths : disk'.docker[q] = IF q = Default THEN NoDocker ELSE disk.docker[q]
      BY <1>0, <3>1 DEF Disk
    <3>. QED
      BY <3>2, <3>3 DEF OneLine
  <2>. QED
    BY <1>9, <2>1, <2>2 DEF UserEdits
<1>. QED
  BY <1>3, <1>4, <1>5, <1>6, <1>7, <1>8, <1>9 DEF Next

(* A run that goes on or has succeeded has cut no file short, and bare mode*)
(* delivers every usage.                                                   *)
GoesOn == pc # "idle" /\ (pc = "done" => code = 0)
Delivers(d) ==
  /\ StaysTorn(before.slot, d.slot) /\ StaysTorn(before.conftest, d.conftest)
  /\ \A s \in StemSet : StaysTorn(before.usage[s], d.usage[s])
CutInv ==
  /\ GoesOn => Delivers(disk)
  /\ pc = "copy" /\ mode = "bare" =>
       \A i \in 1..Len(Stems) : i < next => disk.usage[Stems[i]] = "packaged"
  /\ (pc \in AfterCopy \/ Ended(0)) /\ mode = "bare" =>
       \A s \in StemSet : disk.usage[s] = "packaged"

LEMMA CutStep ==
  ASSUME TypeOK, IInv, ModeInv, CutInv, [Next]_vars
  PROVE  CutInv'
<1>0. /\ Shape /\ disk \in Disk /\ next \in Nat \ {0} /\ Afters
      /\ Steps = {"copy", "document", "slot", "skip", "install", "usages", "annotations", "gate",
                  "check"}
  BY AfterSets DEF TypeOK, IInv, Steps
<1>1. ASSUME pc' = "idle" \/ (pc' = "done" /\ code' # 0) PROVE CutInv'
  BY <1>0, <1>1 DEF CutInv, GoesOn, Ended, Afters
<1>2. ASSUME GoesOn, before' = before, disk'.usage = disk.usage,
             disk'.slot \in {disk.slot, "packaged"}, disk'.conftest \in {disk.conftest, "packaged"}
      PROVE  Delivers(disk)'
  BY <1>2 DEF CutInv, Delivers, StaysTorn
<1>3. ASSUME Delivers(disk)', pc' \notin Steps, pc' # "done" PROVE CutInv'
  BY <1>0, <1>3 DEF CutInv, Ended, Afters
<1>4. ASSUME Delivers(disk)', pc' = "copy", next' = 1 PROVE CutInv'
  BY <1>0, <1>4 DEF CutInv, Ended, Afters
<1>5. CASE Invoke
  <2>1. disk' = disk /\ before' = disk
    BY <1>5 DEF Invoke
  <2>2. Delivers(disk)'
    BY <2>1 DEF Delivers, StaysTorn
  <2>3. pc' = "done" => code' # 0
    BY <1>5 DEF Invoke, Exit
  <2>4. pc' \notin Steps
    BY <1>0, <1>5, InvokeCases
  <2>. QED
    BY <1>1, <1>3, <2>2, <2>3, <2>4
<1>6. CASE Upgrade
  <2>1. mode' = "upgrade" /\ disk' = disk /\ before' = before /\ pc' = "done" /\ pc = "upgrade"
    BY <1>6 DEF Upgrade, ModeInv, Exit
  <2>2. Delivers(disk)'
    BY <1>2, <2>1 DEF GoesOn
  <2>. QED
    BY <2>1, <2>2 DEF CutInv
<1>7. CASE Scaffold
  <2>1. CASE pc' = "done"
    BY <1>1, <1>7, <2>1 DEF Scaffold, Exit
  <2>2. ASSUME NEW t \in Templates, disk' = Scaffolded(t), pc' = "session"
        PROVE  CutInv'
    <3>1. /\ t \in Disk /\ \A s \in StemSet : t.usage[s] # "torn"
          /\ t.slot # "torn" /\ t.conftest # "torn"
      BY BootstrapAssumption
    <3>2. /\ disk'.usage = [s \in StemSet |-> IF disk.usage[s] = "none" THEN t.usage[s]
                                               ELSE disk.usage[s]]
          /\ disk'.slot = IF disk.slot = "none" THEN t.slot ELSE disk.slot
          /\ disk'.conftest = IF disk.conftest = "none" THEN t.conftest ELSE disk.conftest
      BY <2>2 DEF Scaffolded
    <3>3. Delivers(disk) /\ before' = before
      BY <1>7 DEF CutInv, GoesOn, Scaffold
    <3>4. Delivers(disk)'
      BY <3>1, <3>2, <3>3 DEF Delivers, StaysTorn
    <3>. QED
      BY <1>0, <1>3, <2>2, <3>4
  <2>. QED
    BY <1>7, <2>1, <2>2 DEF Scaffold, Exit
<1>8. CASE Session \/ AnotherSpec \/ NoMoreSpecs \/ Contribute \/ AbandonSurvey \/ Generate
  <2>. DEFINE Onward == /\ before' = before /\ disk'.usage = disk.usage /\ disk'.slot = disk.slot
                        /\ disk'.conftest = disk.conftest /\ GoesOn
                        /\ \/ pc' = "done" /\ code' # 0
                           \/ pc' \in {"specs", "autonomy", "generate"}
                           \/ pc' = "copy" /\ next' = 1
  <2>1. Onward
    <3>1. CASE Session
      BY <3>1 DEF Session, Exit, GoesOn
    <3>2. CASE AnotherSpec \/ NoMoreSpecs \/ Contribute \/ AbandonSurvey
      BY <3>2 DEF AnotherSpec, NoMoreSpecs, Contribute, AbandonSurvey, GoesOn
    <3>3. CASE Generate
      BY <1>0, <3>3 DEF Generate, GoesOn, Shape
    <3>. QED
      BY <1>8, <3>1, <3>2, <3>3
  <2>2. Delivers(disk)'
    BY <1>2, <2>1
  <2>. QED
    BY <1>0, <1>1, <1>3, <1>4, <2>1, <2>2
<1>9. CASE CopyNext
  <2>1. /\ pc = "copy" /\ pc' = "copy" /\ next \in 1..Len(Stems) /\ next' = next + 1
        /\ before' = before /\ mode' = mode /\ GoesOn
    BY <1>0, <1>9, BootstrapAssumption DEF CopyNext, GoesOn
  <2>2. CASE disk' = [disk EXCEPT !.usage[Stems[next]] = "packaged", !.goga = TRUE]
    <3>1. disk'.usage = [disk.usage EXCEPT ![Stems[next]] = "packaged"]
          /\ disk'.slot = disk.slot /\ disk'.conftest = disk.conftest
      BY <1>0, <2>2 DEF Shape
    <3>2. \A i \in 1..Len(Stems) : Stems[i] \in StemSet
      BY BootstrapAssumption DEF StemSet
    <3>3. mode = "bare" => \A i \in 1..Len(Stems) : i < next + 1 => disk'.usage[Stems[i]] = "packaged"
      BY <1>0, <2>1, <3>1, <3>2, BootstrapAssumption DEF CutInv, Shape
    <3>4. \A s \in StemSet : disk'.usage[s] \in {disk.usage[s], "packaged"}
      BY <1>0, <3>1 DEF Shape
    <3>5. Delivers(disk)'
      BY <2>1, <3>1, <3>4 DEF CutInv, Delivers, StaysTorn
    <3>. QED
      BY <1>0, <2>1, <3>3, <3>5 DEF CutInv, Ended, Afters
  <2>3. CASE ~Copies(Stems[next]) /\ disk' = disk
    <3>1. mode # "bare"
      BY <2>3 DEF Copies
    <3>2. Delivers(disk)'
      BY <1>2, <2>1, <2>3
    <3>. QED
      BY <2>1, <3>1, <3>2 DEF CutInv
  <2>. QED
    BY <1>9, <2>2, <2>3 DEF CopyNext
<1>10. CASE Copied
  <2>1. /\ pc = "copy" /\ pc' = "document" /\ disk' = disk /\ next > Len(Stems)
        /\ before' = before /\ mode' = mode /\ GoesOn
    BY <1>10 DEF Copied, GoesOn
  <2>2. ASSUME NEW s \in StemSet, mode = "bare" PROVE disk.usage[s] = "packaged"
    <3>1. PICK i \in 1..Len(Stems) : s = Stems[i]
      BY <2>2, BootstrapAssumption DEF StemSet
    <3>. QED
      BY <1>0, <2>1, <2>2, <3>1, BootstrapAssumption DEF CutInv
  <2>3. Delivers(disk)'
    BY <1>2, <2>1
  <2>. QED
    BY <2>1, <2>2, <2>3 DEF CutInv
<1>11. CASE \/ Document \/ Slot \/ EnsureReviewSkip \/ InstallPybuggy \/ RegisterUsages
            \/ RegisterAnnotations \/ GateConftest \/ CheckDockerfile
  <2>1. /\ pc \in AfterCopy /\ pc' \in AfterCopy \cup {"done"} /\ mode' = mode /\ before' = before
        /\ GoesOn /\ (pc' = "done" => CheckDockerfile)
    BY <1>0, <1>11 DEF Document, Slot, EnsureReviewSkip, InstallPybuggy, RegisterUsages,
       RegisterAnnotations, GateConftest, CheckDockerfile, Exit, GoesOn, Afters
  <2>2. /\ disk'.usage = disk.usage /\ disk'.slot \in {disk.slot, "packaged"}
        /\ disk'.conftest \in {disk.conftest, "packaged"}
    <3>1. CASE Document \/ EnsureReviewSkip \/ InstallPybuggy \/ CheckDockerfile
      BY <1>0, <3>1 DEF Document, EnsureReviewSkip, InstallPybuggy, CheckDockerfile, Shape
    <3>2. CASE Slot \/ RegisterUsages \/ RegisterAnnotations \/ GateConftest
      BY <1>0, <3>2 DEF Slot, RegisterUsages, RegisterAnnotations, GateConftest, Shape
    <3>. QED
      BY <1>11, <3>1, <3>2
  <2>3. Delivers(disk)'
    BY <1>2, <2>1, <2>2
  <2>4. mode = "bare" => \A s \in StemSet : disk'.usage[s] = "packaged"
    BY <2>1, <2>2 DEF CutInv
  <2>. QED
    BY <1>0, <2>1, <2>3, <2>4 DEF CutInv, Ended, Afters
<1>12. CASE StepRefused \/ StepFails \/ Leave \/ UserEdits
  <2>1. pc' = "idle" \/ (pc' = "done" /\ code' # 0)
    BY <1>12 DEF StepRefused, StepFails, Leave, UserEdits, Exit
  <2>. QED
    BY <1>1, <2>1
<1>13. CASE UNCHANGED vars
  BY <1>13 DEF vars, CutInv, GoesOn, Delivers, Ended
<1>. QED
  BY <1>5, <1>6, <1>7, <1>8, <1>9, <1>10, <1>11, <1>12, <1>13 DEF Next

LEMMA CompleteEnd ==
  ASSUME CompleteInv, OneLine, CutInv
  PROVE  SuccessIsComplete
<1>0. SUFFICES ASSUME Ended(0)
               PROVE  /\ \A s \in StemSet :
                           /\ disk.usage[s] # "none"
                           /\ StaysTorn(before.usage[s], disk.usage[s])
                           /\ mode = "bare" => disk.usage[s] = "packaged"
                      /\ disk.slot # "none" /\ StaysTorn(before.slot, disk.slot)
                      /\ disk.conftest # "none" /\ StaysTorn(before.conftest, disk.conftest)
                      /\ Documents = {}
                      /\ disk.config.form = "map" /\ disk.config.skip
                      /\ \A k \in KeySet :
                           /\ disk.config.usages[k] # "none"
                           /\ \E i \in DOMAIN disk.config.notes : k \in disk.config.notes[i].refs
                      /\ disk.docker[ResolvePath] = [here |-> TRUE, lines |-> <<"current">>]
  BY DEF SuccessIsComplete
<1>1. Settled
  BY <1>0 DEF CompleteInv, EndInv
<1>2. \A k \in KeySet : \E i \in DOMAIN disk.config.notes : k \in disk.config.notes[i].refs
  <2>1. ASSUME NEW k \in KeySet
        PROVE  \E i \in DOMAIN disk.config.notes : k \in disk.config.notes[i].refs
    <3>1. PICK i \in DOMAIN disk.config.notes : disk.config.notes[i] = NoteOf(k)
      BY <1>1, <2>1 DEF Settled, HasNotes, Leads
    <3>2. k \in NoteOf(k).refs
      BY DEF NoteOf
    <3>. QED
      BY <3>1, <3>2
  <2>. QED
    BY <2>1
<1>3. disk.docker[ResolvePath] = [here |-> TRUE, lines |-> <<"current">>]
  <2>. DEFINE dk == disk.docker[ResolvePath]
  <2>1. dk \in Docker /\ Len(dk.lines) <= 1
    BY PathTyped DEF CompleteInv, TypeOK, Disk, OneLine
  <2>2. dk.here /\ InstalledLines(dk.lines) = dk.lines
    BY <1>1 DEF Settled, HasInstall, Installs
  <2>3. dk.lines \in Seq({"old", "current"}) /\ dk = [here |-> dk.here, lines |-> dk.lines]
        /\ dk.here \in BOOLEAN
    <3>. HIDE DEF dk
    <3>. QED
      BY <2>1 DEF Docker
  <2>. HIDE DEF dk
  <2>4. dk.lines # <<>> /\ dk.lines[1] = "current"
    BY <2>2, <2>3, InstalledTyped
  <2>5. dk.lines = <<"current">>
    BY <2>1, <2>3, <2>4
  <2>6. dk.here = TRUE
    BY <2>2, <2>3
  <2>. QED
    BY <2>3, <2>5, <2>6 DEF dk
<1>4. Documents = {}
  <2>1. ASSUME NEW m \in Documents PROVE FALSE
    <3>1. m \in Pending /\ m \in disk.tool.documented
      BY <1>1, <2>1 DEF Documents, Settled, HasRecords
    <3>2. m \in MemberSet /\ ~Marked(m)
      BY <3>1 DEF Pending, MemberSet
    <3>. QED
      BY <3>1, <3>2, BootstrapAssumption DEF Marked
  <2>. QED
    BY <2>1
<1>5. /\ \A s \in StemSet : StaysTorn(before.usage[s], disk.usage[s])
                            /\ (mode = "bare" => disk.usage[s] = "packaged")
      /\ StaysTorn(before.slot, disk.slot) /\ StaysTorn(before.conftest, disk.conftest)
  BY <1>0 DEF CutInv, GoesOn, Delivers, Ended
<1>. QED
  BY <1>1, <1>2, <1>3, <1>4, <1>5 DEF Settled, HasSkip, HasKeys

(* A run that ends with 0 has left everything the command promises,        *)
(* whatever earlier runs left half done and whatever the user edited       *)
(* between them, but for the files a template run has found cut short and  *)
(* kept: with one install line in a template's Dockerfile.                 *)
THEOREM SuccessIsAlwaysComplete ==
  ASSUME OneInstallLine
  PROVE  Spec => []SuccessIsComplete
<1>1. Init => OneLine
  <2>1. ASSUME Init PROVE OneLine
    <3>1. disk.docker = [p \in Paths |-> NoDocker]
      BY <2>1 DEF Init, Fresh
    <3>2. Len(NoDocker.lines) <= 1
      BY DEF NoDocker
    <3>. QED
      BY <3>1, <3>2 DEF OneLine
  <2>. QED
    BY <2>1
<1>4. Init => CutInv
  <2>1. ASSUME Init PROVE CutInv
    <3>1. pc = "idle"
      BY <2>1 DEF Init
    <3>. QED
      BY <3>1, AfterSets DEF CutInv, GoesOn, Ended, Afters
  <2>. QED
    BY <2>1
<1>2. CompleteInv /\ OneLine /\ CutInv /\ [Next]_vars => OneLine' /\ CutInv'
  BY OneLineStep, CutStep DEF CompleteInv
<1>3. CompleteInv /\ OneLine /\ CutInv => SuccessIsComplete
  BY CompleteEnd
<1>. QED
  BY <1>1, <1>2, <1>3, <1>4, CompleteInvariant, PTL DEF Spec

LEMMA UserDataStep ==
  ASSUME CompleteInv, [Next]_vars, pc # "idle"
  PROVE  UserFilesStay /\ UserKeysStay
<1>0. /\ TypeOK /\ IInv /\ ModeInv /\ Shape /\ disk \in Disk
      /\ mode \in {"bare", "template", "upgrade"}
  BY DEF CompleteInv, IInv, TypeOK
<1>a. UserUsagesStay
  BY <1>0, UserUsagesStep
<1>1. ASSUME disk'.conftest = disk.conftest, disk'.config = disk.config
      PROVE  UserFilesStay /\ UserKeysStay
  BY <1>1, <1>a DEF UserUsagesStay, UserFilesStay, UserKeysStay, Stays
<1>2. CASE \/ Invoke \/ Upgrade \/ Session \/ AnotherSpec \/ NoMoreSpecs \/ Contribute
           \/ AbandonSurvey \/ Copied \/ CheckDockerfile \/ StepRefused \/ Leave
           \/ UNCHANGED vars
  <2>1. UNCHANGED disk
    BY <1>2 DEF Invoke, Upgrade, Session, AnotherSpec, NoMoreSpecs, Contribute,
       AbandonSurvey, Copied, CheckDockerfile, StepRefused, Leave, vars
  <2>. QED
    BY <1>1, <2>1
<1>3. CASE \/ CopyNext \/ Document \/ Slot \/ InstallPybuggy
  <2>1. disk'.conftest = disk.conftest /\ disk'.config = disk.config
    BY <1>0, <1>3 DEF CopyNext, Document, Slot, InstallPybuggy, Shape
  <2>. QED
    BY <1>1, <2>1
<1>4. CASE Scaffold
  <2>1. CASE UNCHANGED disk
    BY <1>1, <2>1
  <2>2. ASSUME NEW t \in Templates, disk' = Scaffolded(t) PROVE UserFilesStay /\ UserKeysStay
    <3>1. /\ disk'.conftest = IF disk.conftest = "none" THEN t.conftest ELSE disk.conftest
          /\ disk'.config = IF disk.config.form = "none" THEN t.config ELSE disk.config
      BY <2>2 DEF Scaffolded
    <3>. QED
      BY <1>a, <3>1 DEF UserUsagesStay, UserFilesStay, UserKeysStay, Stays
  <2>. QED
    BY <1>4, <2>1, <2>2 DEF Scaffold
<1>5. CASE Generate
  <2>1. disk'.conftest = disk.conftest /\ disk.config.form = "none"
    BY <1>0, <1>5 DEF Generate, Shape, ModeInv
  <2>. QED
    BY <1>a, <2>1 DEF UserUsagesStay, UserFilesStay, UserKeysStay, Stays
<1>6. CASE EnsureReviewSkip
  <2>1. /\ disk'.conftest = disk.conftest
        /\ disk.config.form = "map" =>
             /\ disk'.config.usages = disk.config.usages
             /\ disk'.config.notes = disk.config.notes
             /\ disk'.config.path = disk.config.path
    BY <1>0, <1>6, Skipped
  <2>. QED
    BY <1>a, <2>1 DEF UserUsagesStay, UserFilesStay, UserKeysStay, Stays
<1>7. CASE RegisterUsages
  <2>1. /\ disk'.conftest = disk.conftest
        /\ disk.config.form = "map" =>
             /\ UNCHANGED <<disk.config.path, disk.config.notes>>
             /\ \A k \in KeySet : Stays(disk.config.usages[k], disk'.config.usages[k])
    BY <1>0, <1>7, UsagesRegistered
  <2>. QED
    BY <1>a, <2>1 DEF UserUsagesStay, UserFilesStay, UserKeysStay, Stays
<1>8. CASE RegisterAnnotations
  <2>1. /\ disk'.conftest = disk.conftest
        /\ disk.config.form = "map" =>
             /\ UNCHANGED <<disk.config.path, disk.config.usages>>
             /\ Unrelated(disk'.config.notes) = Unrelated(disk.config.notes)
    BY <1>0, <1>8, NotesRegistered
  <2>. QED
    BY <1>a, <2>1 DEF UserUsagesStay, UserFilesStay, UserKeysStay, Stays
<1>9. CASE GateConftest
  <2>1. disk'.config = disk.config /\ (mode = "template" => Stays(disk.conftest, disk'.conftest))
    BY <1>0, <1>9 DEF GateConftest, Shape, Stays
  <2>. QED
    BY <1>a, <2>1 DEF UserUsagesStay, UserFilesStay, UserKeysStay, Stays
<1>10. CASE StepFails
  <2>1. /\ disk'.config = disk.config \/ disk'.config.form # "map"
        /\ mode = "template" => Stays(disk.conftest, disk'.conftest)
    BY <1>0, <1>10, Torn
  <2>. QED
    BY <1>a, <2>1 DEF UserUsagesStay, UserFilesStay, UserKeysStay, Stays
<1>11. CASE UserEdits
  BY <1>11 DEF UserEdits
<1>. QED
  BY <1>2, <1>3, <1>4, <1>5, <1>6, <1>7, <1>8, <1>9, <1>10, <1>11 DEF Next

(* While the command runs nothing of the user's is lost: the files, unless *)
(* bare mode was told to overwrite the conftest, and in a config that can  *)
(* still be read the keys, the Dockerfile's path and, each in its place,   *)
(* the lines that are none of pybuggy's.                                   *)
THEOREM UserDataAlwaysKept == Spec => UserDataKept
<1>1. CompleteInv /\ [Next]_vars => [pc # "idle" => UserFilesStay /\ UserKeysStay]_vars
  BY UserDataStep
<1>. QED
  BY <1>1, CompleteInvariant, PTL DEF Spec, UserDataKept
=============================================================================
