--------------------------- MODULE ArtifactsProofs ---------------------------
(***************************************************************************)
(* Proofs about Artifacts, for every project, every specification and any  *)
(* number of runs, failures, edits and moves of the repositories: the state*)
(* is well typed, a module is always importable, what is reported on has a *)
(* module, a run that is not forced leaves every file it finds, one that   *)
(* succeeds is complete, one that is forced leaves what the specification  *)
(* says, and list can read what no write has failed in.                    *)
(***************************************************************************)
EXTENDS Artifacts, TLAPS, WellFoundedInduction

Busy == {"next", "pull"} \cup Writing

LEMMA FileFacts ==
  /\ NoFile \in File /\ Torn \in File /\ Edited \in File /\ NoFile # Torn /\ NoFile # Edited
  /\ \A e \in Endpoint : /\ Rendered(e) \in File /\ Rendered(e) # NoFile
BY ArtifactsAssumption DEF NoFile, Torn, Edited, File, Endpoint, Rendered

LEMMA PutFacts ==
  ASSUME NEW old \in File, NEW new \in File, new # NoFile
  PROVE  Put(old, new) \in File /\ Put(old, new) # NoFile
BY DEF Put, Overwrites

LEMMA NoArtifactType == NoArtifact \in Artifact
<1>1. [s \in Statuses |-> NoFile] \in [Statuses -> File]
  BY FileFacts
<1>. QED
  BY <1>1, FileFacts DEF NoArtifact, Artifact

(* Where a command is: the name, and the operations of its file.           *)
ChosenBy(c) == IF c.spec = "all" THEN Names ELSE <<c.spec>>

LEMMA ChoiceFacts ==
  ASSUME NEW c \in Command, c.spec # "unknown", NEW l \in [NameSet -> Document]
  PROVE  /\ ChosenBy(c) \in Seq(NameSet) /\ Len(ChosenBy(c)) \in Nat
         /\ DOMAIN ChosenBy(c) = 1..Len(ChosenBy(c))
         /\ \A k \in DOMAIN ChosenBy(c) :
              /\ ChosenBy(c)[k] \in NameSet /\ l[ChosenBy(c)[k]].ops \in Seq(Endpoint)
              /\ Len(l[ChosenBy(c)[k]].ops) \in Nat
<1>1. c.spec \in NameSet \cup {"all"}
  BY DEF Command
<1>. HIDE DEF NameSet
<1>2. ChosenBy(c) \in Seq(NameSet)
  BY <1>1, ArtifactsAssumption DEF ChosenBy
<1>3. \A n \in NameSet : l[n].ops \in Seq(Endpoint)
  BY DEF Document
<1>4. \A q \in Seq(Endpoint) : Len(q) \in Nat
  OBVIOUS
<1>5. \A k \in DOMAIN ChosenBy(c) : ChosenBy(c)[k] \in NameSet
  BY <1>2
<1>6. Len(ChosenBy(c)) \in Nat /\ DOMAIN ChosenBy(c) = 1..Len(ChosenBy(c))
  BY <1>2
<1>. QED
  BY <1>2, <1>3, <1>4, <1>5, <1>6

LEMMA NameFacts ==
  ASSUME TypeOK, pc \in Busy
  PROVE  /\ Chosen \in Seq(NameSet) /\ Len(Chosen) \in Nat /\ spec \in 1..Len(Chosen)
         /\ Name \in NameSet /\ SpecSegOf[Name] \in SpecSegs
         /\ Ops_ \in Seq(Endpoint) /\ Len(Ops_) \in Nat
<1>1. /\ cmd.spec # "unknown" /\ spec \in DOMAIN Chosen /\ cmd \in Command
      /\ local \in [NameSet -> Document] /\ Chosen = ChosenBy(cmd)
  BY DEF TypeOK, Busy, Chosen, ChosenBy
<1>. HIDE DEF NameSet
<1>2. /\ Chosen \in Seq(NameSet) /\ Len(Chosen) \in Nat /\ spec \in 1..Len(Chosen)
      /\ Name \in NameSet /\ Ops_ \in Seq(Endpoint) /\ Len(Ops_) \in Nat
  BY <1>1, ChoiceFacts DEF Name, Ops_
<1>. QED
  BY <1>2, ArtifactsAssumption

(* The last option for a specification, or for all of them.                *)
LastOption(m, r, refs) ==
  \E i \in DOMAIN refs : /\ refs[i] = [spec |-> m, ref |-> r]
                         /\ \A k \in DOMAIN refs : refs[k].spec = m => k <= i

LEMMA LastFacts ==
  ASSUME NEW refs \in Seq(Option), NEW m, Given(m, refs)
  PROVE  LastRef(m, refs) \in Refs /\ LastOption(m, LastRef(m, refs), refs)
<1>. DEFINE Fits(i) == refs[i].spec = m
            D == DOMAIN refs
            T == {Len(refs) - i : i \in {k \in D : Fits(k)}}
<1>1. Len(refs) \in Nat /\ D = 1..Len(refs) /\ T \subseteq Nat /\ T # {}
  BY DEF Given
<1>2. PICK x \in T : \A y \in T : ~(y < x)
  <2>. DEFINE R == OpToRel(<, Nat)
  <2>1. IsWellFoundedOn(R, Nat)
    BY NatLessThanWellFounded
  <2>. HIDE DEF T, R
  <2>2. PICK x \in T : \A y \in T : ~(<<y, x>> \in R)
    BY <1>1, <2>1, WFMin
  <2>3. \A y \in T : y < x => <<y, x>> \in R
    BY <1>1 DEF R, OpToRel
  <2>. QED
    BY <2>2, <2>3
<1>3. PICK i \in D : Fits(i) /\ x = Len(refs) - i
  BY <1>2
<1>4. ASSUME NEW k \in D, Fits(k) PROVE k <= i
  <2>1. Len(refs) - k \in T
    BY <1>4
  <2>2. ~(Len(refs) - k < Len(refs) - i)
    BY <1>2, <1>3, <2>1
  <2>. HIDE DEF T, Fits
  <2>. QED
    BY <1>1, <2>2
<1>5. PICK k \in D : /\ Fits(k) /\ LastRef(m, refs) = refs[k].ref
                    /\ \A l \in D : refs[l].spec = m => l <= k
  BY <1>3, <1>4 DEF LastRef
<1>6. refs[k] \in Option
  <2>. HIDE DEF Option
  <2>. QED
    BY <1>5
<1>7. refs[k] = [spec |-> m, ref |-> LastRef(m, refs)]
  BY <1>5, <1>6 DEF Option
<1>. QED
  BY <1>5, <1>6, <1>7 DEF Option, LastOption

(* The ref a clone checks out.                                             *)
LEMMA RefFacts ==
  ASSUME NEW n \in Git, NEW refs \in Seq(Option)
  PROVE  EffectiveRef(n, refs) \in Refs
<1>1. CfgRef[n] \in Refs
  BY ArtifactsAssumption
<1>. QED
  BY <1>1, LastFacts DEF EffectiveRef

LEMMA HereFacts ==
  ASSUME TypeOK, pc \in Writing
  PROVE  /\ This \in Endpoint /\ Here \in Places /\ Here[1] = SpecSegOf[Name]
         /\ tree[Here] \in Artifact
         /\ Rendered(This) \in File /\ Rendered(This) # NoFile
<1>1. Ops_ \in Seq(Endpoint) /\ endpoint \in 1..Len(Ops_) /\ SpecSegOf[Name] \in SpecSegs
  BY NameFacts DEF TypeOK, Busy
<1>2. This \in Endpoint
  <2>. HIDE DEF Endpoint, Ops_
  <2>. QED
    BY <1>1 DEF This
<1>3. IdOf[This.op] \in Ids /\ SegOf[IdOf[This.op]] \in {SegOf[x] : x \in Ids}
  BY <1>2, ArtifactsAssumption DEF Endpoint, Ids
<1>4. Here \in Places /\ Here[1] = SpecSegOf[Name]
  BY <1>1, <1>3 DEF Here, Place, Places
<1>. QED
  BY <1>2, <1>4, FileFacts DEF TypeOK

(* What a write may do to an artifact: its type stays, and no file of it   *)
(* goes away or, without --force, changes.                                 *)
Grows(a, b) ==
  /\ a.here => b.here
  /\ a.tests => b.tests
  /\ a.marker => b.marker
  /\ a.api # NoFile => b.api # NoFile
  /\ a.meta # NoFile => b.meta # NoFile
  /\ \A s \in Statuses : a.schemas[s] # NoFile => b.schemas[s] # NoFile
Stays(a, b) ==
  /\ Unchanged(a.api, b.api) /\ Unchanged(a.meta, b.meta)
  /\ \A s \in Statuses : Unchanged(a.schemas[s], b.schemas[s])
Extends(a, b) == b \in Artifact /\ Grows(a, b) /\ (~cmd.force => Stays(a, b))

LEMMA TreeEdits ==
  ASSUME NEW a \in Artifact
  PROVE  /\ Extends(a, [a EXCEPT !.here = TRUE, !.tests = TRUE])
         /\ Extends(a, [a EXCEPT !.here = TRUE])
         /\ Extends(a, [a EXCEPT !.marker = TRUE])
BY DEF Artifact, Extends, Grows, Stays, Unchanged

LEMMA FileEdits ==
  ASSUME NEW a \in Artifact, NEW file \in File, file # NoFile
  PROVE  /\ Extends(a, WithApi(a, file))
         /\ Extends(a, WithMeta(a, file))
         /\ \A s \in Statuses : Extends(a, WithSchema(a, s, file))
<1>. USE DEF Extends, Grows, Stays, Unchanged
<1>1. a = [here |-> a.here, tests |-> a.tests, marker |-> a.marker, schemas |-> a.schemas,
           api |-> a.api, meta |-> a.meta]
      /\ a.here \in BOOLEAN /\ a.tests \in BOOLEAN /\ a.marker \in BOOLEAN
      /\ a.schemas \in [Statuses -> File] /\ a.api \in File /\ a.meta \in File
  BY DEF Artifact
<1>2. /\ Put(a.api, file) \in File /\ Put(a.api, file) # NoFile
      /\ Put(a.meta, file) \in File /\ Put(a.meta, file) # NoFile
  BY <1>1, PutFacts
<1>3. \A old : ~cmd.force => Unchanged(old, Put(old, file))
  BY DEF Put, Overwrites
<1>4. Extends(a, WithApi(a, file))
  <2>1. WithApi(a, file) =
          [here |-> a.here, tests |-> a.tests, marker |-> a.marker, schemas |-> a.schemas,
           api |-> Put(a.api, file), meta |-> a.meta]
    BY <1>1 DEF WithApi, WithMeta
  <2>. QED
    BY <1>1, <1>2, <1>3, <2>1 DEF Artifact
<1>5. Extends(a, WithMeta(a, file))
  <2>1. WithMeta(a, file) =
          [here |-> a.here, tests |-> a.tests, marker |-> a.marker, schemas |-> a.schemas,
           api |-> a.api, meta |-> Put(a.meta, file)]
    BY <1>1 DEF WithApi, WithMeta
  <2>. QED
    BY <1>1, <1>2, <1>3, <2>1 DEF Artifact
<1>6. ASSUME NEW s \in Statuses PROVE Extends(a, WithSchema(a, s, file))
  <2>. DEFINE new == [a.schemas EXCEPT ![s] = Put(a.schemas[s], file)]
  <2>1. Put(a.schemas[s], file) \in File /\ Put(a.schemas[s], file) # NoFile
    BY <1>1, PutFacts
  <2>2. new \in [Statuses -> File]
    BY <1>1, <2>1
  <2>3. \A t \in Statuses : a.schemas[t] # NoFile => new[t] # NoFile
    BY <1>1, <2>1
  <2>4. ~cmd.force => \A t \in Statuses : Unchanged(a.schemas[t], new[t])
    BY <1>1, <1>3
  <2>5. WithSchema(a, s, file) = [here |-> a.here, tests |-> a.tests, marker |-> a.marker,
                                  schemas |-> new, api |-> a.api, meta |-> a.meta]
    BY <1>1 DEF WithSchema
  <2>. HIDE DEF new
  <2>. QED
    BY <1>1, <2>2, <2>3, <2>4, <2>5 DEF Artifact
<1>. QED
  BY <1>4, <1>5, <1>6

(* What a step of a command does to the artifacts.                         *)
Growth ==
  /\ tree' \in [Places -> Artifact]
  /\ \A p \in Places : Grows(tree[p], tree'[p]) /\ (~cmd.force => Stays(tree[p], tree'[p]))
  /\ marks \subseteq marks' /\ marks' \subseteq SpecSegs \cup {"api"}

LEMMA GrowthStep ==
  ASSUME TypeOK, Next, pc # "idle"
  PROVE  Growth
<1>0. /\ tree \in [Places -> Artifact] /\ marks \subseteq SpecSegs \cup {"api"}
      /\ \A p \in Places : tree[p] \in Artifact
  BY DEF TypeOK
<1>1. \A p \in Places : Grows(tree[p], tree[p]) /\ Stays(tree[p], tree[p])
  BY DEF Grows, Stays, Unchanged
<1>2. CASE UNCHANGED <<tree, marks>>
  BY <1>0, <1>1, <1>2 DEF Growth
<1>3. ASSUME pc \in Writing, NEW b, Extends(tree[Here], b), tree' = [tree EXCEPT ![Here] = b],
             marks \subseteq marks', marks' \subseteq SpecSegs \cup {"api"}
      PROVE  Growth
  <2>1. Here \in Places
    BY <1>3, HereFacts
  <2>2. ASSUME NEW p \in Places
        PROVE  Grows(tree[p], tree'[p]) /\ (~cmd.force => Stays(tree[p], tree'[p]))
    <3>1. CASE p = Here
      <4>1. tree'[p] = b
        BY <1>0, <1>3, <2>1, <3>1
      <4>. QED
        BY <1>3, <3>1, <4>1 DEF Extends
    <3>2. CASE p # Here
      <4>1. tree'[p] = tree[p]
        BY <1>0, <1>3, <3>2
      <4>. QED
        BY <1>1, <4>1
    <3>. QED
      BY <3>1, <3>2
  <2>3. tree' \in [Places -> Artifact]
    BY <1>0, <1>3, <2>1 DEF Extends
  <2>. QED
    BY <1>3, <2>2, <2>3 DEF Growth
<1>4. ASSUME pc \in Writing
      PROVE  /\ tree[Here] \in Artifact /\ SpecSegOf[Name] \in SpecSegs
             /\ Rendered(This) \in File /\ Rendered(This) # NoFile
             /\ \A k \in 1..Len(This.statuses) : This.statuses[k] \in Statuses
  <2>1. This.statuses \in Seq(Statuses)
    BY <1>4, HereFacts DEF Endpoint
  <2>2. pc \in Busy
    BY <1>4 DEF Busy
  <2>. QED
    BY <1>4, <2>1, <2>2, HereFacts, NameFacts
<1>5. CASE MakeDirs
  <2>1. pc \in Writing /\ tree' = [tree EXCEPT ![Here] = [tree[Here] EXCEPT !.here = TRUE, !.tests = TRUE]]
        /\ marks' = marks
    BY <1>5 DEF MakeDirs, Writing
  <2>2. Extends(tree[Here], [tree[Here] EXCEPT !.here = TRUE, !.tests = TRUE])
    BY <1>4, <2>1, FileFacts, TreeEdits
  <2>. QED
    BY <1>0, <1>3, <2>1, <2>2
<1>6. CASE WriteMarkers
  <2>1. pc \in Writing /\ tree' = [tree EXCEPT ![Here] = [tree[Here] EXCEPT !.marker = TRUE]]
        /\ marks' = marks \cup {SpecSegOf[Name], "api"}
    BY <1>6 DEF WriteMarkers, Writing
  <2>2. Extends(tree[Here], [tree[Here] EXCEPT !.marker = TRUE])
    BY <1>4, <2>1, FileFacts, TreeEdits
  <2>. QED
    BY <1>0, <1>3, <1>4, <2>1, <2>2
<1>7. CASE WriteSchema
  <2>1. pc \in Writing /\ marks' = marks /\ status \in 1..Len(This.statuses)
        /\ tree' = [tree EXCEPT ![Here] = WithSchema(tree[Here], This.statuses[status], Rendered(This))]
    BY <1>7 DEF WriteSchema, Writing, TypeOK
  <2>2. Extends(tree[Here], WithSchema(tree[Here], This.statuses[status], Rendered(This)))
    BY <1>4, <2>1, FileEdits
  <2>. QED
    BY <1>0, <1>3, <2>1, <2>2
<1>8. CASE WriteApi
  <2>1. pc \in Writing /\ marks' = marks
        /\ tree' = [tree EXCEPT ![Here] = WithApi(tree[Here], Rendered(This))]
    BY <1>8 DEF WriteApi, Writing
  <2>2. Extends(tree[Here], WithApi(tree[Here], Rendered(This)))
    BY <1>4, <2>1, FileEdits
  <2>. QED
    BY <1>0, <1>3, <2>1, <2>2
<1>9. CASE WriteMeta
  <2>1. pc \in Writing /\ marks' = marks
        /\ tree' = [tree EXCEPT ![Here] = WithMeta(tree[Here], Rendered(This))]
    BY <1>9 DEF WriteMeta, Writing
  <2>2. Extends(tree[Here], WithMeta(tree[Here], Rendered(This)))
    BY <1>4, <2>1, FileEdits
  <2>. QED
    BY <1>0, <1>3, <2>1, <2>2
<1>10. CASE StepFails
  <2>0. pc \in Writing
    BY <1>10 DEF StepFails
  <2>1. CASE tree' = [tree EXCEPT ![Here] = [tree[Here] EXCEPT !.here = TRUE]] /\ marks' = marks
    BY <1>0, <1>3, <1>4, <2>0, <2>1, FileFacts, TreeEdits
  <2>2. CASE /\ tree' = [tree EXCEPT ![Here] = [tree[Here] EXCEPT !.marker = TRUE]]
             /\ marks' \in {marks, marks \cup {SpecSegOf[Name]}}
    <3>1. Extends(tree[Here], [tree[Here] EXCEPT !.marker = TRUE])
      BY <1>4, <2>0, FileFacts, TreeEdits
    <3>. QED
      BY <1>0, <1>3, <1>4, <2>0, <2>2, <3>1
  <2>3. CASE /\ status <= Len(This.statuses) /\ marks' = marks
             /\ tree' = [tree EXCEPT ![Here] = WithSchema(tree[Here], This.statuses[status], Torn)]
    <3>1. This.statuses[status] \in Statuses
      BY <1>4, <2>0, <2>3 DEF TypeOK
    <3>2. Extends(tree[Here], WithSchema(tree[Here], This.statuses[status], Torn))
      BY <1>4, <2>0, <3>1, FileFacts, FileEdits
    <3>. QED
      BY <1>0, <1>3, <2>0, <2>3, <3>2
  <2>4. CASE tree' = [tree EXCEPT ![Here] = WithApi(tree[Here], Torn)] /\ marks' = marks
    <3>1. Extends(tree[Here], WithApi(tree[Here], Torn))
      BY <1>4, <2>0, FileFacts, FileEdits
    <3>. QED
      BY <1>0, <1>3, <2>0, <2>4, <3>1
  <2>5. CASE tree' = [tree EXCEPT ![Here] = WithMeta(tree[Here], Torn)] /\ marks' = marks
    <3>1. Extends(tree[Here], WithMeta(tree[Here], Torn))
      BY <1>4, <2>0, FileFacts, FileEdits
    <3>. QED
      BY <1>0, <1>3, <2>0, <2>5, <3>1
  <2>. QED
    BY <1>2, <1>10, <2>1, <2>2, <2>3, <2>4, <2>5 DEF StepFails
<1>11. CASE \/ PullSkips \/ PullOne \/ PullFails \/ NextEndpoint \/ SchemasWritten \/ Leave
  BY <1>2, <1>11 DEF PullSkips, PullOne, PullFails, NextEndpoint, SchemasWritten, Leave
<1>. QED
  BY <1>5, <1>6, <1>7, <1>8, <1>9, <1>10, <1>11 DEF Next, Pull, Generate, Publish, UserEdits

(* A step leaves where the command is typed as it was, unless it is one of *)
(* those that move it.                                                     *)
Control ==
  /\ pc \in {"idle", "next", "pull", "done"} \cup Writing
  /\ pc \in Busy => cmd.spec # "unknown" /\ spec \in DOMAIN Chosen
  /\ pc \in {"next"} \cup Writing => endpoint \in 0..Len(Ops_)
  /\ pc \in Writing => endpoint # 0

LEMMA ControlStep ==
  ASSUME TypeOK, Next, cmd' \in Command, local' \in [NameSet -> Document]
  PROVE  Control'
<1>1. /\ pc \in Busy => cmd.spec # "unknown" /\ spec \in DOMAIN Chosen
      /\ pc \in {"next"} \cup Writing => endpoint \in 0..Len(Ops_)
  BY DEF TypeOK, Busy
<1>2. CASE pc' \in {"idle", "done"}
  BY <1>2 DEF Control, Busy, Writing
<1>3. /\ (Chosen = ChosenBy(cmd))' /\ Ops_' = local'[Name'].ops
      /\ (cmd' = cmd => Chosen' = Chosen)
      /\ (cmd' = cmd /\ spec' = spec => Name' = Name)
      /\ (cmd' = cmd /\ spec' = spec /\ local' = local => Ops_' = Ops_)
  BY DEF Chosen, ChosenBy, Name, Ops_
<1>4. ASSUME cmd'.spec # "unknown", spec' \in DOMAIN Chosen'
      PROVE  Ops_' \in Seq(Endpoint) /\ Len(Ops_') \in Nat
  <2>. HIDE DEF NameSet
  <2>. QED
    BY <1>3, <1>4, ChoiceFacts DEF Name
<1>5. CASE Pull \/ Generate
  <2>1. CASE pc' = "done"
    BY <1>2, <2>1
  <2>2. CASE pc' # "done"
    <3>1. PICK s \in NameSet \cup {"all"} :
            /\ cmd'.spec = s /\ ~(s = "all" /\ Names = <<>>) /\ pc' \in {"next", "pull"}
            /\ spec' = 1 /\ (pc' = "next" => endpoint' = 0)
      BY <1>5, <2>2 DEF Pull, Generate, Exit, Begin
    <3>2. 1 \in DOMAIN Chosen'
      BY <3>1, ArtifactsAssumption DEF Chosen
    <3>3. cmd'.spec # "unknown" /\ spec' \in DOMAIN Chosen'
      BY <3>1, <3>2, ArtifactsAssumption
    <3>. QED
      BY <1>4, <3>1, <3>3 DEF Control, Writing, Busy
  <2>. QED
    BY <2>1, <2>2
<1>6. CASE PullSkips \/ PullOne
  <2>1. CASE pc' = "done"
    BY <1>2, <2>1
  <2>2. CASE pc' # "done"
    <3>1. pc = "pull" /\ pc' = "pull" /\ spec' = spec + 1 /\ spec < Len(Chosen) /\ cmd' = cmd
      BY <1>6, <2>2 DEF PullSkips, PullOne, AfterPull, Exit
    <3>2. spec' \in DOMAIN Chosen' /\ cmd'.spec # "unknown"
      BY <1>1, <1>3, <3>1, NameFacts DEF Busy
    <3>. QED
      BY <3>1, <3>2 DEF Control, Writing
  <2>. QED
    BY <2>1, <2>2
<1>7. CASE NextEndpoint
  <2>0. pc = "next" /\ cmd' = cmd /\ local' = local /\ endpoint \in 0..Len(Ops_)
        /\ Len(Ops_) \in Nat /\ spec \in 1..Len(Chosen) /\ Len(Chosen) \in Nat
        /\ spec \in DOMAIN Chosen /\ cmd.spec # "unknown"
    BY <1>1, <1>7, NameFacts DEF NextEndpoint, Busy
  <2>1. CASE pc' = "done"
    BY <1>2, <2>1
  <2>2. CASE spec' = spec /\ endpoint < Len(Ops_) /\ endpoint' = endpoint + 1 /\ pc' \in {"dirs", "next"}
    <3>1. endpoint' \in 0..Len(Ops_') /\ endpoint' # 0
      BY <1>3, <2>0, <2>2
    <3>2. spec' \in DOMAIN Chosen' /\ cmd'.spec # "unknown"
      BY <1>3, <2>0, <2>2
    <3>. QED
      BY <2>2, <3>1, <3>2 DEF Control, Writing, Busy
  <2>3. CASE spec' = spec + 1 /\ spec < Len(Chosen) /\ endpoint' = 0 /\ pc' = "next"
    <3>1. spec' \in DOMAIN Chosen' /\ cmd'.spec # "unknown"
      BY <1>3, <2>0, <2>3, NameFacts DEF Busy
    <3>2. endpoint' \in 0..Len(Ops_')
      BY <1>4, <2>3, <3>1
    <3>. QED
      BY <2>3, <3>1, <3>2 DEF Control, Writing, Busy
  <2>. QED
    BY <1>7, <2>0, <2>1, <2>2, <2>3 DEF NextEndpoint, Exit
<1>8. CASE MakeDirs \/ WriteMarkers \/ WriteSchema \/ SchemasWritten \/ WriteApi \/ WriteMeta
  <2>1. /\ pc \in Writing /\ cmd' = cmd /\ local' = local /\ spec' = spec /\ endpoint' = endpoint
        /\ pc' \in {"next"} \cup Writing
    BY <1>8 DEF MakeDirs, WriteMarkers, WriteSchema, SchemasWritten, WriteApi, WriteMeta, Writing, at
  <2>2. endpoint # 0 /\ endpoint \in 0..Len(Ops_) /\ cmd.spec # "unknown" /\ spec \in DOMAIN Chosen
    BY <1>1, <2>1 DEF TypeOK, Busy
  <2>. QED
    BY <1>3, <2>1, <2>2 DEF Control, Busy, Writing
<1>9. CASE PullFails \/ StepFails \/ Leave \/ Publish \/ UserEdits
  <2>1. pc' \in {"idle", "done"}
    BY <1>9 DEF PullFails, StepFails, Leave, Publish, UserEdits, Exit
  <2>. QED
    BY <1>2, <2>1
<1>. QED
  BY <1>5, <1>6, <1>7, <1>8, <1>9 DEF Next

LEMMA TypeStep ==
  ASSUME TypeOK, [Next]_vars
  PROVE  TypeOK'
<1>. SUFFICES ASSUME Next PROVE TypeOK'
  <2>1. CASE UNCHANGED vars
    BY <2>1 DEF TypeOK, vars, Chosen, Name, Ops_
  <2>. QED
    BY <2>1
<1>0. /\ remote \in [Git -> [Refs -> Document]] /\ local \in [NameSet -> Document]
      /\ before \in [NameSet -> Document] /\ tree \in [Places -> Artifact]
      /\ marks \subseteq SpecSegs \cup {"api"} /\ cmd \in Command
      /\ status \in Nat \ {0} /\ code \in {0, 1}
      /\ {runs, faults, publishes, edits} \subseteq Nat
      /\ found \in [Places -> Artifact] /\ failedAt \subseteq Places
  BY DEF TypeOK
<1>1. tree' \in [Places -> Artifact] /\ marks' \subseteq SpecSegs \cup {"api"}
  <2>1. CASE pc # "idle"
    BY <2>1, GrowthStep DEF Growth
  <2>2. CASE UNCHANGED <<tree, marks>>
    BY <1>0, <2>2
  <2>3. CASE UserEdits
    <3>1. PICK p \in Places :
            \/ tree' = [tree EXCEPT ![p] = [tree[p] EXCEPT !.api = Edited]]
            \/ tree' = [tree EXCEPT ![p] = [NoArtifact EXCEPT !.tests = tree[p].tests]]
      BY <2>3 DEF UserEdits
    <3>2. tree[p] \in Artifact
      BY <1>0
    <3>3. /\ [tree[p] EXCEPT !.api = Edited] \in Artifact
          /\ [NoArtifact EXCEPT !.tests = tree[p].tests] \in Artifact
      BY <3>2, FileFacts, NoArtifactType DEF Artifact
    <3>4. tree' \in [Places -> Artifact]
      BY <1>0, <3>1, <3>3
    <3>. QED
      BY <1>0, <2>3, <3>4 DEF UserEdits
  <2>. QED
    BY <2>1, <2>2, <2>3 DEF Next, Pull, Generate, Publish, PullSkips, PullOne, PullFails, NextEndpoint,
       MakeDirs, WriteMarkers, WriteSchema, SchemasWritten, WriteApi, WriteMeta, StepFails, Leave
<1>2. remote' \in [Git -> [Refs -> Document]]
  <2>1. CASE Publish
    <3>1. PICK n \in Git, r \in Refs, d \in Documents : remote' = [remote EXCEPT ![n][r] = d]
      BY <2>1 DEF Publish
    <3>2. d \in Document
      BY ArtifactsAssumption
    <3>. HIDE DEF Document
    <3>. QED
      BY <1>0, <3>1, <3>2
  <2>2. CASE UNCHANGED remote
    BY <1>0, <2>2
  <2>. QED
    BY <2>1, <2>2 DEF Next, Pull, Generate, PullSkips, PullOne, PullFails, NextEndpoint, UserEdits,
       MakeDirs, WriteMarkers, WriteSchema, SchemasWritten, WriteApi, WriteMeta, StepFails, Leave
<1>3. local' \in [NameSet -> Document]
  <2>1. CASE PullOne
    <3>1. Name \in NameSet /\ Name \in Git
      BY <2>1, NameFacts DEF PullOne, Busy
    <3>2. EffectiveRef(Name, cmd.refs) \in Refs
      BY <1>0, <2>1, <3>1, RefFacts DEF Command
    <3>3. remote[Name][EffectiveRef(Name, cmd.refs)] \in Document
      <4>. HIDE DEF Document
      <4>. QED
        BY <1>0, <3>1, <3>2
    <3>. HIDE DEF Document, NameSet
    <3>. QED
      BY <1>0, <2>1, <3>1, <3>3 DEF PullOne
  <2>2. CASE PullFails
    <3>1. NoDocument \in Document
      BY DEF NoDocument, Document
    <3>. HIDE DEF Document, NameSet
    <3>. QED
      BY <1>0, <2>2, <3>1 DEF PullFails
  <2>3. CASE UNCHANGED local
    BY <1>0, <2>3
  <2>. QED
    BY <2>1, <2>2, <2>3 DEF Next, Pull, Generate, PullSkips, NextEndpoint, UserEdits, Publish,
       MakeDirs, WriteMarkers, WriteSchema, SchemasWritten, WriteApi, WriteMeta, StepFails, Leave
<1>4. cmd' \in Command
  <2>1. NoCommand \in Command
    BY DEF NoCommand, Command
  <2>2. CASE Pull
    BY <2>2, ArtifactsAssumption DEF Pull, Command
  <2>3. CASE Generate
    <3>1. PICK s \in NameSet \cup {"all", "unknown"}, force \in BOOLEAN, ids \in Filters :
            cmd' = [kind |-> "generate", spec |-> s, force |-> force, ids |-> ids, refs |-> <<>>]
      BY <2>3 DEF Generate
    <3>2. ids \in SUBSET (Ids \cup {"unknown"}) /\ <<>> \in Seq(Option)
      BY ArtifactsAssumption
    <3>. HIDE DEF NameSet, Ids, Option
    <3>. QED
      BY <3>1, <3>2 DEF Command
  <2>4. CASE Leave
    BY <2>1, <2>4 DEF Leave
  <2>5. CASE UNCHANGED cmd
    BY <1>0, <2>5
  <2>. QED
    BY <2>2, <2>3, <2>4, <2>5 DEF Next, PullSkips, PullOne, PullFails, NextEndpoint, UserEdits, Publish,
       MakeDirs, WriteMarkers, WriteSchema, SchemasWritten, WriteApi, WriteMeta, StepFails
<1>5. before' \in [NameSet -> Document]
  BY <1>0 DEF Next, Pull, Generate, PullSkips, PullOne, PullFails, NextEndpoint, UserEdits, Publish, hist,
     MakeDirs, WriteMarkers, WriteSchema, SchemasWritten, WriteApi, WriteMeta, StepFails, Leave
<1>6. status' \in Nat \ {0} /\ code' \in {0, 1}
  BY <1>0 DEF Next, Pull, Generate, PullSkips, PullOne, PullFails, NextEndpoint, UserEdits, Publish, at,
     MakeDirs, WriteMarkers, WriteSchema, SchemasWritten, WriteApi, WriteMeta, StepFails, Leave,
     Exit, Begin, AfterPull
<1>7. {runs', faults', publishes', edits'} \subseteq Nat
  BY <1>0 DEF Next, Pull, Generate, PullSkips, PullOne, PullFails, NextEndpoint, UserEdits, Publish, bounds,
     MakeDirs, WriteMarkers, WriteSchema, SchemasWritten, WriteApi, WriteMeta, StepFails, Leave
<1>8. Control'
  BY <1>3, <1>4, ControlStep
<1>9. found' \in [Places -> Artifact]
  <2>1. [p \in Places |-> NoArtifact] \in [Places -> Artifact]
    BY NoArtifactType
  <2>2. found' \in {found, tree, [p \in Places |-> NoArtifact]}
    BY DEF Next, Pull, Generate, PullSkips, PullOne, PullFails, NextEndpoint, UserEdits, Publish, hist,
       MakeDirs, WriteMarkers, WriteSchema, SchemasWritten, WriteApi, WriteMeta, StepFails, Leave
  <2>. QED
    BY <1>0, <2>1, <2>2
<1>10. failedAt' \subseteq Places
  <2>1. StepFails => Here \in Places
    BY HereFacts DEF StepFails
  <2>. QED
    BY <1>0, <2>1 DEF Next, Pull, Generate, PullSkips, PullOne, PullFails, NextEndpoint, UserEdits,
       Publish, hist, MakeDirs, WriteMarkers, WriteSchema, SchemasWritten, WriteApi, WriteMeta,
       StepFails, Leave, MadeGood
<1>. QED
  BY <1>1, <1>2, <1>3, <1>4, <1>5, <1>6, <1>7, <1>8, <1>9, <1>10 DEF TypeOK, Control, Busy

LEMMA TypeInit == Init => TypeOK
<1>. SUFFICES ASSUME Init PROVE TypeOK
  OBVIOUS
<1>1. Documents \subseteq Document /\ NoDocument \in Document
  BY ArtifactsAssumption DEF NoDocument, Document
<1>2. remote \in [Git -> [Refs -> Document]] /\ local \in [NameSet -> Document]
  <2>. HIDE DEF Document, NameSet
  <2>. QED
    BY <1>1 DEF Init
<1>3. tree \in [Places -> Artifact]
  BY NoArtifactType DEF Init
<1>4. cmd \in Command
  BY DEF Init, NoCommand, Command
<1>. QED
  BY <1>2, <1>3, <1>4 DEF Init, TypeOK, Writing

(* The state of the commands is always well typed.                         *)
THEOREM ArtifactsTypeCorrect == Spec => []TypeOK
<1>. QED
  BY TypeInit, TypeStep, PTL DEF Spec

(* "Existing files are silently skipped" without --force: no step of a     *)
(* command changes a file it finds (generate.py, _write_artifacts).        *)
THEOREM ExistingFilesStay == Spec => KeptWithoutForce
<1>1. TypeOK /\ [Next]_vars => [pc # "idle" /\ ~cmd.force => FilesStay]_vars
  <2>. SUFFICES ASSUME TypeOK, Next, pc # "idle", ~cmd.force PROVE FilesStay
    OBVIOUS
  <2>. QED
    BY GrowthStep DEF Growth, Stays, FilesStay
<1>. QED
  BY <1>1, ArtifactsTypeCorrect, PTL DEF Spec, KeptWithoutForce
-----------------------------------------------------------------------------
(***************************************************************************)
(* What is written is written in order: the directories, the markers, the  *)
(* schemas, the module, the contract.                                      *)
(***************************************************************************)
MetaAfterApi == \A p \in Places : tree[p].meta # NoFile => tree[p].api # NoFile

Written ==
  /\ pc \in {"markers", "schemas", "api", "meta"} => tree[Here].here /\ tree[Here].tests
  /\ pc \in {"schemas", "api", "meta"} =>
       tree[Here].marker /\ {SpecSegOf[Name], "api"} \subseteq marks
  /\ pc \in {"schemas", "api", "meta"} =>
       \A i \in DOMAIN This.statuses :
         i < status \/ pc # "schemas" => tree[Here].schemas[This.statuses[i]] # NoFile
  /\ pc = "meta" => tree[Here].api # NoFile

(* Every artifact of an endpoint is there.                                 *)
Present(n, e) ==
  LET a == tree[Place(n, e)] IN
    /\ a.here /\ a.tests /\ a.marker /\ {SpecSegOf[n], "api"} \subseteq marks
    /\ a.api # NoFile /\ a.meta # NoFile
    /\ \A i \in DOMAIN e.statuses : a.schemas[e.statuses[i]] # NoFile

LEMMA StatusFacts ==
  ASSUME TypeOK, pc \in Writing
  PROVE  /\ This.statuses \in Seq(Statuses) /\ Len(This.statuses) \in Nat
         /\ DOMAIN This.statuses = 1..Len(This.statuses)
         /\ \A i \in DOMAIN This.statuses : This.statuses[i] \in Statuses
         /\ Here \in Places /\ tree[Here] \in Artifact /\ status \in Nat \ {0}
<1>1. This.statuses \in Seq(Statuses)
  BY HereFacts DEF Endpoint
<1>. QED
  BY <1>1, HereFacts DEF TypeOK

LEMMA WrittenStep ==
  ASSUME TypeOK, Written, Next
  PROVE  Written' /\ (WriteMeta => Present(Name, This)')
<1>. DEFINE Later == {"markers", "schemas", "api", "meta"}
<1>1. CASE pc' \notin Later /\ ~WriteMeta
  BY <1>1 DEF Written
<1>2. CASE MakeDirs \/ WriteMarkers \/ WriteSchema \/ SchemasWritten \/ WriteApi \/ WriteMeta
  <2>1. /\ pc \in Writing /\ cmd' = cmd /\ local' = local /\ spec' = spec /\ endpoint' = endpoint
        /\ pc # "idle"
    BY <1>2 DEF MakeDirs, WriteMarkers, WriteSchema, SchemasWritten, WriteApi, WriteMeta, Writing, at
  <2>2. Name' = Name /\ This' = This /\ Here' = Here
    BY <2>1 DEF Chosen, Name, Ops_, This, Here, Place
  <2>3. Grows(tree[Here], tree'[Here]) /\ marks \subseteq marks' /\ Here \in Places
        /\ \A i \in DOMAIN This.statuses :
             tree[Here].schemas[This.statuses[i]] # NoFile => tree'[Here].schemas[This.statuses[i]] # NoFile
    BY <2>1, GrowthStep, StatusFacts DEF Growth, Grows
  <2>4. tree \in [Places -> Artifact] /\ tree[Here] \in Artifact
        /\ Rendered(This) \in File /\ Rendered(This) # NoFile
    BY <2>1, HereFacts DEF TypeOK
  <2>5. CASE MakeDirs
    <3>1. tree'[Here].here /\ tree'[Here].tests
      BY <2>3, <2>4, <2>5 DEF MakeDirs, Artifact
    <3>. QED
      BY <2>2, <2>5, <3>1 DEF MakeDirs, Written, WriteMeta
  <2>6. CASE WriteMarkers
    <3>1. tree'[Here].marker
      BY <2>3, <2>4, <2>6 DEF WriteMarkers, Artifact
    <3>2. pc = "markers" /\ pc' = "schemas" /\ status' = 1 /\ {SpecSegOf[Name], "api"} \subseteq marks'
      BY <2>6 DEF WriteMarkers
    <3>3. \A i \in DOMAIN This.statuses : ~(i < status')
      BY <2>1, <3>2, StatusFacts
    <3>. QED
      BY <2>2, <2>3, <3>1, <3>2, <3>3 DEF Written, Grows, WriteMeta
  <2>7. CASE WriteSchema
    <3>1. pc = "schemas" /\ pc' = "schemas" /\ status' = status + 1 /\ status \in DOMAIN This.statuses
          /\ tree' = [tree EXCEPT ![Here] = WithSchema(tree[Here], This.statuses[status], Rendered(This))]
      BY <2>1, <2>7, StatusFacts DEF WriteSchema
    <3>2. tree'[Here].schemas[This.statuses[status]] # NoFile
      <4>1. tree'[Here] = WithSchema(tree[Here], This.statuses[status], Rendered(This))
        BY <2>3, <2>4, <3>1
      <4>2. /\ tree[Here].schemas \in [Statuses -> File] /\ This.statuses[status] \in Statuses
        BY <2>1, <2>4, <3>1, StatusFacts DEF Artifact
      <4>3. Put(tree[Here].schemas[This.statuses[status]], Rendered(This)) # NoFile
        BY <2>4, <4>2, PutFacts
      <4>4. tree[Here] = [here |-> tree[Here].here, tests |-> tree[Here].tests,
                          marker |-> tree[Here].marker, schemas |-> tree[Here].schemas,
                          api |-> tree[Here].api, meta |-> tree[Here].meta]
        BY <2>4 DEF Artifact
      <4>. HIDE DEF Here, This
      <4>. QED
        BY <4>1, <4>2, <4>3, <4>4 DEF WithSchema
    <3>3. \A i \in DOMAIN This.statuses : i < status' => tree'[Here].schemas[This.statuses[i]] # NoFile
      <4>1. \A i \in DOMAIN This.statuses : i < status' => i < status \/ i = status
        BY <2>1, <3>1, StatusFacts
      <4>. QED
        BY <2>3, <3>1, <3>2, <4>1 DEF Written
    <3>. QED
      BY <2>2, <2>3, <3>1, <3>3 DEF Written, Grows, WriteMeta
  <2>8. CASE SchemasWritten
    <3>1. /\ pc = "schemas" /\ pc' = "api" /\ tree' = tree /\ marks' = marks
          /\ \A i \in DOMAIN This.statuses : i < status
      BY <2>1, <2>8, StatusFacts DEF SchemasWritten
    <3>. QED
      BY <2>2, <3>1 DEF Written, WriteMeta
  <2>9. CASE WriteApi
    <3>1. pc = "api" /\ pc' = "meta" /\ tree'[Here] = WithApi(tree[Here], Rendered(This))
      BY <2>3, <2>4, <2>9 DEF WriteApi
    <3>2. tree'[Here].api = Put(tree[Here].api, Rendered(This)) /\ tree[Here].api \in File
      BY <2>4, <3>1 DEF WithApi, Artifact
    <3>3. tree'[Here].api # NoFile
      BY <2>4, <3>2, PutFacts
    <3>. QED
      BY <2>2, <2>3, <3>1, <3>3 DEF Written, Grows, WriteMeta
  <2>10. CASE WriteMeta
    <3>1. pc = "meta" /\ pc' = "next" /\ tree'[Here] = WithMeta(tree[Here], Rendered(This))
      BY <2>3, <2>4, <2>10 DEF WriteMeta
    <3>2. tree'[Here].meta = Put(tree[Here].meta, Rendered(This)) /\ tree[Here].meta \in File
      BY <2>4, <3>1 DEF WithMeta, Artifact
    <3>3. tree'[Here].meta # NoFile
      BY <2>4, <3>2, PutFacts
    <3>4. Here = Place(Name, This)
      BY DEF Here
    <3>5. /\ tree'[Here].here /\ tree'[Here].tests /\ tree'[Here].marker /\ tree'[Here].api # NoFile
          /\ {SpecSegOf[Name], "api"} \subseteq marks'
          /\ \A i \in DOMAIN This.statuses : tree'[Here].schemas[This.statuses[i]] # NoFile
      BY <2>3, <3>1 DEF Written, Grows
    <3>6. Present(Name, This)'
      BY <2>2, <3>3, <3>4, <3>5 DEF Present
    <3>. QED
      BY <3>1, <3>6 DEF Written
  <2>. QED
    BY <1>2, <2>5, <2>6, <2>7, <2>8, <2>9, <2>10
<1>3. ASSUME ~(MakeDirs \/ WriteMarkers \/ WriteSchema \/ SchemasWritten \/ WriteApi \/ WriteMeta)
      PROVE  pc' \notin Later
  BY <1>3 DEF Next, Pull, PullSkips, PullOne, PullFails, Generate, NextEndpoint, StepFails, Leave,
     Publish, UserEdits, Exit, Begin, AfterPull, TypeOK, Writing
<1>. QED
  BY <1>1, <1>2, <1>3
(* A module comes to be only where the command writes one, a contract too. *)
LEMMA Appears ==
  ASSUME TypeOK, Next, pc # "idle", NEW p \in Places
  PROVE  /\ tree[p].api = NoFile /\ tree'[p].api # NoFile => pc = "api" /\ p = Here
         /\ tree[p].meta = NoFile /\ tree'[p].meta # NoFile => pc = "meta" /\ p = Here
<1>0. tree \in [Places -> Artifact] /\ tree[p] \in Artifact
  BY DEF TypeOK
<1>1. CASE UNCHANGED tree
  BY <1>1
<1>2. ASSUME NEW b, tree' = [tree EXCEPT ![Here] = b], NEW a, a = tree[Here],
             \/ b.api = a.api /\ b.meta = a.meta
             \/ pc = "api" /\ b.meta = a.meta
             \/ pc = "meta" /\ b.api = a.api
      PROVE  /\ tree[p].api = NoFile /\ tree'[p].api # NoFile => pc = "api" /\ p = Here
             /\ tree[p].meta = NoFile /\ tree'[p].meta # NoFile => pc = "meta" /\ p = Here
  <2>1. CASE p = Here
    BY <1>0, <1>2, <2>1
  <2>2. CASE p # Here
    BY <1>0, <1>2, <2>2
  <2>. QED
    BY <2>1, <2>2
<1>3. CASE MakeDirs \/ WriteMarkers \/ WriteSchema \/ WriteApi \/ WriteMeta \/ (StepFails /\ ~UNCHANGED tree)
  <2>1. pc \in Writing
    BY <1>3 DEF MakeDirs, WriteMarkers, WriteSchema, WriteApi, WriteMeta, StepFails, Writing
  <2>. DEFINE a == tree[Here]
  <2>2. a = [here |-> a.here, tests |-> a.tests, marker |-> a.marker, schemas |-> a.schemas,
             api |-> a.api, meta |-> a.meta]
    BY <2>1, HereFacts DEF Artifact
  <2>3. PICK b : /\ tree' = [tree EXCEPT ![Here] = b]
                 /\ \/ b = [a EXCEPT !.here = TRUE, !.tests = TRUE]
                    \/ b = [a EXCEPT !.here = TRUE]
                    \/ b = [a EXCEPT !.marker = TRUE]
                    \/ \E s, file : b = WithSchema(a, s, file)
                    \/ pc = "api" /\ \E file : b = WithApi(a, file)
                    \/ pc = "meta" /\ \E file : b = WithMeta(a, file)
    <3>1. CASE MakeDirs
      BY <3>1 DEF MakeDirs
    <3>2. CASE WriteMarkers
      BY <3>2 DEF WriteMarkers
    <3>3. CASE WriteSchema
      BY <3>3 DEF WriteSchema
    <3>4. CASE WriteApi
      BY <3>4 DEF WriteApi
    <3>5. CASE WriteMeta
      BY <3>5 DEF WriteMeta
    <3>6. CASE StepFails /\ ~UNCHANGED tree
      <4>1. CASE pc = "dirs" /\ tree' = [tree EXCEPT ![Here] = [a EXCEPT !.here = TRUE]]
        BY <4>1
      <4>2. CASE pc = "markers" /\ tree' = [tree EXCEPT ![Here] = [a EXCEPT !.marker = TRUE]]
        BY <4>2
      <4>3. CASE tree' = [tree EXCEPT ![Here] = WithSchema(a, This.statuses[status], Torn)]
        BY <4>3
      <4>4. CASE pc = "api" /\ tree' = [tree EXCEPT ![Here] = WithApi(a, Torn)]
        BY <4>4
      <4>5. CASE pc = "meta" /\ tree' = [tree EXCEPT ![Here] = WithMeta(a, Torn)]
        BY <4>5
      <4>. QED
        BY <3>6, <4>1, <4>2, <4>3, <4>4, <4>5 DEF StepFails
    <3>. QED
      BY <1>3, <3>1, <3>2, <3>3, <3>4, <3>5, <3>6
  <2>4. \/ b.api = a.api /\ b.meta = a.meta
        \/ pc = "api" /\ b.meta = a.meta
        \/ pc = "meta" /\ b.api = a.api
    <3>. HIDE DEF a
    <3>. QED
      BY <2>2, <2>3 DEF WithSchema, WithApi, WithMeta
  <2>. QED
    BY <1>2, <2>3, <2>4
<1>. QED
  BY <1>1, <1>3 DEF Next, Pull, PullSkips, PullOne, PullFails, Generate, NextEndpoint, SchemasWritten,
     Leave, Publish, UserEdits

IInv == TypeOK /\ Written /\ ModulesImportable /\ MetaAfterApi

LEMMA InvInit == Init => IInv
<1>. SUFFICES ASSUME Init PROVE IInv
  OBVIOUS
<1>1. \A p \in Places : tree[p].api = NoFile /\ tree[p].meta = NoFile
  BY DEF Init, NoArtifact
<1>. QED
  BY <1>1, TypeInit DEF Init, IInv, Written, ModulesImportable, MetaAfterApi

LEMMA InvStep ==
  ASSUME IInv, [Next]_vars
  PROVE  IInv'
<1>0. TypeOK'
  BY TypeStep DEF IInv
<1>1. CASE UNCHANGED vars
  BY <1>0, <1>1 DEF IInv, vars, Written, ModulesImportable, MetaAfterApi, Here, Place, Name, This, Chosen,
     Ops_
<1>2. CASE Next
  <2>1. Written'
    BY <1>2, WrittenStep DEF IInv
  <2>2. CASE pc # "idle"
    <3>1. ASSUME NEW p \in Places
          PROVE  /\ tree'[p].api # NoFile => tree'[p].marker /\ {p[1], "api"} \subseteq marks'
                 /\ tree'[p].meta # NoFile => tree'[p].api # NoFile
      <4>1. Grows(tree[p], tree'[p]) /\ marks \subseteq marks'
        BY <1>2, <2>2, GrowthStep DEF IInv, Growth
      <4>2. pc \in {"api", "meta"} /\ p = Here =>
              /\ tree[p].marker /\ {p[1], "api"} \subseteq marks
              /\ pc = "meta" => tree[p].api # NoFile
        BY HereFacts DEF IInv, Written, Writing
      <4>3. /\ tree[p].api # NoFile => tree[p].marker /\ {p[1], "api"} \subseteq marks
            /\ tree[p].meta # NoFile => tree[p].api # NoFile
        BY DEF IInv, ModulesImportable, MetaAfterApi
      <4>. HIDE DEF Here
      <4>. QED
        BY <1>2, <2>2, <4>1, <4>2, <4>3, Appears DEF IInv, Grows
    <3>. QED
      BY <1>0, <2>1, <3>1 DEF IInv, ModulesImportable, MetaAfterApi
  <2>3. CASE pc = "idle" /\ ~UserEdits
    <3>1. tree' = tree /\ marks' = marks
      BY <1>2, <2>3 DEF Next, Pull, PullSkips, PullOne, PullFails, Generate, NextEndpoint, SchemasWritten,
         Leave, Publish, MakeDirs, WriteMarkers, WriteSchema, WriteApi, WriteMeta, StepFails, Writing
    <3>. QED
      BY <1>0, <2>1, <3>1 DEF IInv, ModulesImportable, MetaAfterApi
  <2>4. CASE UserEdits
    <3>1. PICK p \in Places :
            \/ tree[p].api # NoFile /\ tree' = [tree EXCEPT ![p] = [tree[p] EXCEPT !.api = Edited]]
            \/ tree' = [tree EXCEPT ![p] = [NoArtifact EXCEPT !.tests = tree[p].tests]]
      BY <2>4 DEF UserEdits
    <3>2. tree \in [Places -> Artifact] /\ tree[p] \in Artifact /\ marks' = marks
      BY <2>4 DEF IInv, TypeOK, UserEdits
    <3>3. \/ /\ tree[p].api # NoFile
             /\ tree'[p].marker = tree[p].marker /\ tree'[p].api # NoFile
          \/ tree'[p].api = NoFile /\ tree'[p].meta = NoFile
      BY <3>1, <3>2, FileFacts DEF Artifact, NoArtifact
    <3>4. \A q \in Places : q # p => tree'[q] = tree[q]
      BY <3>1, <3>2
    <3>5. ASSUME NEW q \in Places
          PROVE  /\ tree'[q].api # NoFile => tree'[q].marker /\ {q[1], "api"} \subseteq marks'
                 /\ tree'[q].meta # NoFile => tree'[q].api # NoFile
      BY <3>2, <3>3, <3>4 DEF IInv, ModulesImportable, MetaAfterApi
    <3>. QED
      BY <1>0, <2>1, <3>5 DEF IInv, ModulesImportable, MetaAfterApi
  <2>. QED
    BY <2>2, <2>3, <2>4
<1>. QED
  BY <1>1, <1>2

(* Every directory above a module has its package marker, whatever failed  *)
(* (generate.py, _write_package_markers before the module).                *)
THEOREM ModulesAlwaysImportable == Spec => []ModulesImportable
<1>. QED
  BY InvInit, InvStep, PTL DEF Spec, IInv

(* What list and diff take for an endpoint with artifacts has a module: the*)
(* contract is written last (generate.py, _write_artifacts).               *)
THEOREM ReportedAlwaysHasModule == Spec => []ReportedHasModule
<1>1. IInv => ReportedHasModule
  BY DEF IInv, MetaAfterApi, ReportedHasModule, Readable, NoFile
<1>. QED
  BY <1>1, InvInit, InvStep, PTL DEF Spec
-----------------------------------------------------------------------------
(***************************************************************************)
(* A run that gets to its end has passed every endpoint it was asked for,  *)
(* and what it has passed is there.                                        *)
(***************************************************************************)
Generating == pc \in {"next"} \cup Writing
Passed(i, k) ==
  \/ i < spec
  \/ i = spec /\ k < endpoint
  \/ i = spec /\ k = endpoint /\ pc = "next"

Behind ==
  /\ Generating => cmd.kind = "generate"
  /\ pc = "pull" => cmd.kind = "pull"
  /\ Generating =>
       \A i \in DOMAIN Chosen : \A k \in DOMAIN local[Chosen[i]].ops :
         Passed(i, k) /\ Wanted(cmd.ids, local[Chosen[i]].ops[k]) =>
           Present(Chosen[i], local[Chosen[i]].ops[k])

AllPresent == Generated => \A x \in Selected : Present(x[1], x[2])

CInv == TypeOK /\ Written /\ Behind /\ AllPresent

(* The names and the endpoints of the command.                             *)
LEMMA LoopFacts ==
  ASSUME TypeOK, pc \in Busy
  PROVE  /\ DOMAIN Chosen = 1..Len(Chosen) /\ Len(Chosen) \in Nat
         /\ \A i \in DOMAIN Chosen :
              /\ Chosen[i] \in NameSet
              /\ local[Chosen[i]].ops \in Seq(Endpoint)
              /\ Len(local[Chosen[i]].ops) \in Nat
              /\ DOMAIN local[Chosen[i]].ops = 1..Len(local[Chosen[i]].ops)
              /\ \A k \in DOMAIN local[Chosen[i]].ops : local[Chosen[i]].ops[k] \in Endpoint
<1>1. cmd.spec # "unknown" /\ cmd \in Command /\ local \in [NameSet -> Document] /\ Chosen = ChosenBy(cmd)
  BY DEF TypeOK, Busy, Chosen, ChosenBy
<1>2. \A q \in Seq(Endpoint) : DOMAIN q = 1..Len(q) /\ \A k \in DOMAIN q : q[k] \in Endpoint
  <2>. HIDE DEF Endpoint
  <2>. QED
    OBVIOUS
<1>. HIDE DEF NameSet, Endpoint
<1>. QED
  BY <1>1, <1>2, ChoiceFacts

LEMMA PresentStays ==
  ASSUME TypeOK, Next, pc # "idle", NEW n \in NameSet, NEW e \in Endpoint, Present(n, e)
  PROVE  Present(n, e)'
<1>1. Place(n, e) \in Places
  <2>1. SpecSegOf[n] \in SpecSegs
    BY ArtifactsAssumption
  <2>2. IdOf[e.op] \in Ids /\ SegOf[IdOf[e.op]] \in {SegOf[x] : x \in Ids}
    BY ArtifactsAssumption DEF Endpoint, Ids
  <2>. QED
    BY <2>1, <2>2 DEF Place, Places
<1>2. \A i \in DOMAIN e.statuses : e.statuses[i] \in Statuses
  <2>1. e.statuses \in Seq(Statuses)
    BY DEF Endpoint
  <2>. QED
    BY <2>1
<1>3. Grows(tree[Place(n, e)], tree'[Place(n, e)]) /\ marks \subseteq marks'
  BY <1>1, GrowthStep DEF Growth
<1>4. Place(n, e)' = Place(n, e)
  BY DEF Place
<1>. QED
  BY <1>2, <1>3, <1>4 DEF Present, Grows

LEMMA EndPassed ==
  ASSUME TypeOK, Behind, pc = "next", endpoint = Len(Ops_), spec = Len(Chosen), NEW x \in Selected
  PROVE  \E i \in DOMAIN Chosen : \E k \in DOMAIN local[Chosen[i]].ops :
           /\ x[1] = Chosen[i] /\ x[2] = local[Chosen[i]].ops[k]
           /\ Passed(i, k) /\ Wanted(cmd.ids, local[Chosen[i]].ops[k])
<1>1. pc \in Busy
  BY DEF Busy
<1>2. PICK n \in Selection(cmd.spec) : x \in {n} \X EndpointsOf(n)
  BY DEF Selected
<1>3. PICK k \in DOMAIN local[n].ops : x[1] = n /\ x[2] = local[n].ops[k] /\ Wanted(cmd.ids, x[2])
  BY <1>2 DEF Selected, EndpointsOf
<1>4. PICK i \in DOMAIN Chosen : Chosen[i] = n
  <2>1. CASE cmd.spec = "all"
    BY <1>2, <2>1 DEF Selection, Chosen, NameSet
  <2>2. CASE cmd.spec # "all"
    <3>1. Chosen = <<n>>
      BY <1>2, <2>2 DEF Selection, Chosen
    <3>. QED
      BY <3>1
  <2>. QED
    BY <2>1, <2>2
<1>5. Passed(i, k)
  <2>1. i \in 1..Len(Chosen) /\ Len(Chosen) \in Nat /\ k \in 1..Len(local[n].ops) /\ Len(local[n].ops) \in Nat
    BY <1>1, <1>3, <1>4, LoopFacts
  <2>2. i = spec => Len(local[n].ops) = endpoint
    BY <1>4 DEF Ops_, Name
  <2>. QED
    BY <2>1, <2>2 DEF Passed
<1>. QED
  BY <1>3, <1>4, <1>5

LEMMA EndReached ==
  ASSUME TypeOK, Behind, pc = "next", endpoint = Len(Ops_), spec = Len(Chosen)
  PROVE  \A x \in Selected : Present(x[1], x[2])
BY EndPassed DEF Behind, Generating

(* The steps of the loop over the endpoints.                               *)
LEMMA LoopStep ==
  ASSUME TypeOK, Next, Generating, Generating'
  PROVE  /\ cmd' = cmd /\ local' = local /\ Chosen' = Chosen /\ found' = found
         /\ pc \in Busy /\ pc # "idle" /\ pc' # "pull"
         /\ NextEndpoint \/ UNCHANGED <<spec, endpoint>>
<1>1. /\ cmd' = cmd /\ local' = local /\ pc # "idle" /\ pc' # "pull" /\ pc \in Busy
      /\ found' = found
      /\ NextEndpoint \/ UNCHANGED <<spec, endpoint>>
  BY DEF Next, Pull, PullSkips, PullOne, PullFails, Generate, NextEndpoint, MakeDirs, WriteMarkers,
     WriteSchema, SchemasWritten, WriteApi, WriteMeta, StepFails, Leave, Publish, UserEdits, Exit,
     Generating, Writing, Busy, at, hist
<1>. QED
  BY <1>1 DEF Chosen

(* An endpoint that is wanted is passed only when its contract is written. *)
LEMMA PassedStep ==
  ASSUME TypeOK, Next, Generating, Generating',
         NEW i \in DOMAIN Chosen, NEW k \in DOMAIN local[Chosen[i]].ops,
         Passed(i, k)', Wanted(cmd.ids, local[Chosen[i]].ops[k])
  PROVE  Passed(i, k) \/ (WriteMeta /\ i = spec /\ k = endpoint)
<1>1. pc \in Busy /\ (NextEndpoint \/ UNCHANGED <<spec, endpoint>>)
  BY LoopStep
<1>3. /\ i \in 1..Len(Chosen) /\ Len(Chosen) \in Nat
      /\ Len(local[Chosen[i]].ops) \in Nat /\ k \in 1..Len(local[Chosen[i]].ops)
  BY <1>1, LoopFacts
<1>4. spec \in 1..Len(Chosen) /\ endpoint \in 0..Len(Ops_) /\ Len(Ops_) \in Nat
      /\ (i = spec => local[Chosen[i]].ops = Ops_)
  BY <1>1, NameFacts DEF TypeOK, Generating, Ops_, Name
<1>. SUFFICES ASSUME ~Passed(i, k) PROVE WriteMeta /\ i = spec /\ k = endpoint
  OBVIOUS
<1>5. CASE NextEndpoint
  <2>1. CASE endpoint < Len(Ops_) /\ endpoint' = endpoint + 1 /\ spec' = spec
             /\ pc' = (IF Wanted(cmd.ids, Ops_[endpoint + 1]) THEN "dirs" ELSE "next")
    <3>1. i = spec /\ k = endpoint + 1 /\ pc' = "next"
      BY <1>3, <1>4, <1>5, <2>1 DEF Passed, NextEndpoint
    <3>2. ~Wanted(cmd.ids, Ops_[endpoint + 1])
      BY <2>1, <3>1
    <3>. QED
      BY <1>4, <3>1, <3>2
  <2>2. CASE endpoint = Len(Ops_) /\ spec' = spec + 1 /\ endpoint' = 0
    BY <1>3, <1>4, <1>5, <2>2 DEF Passed, NextEndpoint
  <2>. QED
    BY <1>5, <2>1, <2>2 DEF NextEndpoint, Exit, Generating, Writing
<1>6. CASE UNCHANGED <<spec, endpoint>> /\ ~NextEndpoint
  <2>1. i = spec /\ k = endpoint /\ pc' = "next" /\ pc # "next"
    BY <1>3, <1>4, <1>6 DEF Passed
  <2>2. WriteMeta
    BY <1>6, <2>1 DEF Next, Pull, PullSkips, PullOne, PullFails, Generate, MakeDirs, WriteMarkers,
       WriteSchema, SchemasWritten, WriteApi, StepFails, Leave, Publish, UserEdits, Exit,
       Generating, Writing
  <2>. QED
    BY <2>1, <2>2
<1>. QED
  BY <1>1, <1>5, <1>6

LEMMA BehindStep ==
  ASSUME TypeOK, Written, Behind, Next, Generating, Generating'
  PROVE  Behind'
<1>1. cmd' = cmd /\ local' = local /\ Chosen' = Chosen /\ pc \in Busy /\ pc # "idle" /\ pc' # "pull"
  BY LoopStep
<1>. SUFFICES ASSUME NEW i \in DOMAIN Chosen, NEW k \in DOMAIN local[Chosen[i]].ops,
                     NEW n, NEW e, n = Chosen[i], e = local[n].ops[k],
                     Passed(i, k)', Wanted(cmd.ids, e)
              PROVE  Present(n, e)'
  <2>. SUFFICES ASSUME NEW i \in DOMAIN Chosen', NEW k \in DOMAIN local'[Chosen'[i]].ops,
                       Passed(i, k)', Wanted(cmd.ids, local[Chosen[i]].ops[k])'
                PROVE  Present(Chosen[i], local[Chosen[i]].ops[k])'
    BY <1>1 DEF Behind
  <2>1. PICK n, e : n = Chosen[i] /\ e = local[n].ops[k]
    OBVIOUS
  <2>2. i \in DOMAIN Chosen /\ k \in DOMAIN local[Chosen[i]].ops /\ Wanted(cmd.ids, e)
    BY <1>1, <2>1 DEF Wanted
  <2>3. Present(n, e)'
    BY <2>1, <2>2
  <2>. QED
    BY <1>1, <2>1, <2>3 DEF Present, Place
<1>2. n \in NameSet /\ e \in Endpoint
  BY <1>1, LoopFacts
<1>3. CASE Passed(i, k)
  BY <1>1, <1>2, <1>3, PresentStays DEF Behind
<1>4. CASE WriteMeta /\ i = spec /\ k = endpoint
  <2>1. Present(Name, This)'
    BY <1>4, WrittenStep
  <2>2. spec' = spec /\ endpoint' = endpoint
    BY <1>4 DEF WriteMeta, at
  <2>3. Name' = n /\ This' = e
    BY <1>1, <1>4, <2>2 DEF Name, This, Ops_
  <2>. QED
    BY <2>1, <2>3 DEF Present, Place
<1>. QED
  BY <1>3, <1>4, PassedStep

LEMMA PresentInv ==
  ASSUME CInv, [Next]_vars
  PROVE  CInv'
<1>0. TypeOK'
  BY TypeStep DEF CInv
<1>1. CASE UNCHANGED vars
  <2>1. /\ tree' = tree /\ marks' = marks /\ pc' = pc /\ cmd' = cmd /\ local' = local /\ spec' = spec
        /\ endpoint' = endpoint /\ status' = status /\ code' = code
    BY <1>1 DEF vars
  <2>2. Chosen' = Chosen /\ Name' = Name /\ Ops_' = Ops_ /\ This' = This /\ Here' = Here
    BY <2>1 DEF Chosen, Name, Ops_, This, Here, Place
  <2>3. Written'
    BY <2>1, <2>2 DEF CInv, Written
  <2>4. \A n, e : Present(n, e)' = Present(n, e)
    BY <2>1 DEF Present, Place
  <2>5. Behind'
    BY <2>1, <2>2, <2>4 DEF CInv, Behind, Generating, Passed, Wanted
  <2>6. AllPresent'
    <3>1. Selected' = Selected
      BY <2>1 DEF Selected, EndpointsOf, Wanted
    <3>. QED
      BY <2>1, <2>4, <3>1 DEF CInv, AllPresent, Generated
  <2>. QED
    BY <1>0, <2>3, <2>5, <2>6 DEF CInv
<1>2. CASE Next
  <2>1. Written'
    BY <1>2, WrittenStep DEF CInv
  <2>2. Behind'
    <3>1. CASE Generating /\ Generating'
      BY <1>2, <3>1, BehindStep DEF CInv
    <3>2. CASE ~Generating /\ Generating'
      <4>1. Generate
        BY <1>2, <3>2 DEF Next, Pull, PullSkips, PullOne, PullFails, NextEndpoint, MakeDirs,
           WriteMarkers, WriteSchema, SchemasWritten, WriteApi, WriteMeta, StepFails, Leave, Publish,
           UserEdits, Exit, Begin, AfterPull, Generating, Writing
      <4>2. pc' = "next" /\ cmd'.kind = "generate" /\ spec' = 1 /\ endpoint' = 0
        BY <3>2, <4>1 DEF Generate, Exit, Begin, Generating, Writing
      <4>3. pc' \in Busy
        BY <4>2 DEF Busy
      <4>4. DOMAIN Chosen' = 1..Len(Chosen') /\ Len(Chosen') \in Nat
            /\ \A i \in DOMAIN Chosen' : DOMAIN local'[Chosen'[i]].ops = 1..Len(local'[Chosen'[i]].ops)
                                        /\ Len(local'[Chosen'[i]].ops) \in Nat
        <5>1. cmd'.spec # "unknown" /\ cmd' \in Command /\ local' \in [NameSet -> Document]
              /\ Chosen' = ChosenBy(cmd')
          BY <1>0, <4>2 DEF TypeOK, Chosen, ChosenBy
        <5>2. \A q \in Seq(Endpoint) : DOMAIN q = 1..Len(q)
          OBVIOUS
        <5>. HIDE DEF NameSet, Endpoint
        <5>. QED
          BY <5>1, <5>2, ChoiceFacts
      <4>5. \A i \in DOMAIN Chosen' : \A k \in DOMAIN local'[Chosen'[i]].ops : ~Passed(i, k)'
        BY <4>2, <4>4 DEF Passed
      <4>. QED
        BY <4>2, <4>5 DEF Behind
    <3>3. CASE ~Generating' /\ pc' = "pull"
      <4>1. Pull \/ PullSkips \/ PullOne
        BY <1>2, <3>3 DEF Next, PullFails, Generate, NextEndpoint, MakeDirs,
           WriteMarkers, WriteSchema, SchemasWritten, WriteApi, WriteMeta, StepFails, Leave, Publish,
           UserEdits, Exit, Begin
      <4>. QED
        BY <3>3, <4>1 DEF CInv, Behind, Pull, PullSkips, PullOne
    <3>4. CASE ~Generating' /\ pc' # "pull"
      BY <3>4 DEF Behind
    <3>. QED
      BY <3>1, <3>2, <3>3, <3>4
  <2>3. AllPresent'
    <3>. SUFFICES ASSUME pc' = "done", cmd'.kind = "generate", code' = 0
                  PROVE  (\A x \in Selected : Present(x[1], x[2]))'
      BY DEF AllPresent, Generated
    <3>1. CASE Generate
      <4>1. cmd'.spec = "all" /\ Names = <<>>
        BY <3>1 DEF Generate, Exit, Begin
      <4>2. Selected' = {}
        BY <4>1 DEF Selected, Selection, NameSet
      <4>. QED
        BY <4>2
    <3>2. CASE NextEndpoint
      <4>1. /\ pc = "next" /\ endpoint = Len(Ops_) /\ spec = Len(Chosen)
            /\ tree' = tree /\ marks' = marks /\ cmd' = cmd /\ local' = local
        BY <3>2 DEF NextEndpoint
      <4>2. \A x \in Selected : Present(x[1], x[2])
        BY <4>1, EndReached DEF CInv
      <4>3. Selected' = Selected
        BY <4>1 DEF Selected, EndpointsOf, Wanted
      <4>. QED
        BY <4>1, <4>2, <4>3 DEF Present, Place
    <3>3. ASSUME ~Generate, ~NextEndpoint PROVE FALSE
      BY <1>2, <3>3 DEF CInv, Behind, Next, Pull, PullSkips, PullOne, PullFails, MakeDirs, WriteMarkers,
         WriteSchema, SchemasWritten, WriteApi, WriteMeta, StepFails, Leave, Publish, UserEdits, Exit
    <3>. QED
      BY <3>1, <3>2, <3>3
  <2>. QED
    BY <1>0, <2>1, <2>2, <2>3 DEF CInv
<1>. QED
  BY <1>1, <1>2

(***************************************************************************)
(* pull: the specifications it has passed are those of their refs, the     *)
(* others are as it found them.                                            *)
(***************************************************************************)
LEMMA EffectiveIsAsked ==
  ASSUME TypeOK, NEW n \in Git
  PROVE  /\ EffectiveRef(n, cmd.refs) \in Refs
         /\ AskedRef(n, EffectiveRef(n, cmd.refs))
<1>1. cmd.refs \in Seq(Option)
  BY DEF TypeOK, Command
<1>2. EffectiveRef(n, cmd.refs) \in Refs
  BY <1>1, RefFacts
<1>3. CASE Given(n, cmd.refs)
  BY <1>1, <1>3, LastFacts DEF AskedRef, EffectiveRef, LastOption
<1>4. CASE ~Given(n, cmd.refs) /\ Given("all", cmd.refs)
  BY <1>1, <1>4, LastFacts DEF AskedRef, EffectiveRef, LastOption
<1>5. CASE ~Given(n, cmd.refs) /\ ~Given("all", cmd.refs)
  <2>1. EffectiveRef(n, cmd.refs) = CfgRef[n]
    BY <1>5 DEF EffectiveRef
  <2>. QED
    BY <1>2, <1>5, <2>1 DEF AskedRef
<1>. QED
  BY <1>2, <1>3, <1>4, <1>5

(* A specification is chosen once.                                         *)
LEMMA ChosenOnce ==
  ASSUME NEW i \in DOMAIN Chosen, NEW k \in DOMAIN Chosen, Chosen[i] = Chosen[k]
  PROVE  i = k
<1>1. CASE cmd.spec = "all"
  BY <1>1, ArtifactsAssumption DEF Chosen
<1>2. CASE cmd.spec # "all"
  <2>1. DOMAIN Chosen = {1}
    BY <1>2 DEF Chosen
  <2>. QED
    BY <2>1
<1>. QED
  BY <1>1, <1>2

PulledAt(i) ==
  LET n    == Chosen[i]
      past == i < spec \/ (pc = "done" /\ code = 0)
  IN  IF n \in Git /\ past
      THEN \E r \in Refs : AskedRef(n, r) /\ local[n] = remote[n][r]
      ELSE i # spec \/ n \notin Git => local[n] = before[n]

LEMMA PullStep ==
  ASSUME TypeOK, PullLeavesPrefix, cmd.kind = "pull", PullSkips \/ PullOne \/ PullFails
  PROVE  PullLeavesPrefix'
<1>1. /\ pc = "pull" /\ cmd' = cmd /\ remote' = remote /\ before' = before /\ Chosen' = Chosen
      /\ Name = Chosen[spec]
  BY DEF PullSkips, PullOne, PullFails, Chosen, Name, hist
<1>2. spec \in 1..Len(Chosen) /\ Len(Chosen) \in Nat
  BY <1>1, NameFacts DEF Busy
<1>9. cmd.spec # "unknown" /\ Name \in NameSet /\ local \in [NameSet -> Document]
  BY <1>1, NameFacts DEF TypeOK, Busy
<1>3. \A n, r : AskedRef(n, r)' = AskedRef(n, r)
  BY <1>1 DEF AskedRef
<1>. SUFFICES ASSUME NEW i \in DOMAIN Chosen PROVE PulledAt(i)'
  BY <1>1, <1>3 DEF PullLeavesPrefix, PulledAt
<1>4. PulledAt(i)
  BY <1>1, <1>9 DEF PullLeavesPrefix, PulledAt
<1>5. i \in 1..Len(Chosen) /\ (i # spec => Chosen[i] # Name)
  <2>1. spec \in DOMAIN Chosen /\ DOMAIN Chosen = 1..Len(Chosen)
    BY <1>1, LoopFacts DEF TypeOK, Busy
  <2>2. i \in 1..Len(Chosen)
    BY <2>1
  <2>3. i # spec => Chosen[i] # Name
    BY <1>1, <2>1, ChosenOnce
  <2>. QED
    BY <2>2, <2>3
<1>6. ASSUME Chosen[i] # Name \/ local' = local PROVE local'[Chosen[i]] = local[Chosen[i]]
  <2>1. local' = local \/ \E d : local' = [local EXCEPT ![Name] = d]
    BY DEF PullSkips, PullOne, PullFails
  <2>2. Chosen[i] \in NameSet
    BY <1>1, LoopFacts DEF Busy
  <2>. HIDE DEF NameSet
  <2>. QED
    BY <1>9, <1>6, <2>1, <2>2
<1>7. CASE PullFails
  <2>1. pc' = "done" /\ code' = 1 /\ spec' = spec /\ (Name \in Git)
    BY <1>7 DEF PullFails, Exit, at
  <2>2. CASE i = spec
    BY <1>1, <2>1, <2>2, <1>2 DEF PulledAt
  <2>3. CASE i # spec
    <3>1. local'[Chosen[i]] = local[Chosen[i]]
      BY <1>5, <1>6, <2>3
    <3>2. i < spec' \/ (pc' = "done" /\ code' = 0) <=> i < spec \/ (pc = "done" /\ code = 0)
      BY <1>1, <2>1
    <3>. QED
      BY <1>1, <1>3, <1>4, <2>1, <2>3, <3>1, <3>2 DEF PulledAt
  <2>. QED
    BY <2>2, <2>3
<1>8. CASE PullSkips \/ PullOne
  <2>1. \/ pc' = "pull" /\ spec' = spec + 1
        \/ pc' = "done" /\ code' = 0 /\ spec' = spec /\ spec = Len(Chosen)
    <3>1. CASE spec < Len(Chosen)
      BY <1>8, <3>1 DEF PullSkips, PullOne, AfterPull
    <3>2. CASE ~(spec < Len(Chosen))
      <4>1. spec = Len(Chosen)
        BY <1>2, <3>2
      <4>. QED
        BY <1>8, <3>2, <4>1 DEF PullSkips, PullOne, AfterPull, Exit
    <3>. QED
      BY <3>1, <3>2
  <2>2. CASE i = spec
    <3>1. CASE PullSkips
      BY <1>1, <1>3, <1>4, <1>6, <2>1, <2>2, <3>1 DEF PulledAt, PullSkips
    <3>2. CASE PullOne
      <4>1. Name \in Git /\ local'[Name] = remote[Name][EffectiveRef(Name, cmd.refs)]
        <5>. HIDE DEF NameSet
        <5>. QED
          BY <1>9, <3>2 DEF PullOne
      <4>2. i < spec' \/ (pc' = "done" /\ code' = 0)
        BY <1>2, <2>1, <2>2
      <4>. QED
        BY <1>1, <1>3, <2>2, <4>1, <4>2, EffectiveIsAsked DEF PulledAt
    <3>. QED
      BY <1>8, <3>1, <3>2
  <2>3. CASE i # spec
    <3>1. local'[Chosen[i]] = local[Chosen[i]]
      BY <1>5, <1>6, <2>3
    <3>2. i < spec' \/ (pc' = "done" /\ code' = 0) <=> i < spec \/ (pc = "done" /\ code = 0)
      <4>1. (spec' = spec + 1 => (i < spec' <=> i < spec)) /\ (spec = Len(Chosen) => i < spec)
        BY <1>2, <1>5, <2>3
      <4>. QED
        BY <1>1, <2>1, <4>1
    <3>. QED
      BY <1>1, <1>3, <1>4, <2>3, <3>1, <3>2 DEF PulledAt
  <2>. QED
    BY <2>2, <2>3
<1>. QED
  BY <1>7, <1>8

LEMMA PrefixStep ==
  ASSUME CInv, PullLeavesPrefix, [Next]_vars
  PROVE  PullLeavesPrefix'
<1>. SUFFICES ASSUME pc' \in {"pull", "done"}, cmd'.kind = "pull", cmd'.spec # "unknown"
              PROVE  PullLeavesPrefix'
  BY DEF PullLeavesPrefix
<1>1. CASE UNCHANGED vars
  BY <1>1 DEF vars, PullLeavesPrefix, Chosen, AskedRef
<1>2. CASE PullSkips \/ PullOne \/ PullFails
  <2>1. cmd.kind = "pull"
    BY <1>2 DEF PullSkips, PullOne, PullFails
  <2>. QED
    BY <1>2, <2>1, PullStep DEF CInv
<1>3. CASE Pull
  <2>1. local' = local /\ before' = local /\ spec' = 1
        /\ (pc' = "done" => code' = 1 \/ (cmd'.spec = "all" /\ Names = <<>>))
    BY <1>3 DEF Pull, Begin, Exit
  <2>2. CASE pc' = "done" /\ code' # 1
    <3>1. Chosen' = <<>>
      BY <2>1, <2>2 DEF Chosen
    <3>. QED
      BY <3>1 DEF PullLeavesPrefix
  <2>3. CASE ~(pc' = "done" /\ code' # 1)
    <3>1. DOMAIN Chosen' \subseteq Nat \ {0}
      <4>1. Chosen' = Names \/ Chosen' = <<cmd'.spec>>
        BY DEF Chosen
      <4>. QED
        BY <4>1, ArtifactsAssumption
    <3>2. \A i \in DOMAIN Chosen' : ~(i < spec' \/ (pc' = "done" /\ code' = 0))
      BY <2>1, <2>3, <3>1
    <3>. QED
      BY <2>1, <3>2 DEF PullLeavesPrefix
  <2>. QED
    BY <2>2, <2>3
<1>4. ASSUME Next, ~(Pull \/ PullSkips \/ PullOne \/ PullFails) PROVE FALSE
  BY <1>4 DEF CInv, Behind, Generating, Next, Generate, NextEndpoint, MakeDirs, WriteMarkers,
     WriteSchema, SchemasWritten, WriteApi, WriteMeta, StepFails, Leave, Publish, UserEdits, Exit,
     Writing
<1>. QED
  BY <1>1, <1>2, <1>3, <1>4

(* A pull that stops at a specification leaves those before it as their    *)
(* refs have them and those after it as it found them (pull.py, run_pull). *)
THEOREM PullAlwaysLeavesPrefix == Spec => []PullLeavesPrefix
<1>1. Init => CInv /\ PullLeavesPrefix
  BY TypeInit DEF Init, CInv, Written, Behind, Generating, AllPresent, Generated, Writing,
     PullLeavesPrefix
<1>2. CInv /\ PullLeavesPrefix /\ [Next]_vars => (CInv /\ PullLeavesPrefix)'
  BY PresentInv, PrefixStep
<1>. QED
  BY <1>1, <1>2, PTL DEF Spec
-----------------------------------------------------------------------------
(***************************************************************************)
(* A run leaves every file of an endpoint it has passed as it should be:   *)
(* rendered, or as the run found it.  What it has written is not written   *)
(* again, and what it is still to write is as it was found, since the      *)
(* endpoints it is about are in directories of their own.                  *)
(***************************************************************************)
SettledAll(a, b, e) ==
  /\ Settled(b.api, a.api, e) /\ Settled(b.meta, a.meta, e)
  /\ \A i \in DOMAIN e.statuses : Settled(b.schemas[e.statuses[i]], a.schemas[e.statuses[i]], e)
Fresh(n, e) == SettledAll(tree[Place(n, e)], found[Place(n, e)], e)

(* What the run has validated, and the files of the endpoint it is at.     *)
Validated ==
  /\ Generating => ~Invalid(cmd.spec, cmd.ids)
  /\ pc \in Writing => Wanted(cmd.ids, This)
Rewritten ==
  /\ pc \in {"schemas", "api", "meta"} =>
       \A i \in DOMAIN This.statuses :
         i < status \/ pc # "schemas" =>
           Settled(found[Here].schemas[This.statuses[i]], tree[Here].schemas[This.statuses[i]], This)
  /\ pc = "meta" => Settled(found[Here].api, tree[Here].api, This)
Unwritten ==
  /\ pc \in Writing => tree[Here].meta = found[Here].meta
  /\ pc \in Writing \ {"meta"} => tree[Here].api = found[Here].api
  /\ pc \in {"dirs", "markers"} => tree[Here].schemas = found[Here].schemas
  /\ pc = "schemas" =>
       \A s \in Statuses : \/ tree[Here].schemas[s] = found[Here].schemas[s]
                            \/ \E i \in DOMAIN This.statuses : i < status /\ s = This.statuses[i]

(* The endpoints the run has passed, and those it will come to.            *)
Renewed ==
  Generating =>
    \A i \in DOMAIN Chosen : \A k \in DOMAIN local[Chosen[i]].ops :
      Passed(i, k) /\ Wanted(cmd.ids, local[Chosen[i]].ops[k]) =>
        Fresh(Chosen[i], local[Chosen[i]].ops[k])
Ahead(i, k) == ~Passed(i, k) /\ ~(pc \in Writing /\ i = spec /\ k = endpoint)
Untouched ==
  Generating =>
    \A i \in DOMAIN Chosen : \A k \in DOMAIN local[Chosen[i]].ops :
      Ahead(i, k) /\ Wanted(cmd.ids, local[Chosen[i]].ops[k]) =>
        tree[Place(Chosen[i], local[Chosen[i]].ops[k])] = found[Place(Chosen[i], local[Chosen[i]].ops[k])]

(* At the end of a run.                                                    *)
AllFresh == Generated => \A x \in Selected : Fresh(x[1], x[2])

FInv == /\ TypeOK /\ Written /\ Behind /\ Validated
        /\ Rewritten /\ Unwritten /\ Renewed /\ Untouched /\ AllFresh

(* A step writes where the command is and nowhere else.                    *)
LEMMA TreeFrame ==
  ASSUME TypeOK, Next, pc # "idle", NEW p \in Places, ~(pc \in Writing /\ p = Here)
  PROVE  tree'[p] = tree[p]
<1>1. tree \in [Places -> Artifact]
  BY DEF TypeOK
<1>2. tree' = tree \/ (pc \in Writing /\ \E b : tree' = [tree EXCEPT ![Here] = b])
  <2>1. CASE StepFails
    BY <2>1 DEF StepFails
  <2>2. CASE ~StepFails
    BY <2>2 DEF Next, Pull, PullSkips, PullOne, PullFails, Generate, NextEndpoint, MakeDirs, WriteMarkers,
       WriteSchema, SchemasWritten, WriteApi, WriteMeta, Leave, Publish, UserEdits, Writing
  <2>. QED
    BY <2>1, <2>2
<1>. QED
  BY <1>1, <1>2

LEMMA PlaceFacts ==
  ASSUME NEW n \in NameSet, NEW e \in Endpoint
  PROVE  Place(n, e) \in Places
<1>1. SpecSegOf[n] \in SpecSegs
  BY ArtifactsAssumption
<1>2. IdOf[e.op] \in Ids /\ SegOf[IdOf[e.op]] \in {SegOf[x] : x \in Ids}
  BY ArtifactsAssumption DEF Endpoint, Ids
<1>. QED
  BY <1>1, <1>2 DEF Place, Places

(* What validation has made sure of.                                       *)
LEMMA Apart ==
  ASSUME TypeOK, Validated, pc \in Writing,
         NEW i \in DOMAIN Chosen, NEW k \in DOMAIN local[Chosen[i]].ops,
         Wanted(cmd.ids, local[Chosen[i]].ops[k]), i # spec \/ k # endpoint
  PROVE  Place(Chosen[i], local[Chosen[i]].ops[k]) # Here
<1>1. /\ ~Invalid(cmd.spec, cmd.ids) /\ Wanted(cmd.ids, This) /\ pc \in Busy
      /\ cmd \in Command /\ cmd.spec # "unknown"
  BY DEF Validated, Generating, Busy, TypeOK
<1>2. /\ Chosen[i] \in NameSet /\ Name \in NameSet /\ spec \in DOMAIN Chosen /\ Name = Chosen[spec]
      /\ Ops_ = local[Name].ops /\ endpoint \in DOMAIN Ops_ /\ This = Ops_[endpoint]
  <2>1. /\ Chosen[i] \in NameSet /\ Name \in NameSet /\ spec \in DOMAIN Chosen
        /\ endpoint \in 0..Len(Ops_) /\ endpoint # 0
    BY <1>1, LoopFacts, NameFacts DEF TypeOK
  <2>2. DOMAIN Ops_ = 1..Len(Ops_)
    BY <1>1, <2>1, LoopFacts DEF Ops_, Name
  <2>3. endpoint \in DOMAIN Ops_
    BY <2>1, <2>2, NameFacts, <1>1
  <2>. QED
    BY <2>1, <2>3 DEF Name, Ops_, This
<1>3. \A m \in DOMAIN Chosen : Chosen[m] \in Selection(cmd.spec)
  <2>1. CASE cmd.spec = "all"
    BY <2>1 DEF Chosen, Selection, NameSet
  <2>2. CASE cmd.spec # "all"
    <3>1. cmd.spec \in NameSet /\ Chosen = <<cmd.spec>>
      BY <1>1, <2>2 DEF Command, Chosen
    <3>. QED
      BY <2>2, <3>1 DEF Selection
  <2>. QED
    BY <2>1, <2>2
<1>4. CASE i = spec
  <2>1. k \in Kept(Name, cmd.ids) /\ endpoint \in Kept(Name, cmd.ids) /\ k # endpoint
    BY <1>1, <1>2, <1>4 DEF Kept
  <2>. QED
    BY <1>1, <1>2, <1>3, <1>4, <2>1 DEF Invalid, Here
<1>5. CASE i # spec
  <2>1. Chosen[i] # Name
    BY <1>2, <1>5, ChosenOnce
  <2>2. local[Chosen[i]].ops # <<>> /\ local[Name].ops # <<>>
    BY <1>2
  <2>3. SpecSegOf[Chosen[i]] # SpecSegOf[Name]
    BY <1>1, <1>2, <1>3, <2>1, <2>2 DEF Invalid
  <2>. QED
    BY <2>3 DEF Here, Place
<1>. QED
  BY <1>4, <1>5

LEMMA ValidatedStep ==
  ASSUME TypeOK, Validated, Next
  PROVE  Validated'
<1>1. CASE Generate
  <2>1. pc' \notin Writing
    BY <1>1 DEF Generate, Exit, Begin, Writing
  <2>2. CASE Generating'
    <3>1. PICK s, ids : cmd'.spec = s /\ cmd'.ids = ids /\ (Invalid(s, ids) => pc' = "done")
      BY <1>1 DEF Generate, Exit
    <3>2. local' = local /\ pc' # "done"
      BY <1>1, <2>2 DEF Generate, Generating, Writing
    <3>3. Invalid(cmd.spec, cmd.ids)' = Invalid(s, ids)
      BY <3>1, <3>2 DEF Invalid, Kept, Wanted
    <3>. QED
      BY <2>1, <3>1, <3>2, <3>3 DEF Validated
  <2>. QED
    BY <2>1, <2>2 DEF Validated
<1>2. CASE Generating /\ Generating'
  <2>1. cmd' = cmd /\ local' = local /\ Chosen' = Chosen /\ (NextEndpoint \/ UNCHANGED <<spec, endpoint>>)
    BY <1>2, LoopStep
  <2>2. Invalid(cmd.spec, cmd.ids)' = Invalid(cmd.spec, cmd.ids)
    BY <2>1 DEF Invalid, Kept, Wanted
  <2>3. pc' \in Writing => Wanted(cmd.ids, This)'
    <3>1. CASE NextEndpoint
      <4>1. pc' \in Writing => /\ Wanted(cmd.ids, Ops_[endpoint + 1])
                               /\ endpoint' = endpoint + 1 /\ spec' = spec
        BY <3>1 DEF NextEndpoint, Writing, Exit
      <4>2. spec' = spec /\ endpoint' = endpoint + 1 => This' = Ops_[endpoint + 1]
        BY <2>1 DEF This, Ops_, Name
      <4>. QED
        BY <2>1, <4>1, <4>2 DEF Wanted
    <3>2. CASE UNCHANGED <<spec, endpoint>> /\ ~NextEndpoint
      <4>1. pc' \in Writing => pc \in Writing
        BY <1>2, <3>2 DEF Next, Pull, PullSkips, PullOne, PullFails, Generate, Leave, Publish, UserEdits,
           Generating, Writing, MakeDirs, WriteMarkers, WriteSchema, SchemasWritten, WriteApi, WriteMeta,
           StepFails, Exit, Begin
      <4>2. This' = This
        BY <2>1, <3>2 DEF This, Ops_, Name
      <4>. QED
        BY <2>1, <4>1, <4>2 DEF Validated, Wanted
    <3>. QED
      BY <2>1, <3>1, <3>2
  <2>. QED
    BY <1>2, <2>2, <2>3 DEF Validated
<1>3. CASE ~Generate /\ ~Generating
  <2>1. ~Generating'
    BY <1>3 DEF Next, Pull, PullSkips, PullOne, PullFails, NextEndpoint, MakeDirs,
       WriteMarkers, WriteSchema, SchemasWritten, WriteApi, WriteMeta, StepFails, Leave, Publish,
       UserEdits, Exit, Begin, AfterPull, Generating, Writing
  <2>. QED
    BY <2>1 DEF Validated, Generating
<1>4. CASE ~Generating'
  BY <1>4 DEF Validated, Generating
<1>. QED
  BY <1>1, <1>2, <1>3, <1>4

(* A write, done or skipped, leaves a file as it should be.                *)
LEMMA SettledFacts ==
  ASSUME NEW e \in Endpoint, NEW old, NEW new, new = old \/ Settled(old, new, e)
  PROVE  Settled(old, Put(new, Rendered(e)), e)
BY FileFacts DEF Settled, Put, Overwrites

LEMMA RewrittenStep ==
  ASSUME TypeOK, Written, Rewritten, Unwritten, Next, Generating, Generating'
  PROVE  Rewritten' /\ (~NextEndpoint => Unwritten') /\ (WriteMeta => Fresh(Name, This)')
<1>0. cmd' = cmd /\ local' = local /\ Chosen' = Chosen /\ found' = found /\ pc # "idle"
  BY LoopStep
<1>s. \A old, new, e : Settled(old, new, e)' = Settled(old, new, e)
  BY <1>0 DEF Settled, Rendered
<1>2. CASE MakeDirs \/ WriteMarkers \/ WriteSchema \/ SchemasWritten \/ WriteApi \/ WriteMeta
  <2>1. pc \in Writing /\ spec' = spec /\ endpoint' = endpoint
    BY <1>2 DEF MakeDirs, WriteMarkers, WriteSchema, SchemasWritten, WriteApi, WriteMeta, Writing, at
  <2>2. Name' = Name /\ This' = This /\ Here' = Here
    BY <1>0, <2>1 DEF Name, Ops_, This, Here, Place
  <2>. DEFINE a == tree[Here]
              b == found[Here]
              file == Rendered(This)
              n == tree'[Here]
  <2>3. /\ tree \in [Places -> Artifact] /\ a \in Artifact /\ Here \in Places /\ This \in Endpoint
        /\ a = [here |-> a.here, tests |-> a.tests, marker |-> a.marker, schemas |-> a.schemas,
                api |-> a.api, meta |-> a.meta]
        /\ a.schemas \in [Statuses -> File]
    BY <2>1, HereFacts DEF TypeOK, Artifact
  <2>4. \A old, new : new = old \/ Settled(old, new, This) => Settled(old, Put(new, file), This)
    BY <2>3, SettledFacts
  <2>. DEFINE Done(m) == \A i \in DOMAIN This.statuses :
                           i < m => Settled(b.schemas[This.statuses[i]], n.schemas[This.statuses[i]], This)
              All == \A i \in DOMAIN This.statuses :
                       Settled(b.schemas[This.statuses[i]], n.schemas[This.statuses[i]], This)
  <2>r. /\ (pc' = "schemas" => Done(status'))
        /\ (pc' \in {"api", "meta"} => All)
        /\ (pc' = "meta" => Settled(b.api, n.api, This))
        => Rewritten'
    BY <1>0, <1>s, <2>2 DEF Rewritten
  <2>u. /\ (pc' \in Writing => n.meta = b.meta)
        /\ (pc' \in Writing \ {"meta"} => n.api = b.api)
        /\ (pc' \in {"dirs", "markers"} => n.schemas = b.schemas)
        /\ (pc' = "schemas" =>
              \A s \in Statuses : \/ n.schemas[s] = b.schemas[s]
                                   \/ \E i \in DOMAIN This.statuses : i < status' /\ s = This.statuses[i])
        => Unwritten'
    BY <1>0, <2>2 DEF Unwritten
  <2>5. CASE MakeDirs
    <3>1. /\ pc = "dirs" /\ pc' = "markers"
          /\ n.schemas = a.schemas /\ n.api = a.api /\ n.meta = a.meta
      BY <2>3, <2>5 DEF MakeDirs
    <3>2. a.schemas = b.schemas /\ a.api = b.api /\ a.meta = b.meta
      BY <3>1 DEF Unwritten, Writing
    <3>. HIDE DEF a, b, n
    <3>. QED
      BY <2>5, <2>r, <2>u, <3>1, <3>2 DEF MakeDirs, WriteMeta
  <2>6. CASE WriteMarkers
    <3>1. /\ pc = "markers" /\ pc' = "schemas" /\ status' = 1
          /\ n.schemas = a.schemas /\ n.api = a.api /\ n.meta = a.meta
      BY <2>3, <2>6 DEF WriteMarkers
    <3>2. a.schemas = b.schemas /\ a.api = b.api /\ a.meta = b.meta
      BY <3>1 DEF Unwritten, Writing
    <3>3. \A i \in DOMAIN This.statuses : ~(i < status')
      BY <2>1, <3>1, StatusFacts
    <3>. HIDE DEF a, b, n
    <3>. QED
      BY <2>6, <2>r, <2>u, <3>1, <3>2, <3>3 DEF WriteMarkers, WriteMeta
  <2>7. CASE WriteSchema
    <3>. DEFINE t == This.statuses[status]
    <3>1. pc = "schemas" /\ pc' = "schemas" /\ status' = status + 1 /\ status \in DOMAIN This.statuses
          /\ tree' = [tree EXCEPT ![Here] = WithSchema(a, t, file)]
      BY <2>1, <2>7, StatusFacts DEF WriteSchema
    <3>2. /\ n.schemas = [a.schemas EXCEPT ![t] = Put(a.schemas[t], file)]
          /\ n.api = a.api /\ n.meta = a.meta
      BY <2>3, <3>1 DEF WithSchema
    <3>3. /\ t \in Statuses /\ \A i \in DOMAIN This.statuses : This.statuses[i] \in Statuses
          /\ \A i \in DOMAIN This.statuses : (i < status') <=> (i < status \/ i = status)
      BY <2>1, <3>1, StatusFacts
    <3>4. /\ a.api = b.api /\ a.meta = b.meta
          /\ \A s \in Statuses : \/ a.schemas[s] = b.schemas[s]
                                  \/ \E i \in DOMAIN This.statuses : i < status /\ s = This.statuses[i]
          /\ \A i \in DOMAIN This.statuses : i < status =>
               Settled(b.schemas[This.statuses[i]], a.schemas[This.statuses[i]], This)
      BY <3>1 DEF Unwritten, Rewritten, Writing
    <3>. HIDE DEF a, b, n, file, t
    <3>5. a.schemas[t] = b.schemas[t] \/ Settled(b.schemas[t], a.schemas[t], This)
      BY <3>3, <3>4
    <3>6. Settled(b.schemas[t], Put(a.schemas[t], file), This)
      BY <2>4, <3>5
    <3>7. /\ n.schemas[t] = Put(a.schemas[t], file)
          /\ \A s \in Statuses : s # t => n.schemas[s] = a.schemas[s]
      BY <2>3, <3>2, <3>3
    <3>8. ASSUME NEW i \in DOMAIN This.statuses, i < status'
          PROVE  Settled(b.schemas[This.statuses[i]], n.schemas[This.statuses[i]], This)
      <4>1. CASE This.statuses[i] = t
        BY <3>6, <3>7, <4>1
      <4>2. CASE This.statuses[i] # t
        <5>1. i < status
          BY <3>3, <3>8, <4>2 DEF t
        <5>. QED
          BY <3>3, <3>4, <3>7, <4>2, <5>1
      <4>. QED
        BY <4>1, <4>2
    <3>9. ASSUME NEW s \in Statuses
          PROVE  \/ n.schemas[s] = b.schemas[s]
                 \/ \E i \in DOMAIN This.statuses : i < status' /\ s = This.statuses[i]
      <4>1. CASE s = t
        BY <3>1, <3>3, <4>1 DEF t
      <4>2. CASE s # t
        BY <3>3, <3>4, <3>7, <4>2
      <4>. QED
        BY <4>1, <4>2
    <3>10. Rewritten'
      BY <2>r, <3>1, <3>8
    <3>11. Unwritten'
      BY <2>u, <3>1, <3>2, <3>4, <3>9
    <3>. QED
      BY <3>1, <3>10, <3>11 DEF WriteMeta
  <2>8. CASE SchemasWritten
    <3>1. /\ pc = "schemas" /\ pc' = "api" /\ n = a
          /\ \A i \in DOMAIN This.statuses : i < status
      BY <2>1, <2>8, StatusFacts DEF SchemasWritten
    <3>2. a.api = b.api /\ a.meta = b.meta
      BY <3>1 DEF Unwritten, Writing
    <3>3. \A i \in DOMAIN This.statuses :
            Settled(b.schemas[This.statuses[i]], a.schemas[This.statuses[i]], This)
      BY <3>1 DEF Rewritten
    <3>. HIDE DEF a, b, n
    <3>. QED
      BY <2>r, <2>u, <3>1, <3>2, <3>3 DEF WriteMeta
  <2>9. CASE WriteApi
    <3>1. pc = "api" /\ pc' = "meta" /\ n = WithApi(a, file)
      BY <2>3, <2>9 DEF WriteApi
    <3>2. n.api = Put(a.api, file) /\ n.schemas = a.schemas /\ n.meta = a.meta
      BY <2>3, <3>1 DEF WithApi
    <3>3. a.api = b.api /\ a.meta = b.meta
      BY <3>1 DEF Unwritten, Writing
    <3>4. \A i \in DOMAIN This.statuses :
            Settled(b.schemas[This.statuses[i]], a.schemas[This.statuses[i]], This)
      BY <3>1 DEF Rewritten
    <3>5. Settled(b.api, n.api, This)
      BY <2>4, <3>2, <3>3
    <3>. HIDE DEF a, b, n
    <3>. QED
      BY <2>r, <2>u, <3>1, <3>2, <3>3, <3>4, <3>5 DEF WriteMeta
  <2>10. CASE WriteMeta
    <3>1. pc = "meta" /\ pc' = "next" /\ n = WithMeta(a, file)
      BY <2>3, <2>10 DEF WriteMeta
    <3>2. n.meta = Put(a.meta, file) /\ n.schemas = a.schemas /\ n.api = a.api
      BY <2>3, <3>1 DEF WithMeta
    <3>3. a.meta = b.meta
      BY <3>1 DEF Unwritten, Writing
    <3>4. /\ \A i \in DOMAIN This.statuses :
               Settled(b.schemas[This.statuses[i]], n.schemas[This.statuses[i]], This)
          /\ Settled(b.api, n.api, This)
      BY <3>1, <3>2 DEF Rewritten
    <3>5. Settled(b.meta, n.meta, This)
      BY <2>4, <3>2, <3>3
    <3>6. Fresh(Name, This)'
      <4>1. Place(Name, This)' = Here
        BY <2>2 DEF Here, Place
      <4>. QED
        BY <1>0, <1>s, <2>2, <3>4, <3>5, <4>1 DEF Fresh, SettledAll
    <3>7. Rewritten' /\ Unwritten'
      BY <3>1 DEF Rewritten, Unwritten, Writing
    <3>. QED
      BY <3>6, <3>7
  <2>. QED
    BY <1>2, <2>5, <2>6, <2>7, <2>8, <2>9, <2>10
<1>3. ASSUME ~(MakeDirs \/ WriteMarkers \/ WriteSchema \/ SchemasWritten \/ WriteApi \/ WriteMeta)
      PROVE  pc' \in {"next", "dirs"} /\ NextEndpoint
  BY <1>3 DEF Next, Pull, PullSkips, PullOne, PullFails, Generate, NextEndpoint, StepFails,
     Leave, Publish, UserEdits, Exit, Begin, AfterPull, Writing, Generating
<1>. QED
  BY <1>2, <1>3 DEF Rewritten, Writing

(* An endpoint that is still to come was to come before the step.          *)
LEMMA AheadStep ==
  ASSUME TypeOK, Next, Generating, Generating',
         NEW i \in DOMAIN Chosen, NEW k \in DOMAIN local[Chosen[i]].ops,
         Ahead(i, k)' \/ (NextEndpoint /\ pc' = "dirs" /\ i = spec' /\ k = endpoint')
  PROVE  Ahead(i, k)
<1>1. pc \in Busy /\ (NextEndpoint \/ UNCHANGED <<spec, endpoint>>)
  BY LoopStep
<1>2. i \in Nat /\ k \in Nat /\ spec \in Nat /\ endpoint \in Nat
  <2>1. /\ i \in 1..Len(Chosen) /\ Len(Chosen) \in Nat /\ spec \in 1..Len(Chosen)
        /\ Len(local[Chosen[i]].ops) \in Nat /\ k \in 1..Len(local[Chosen[i]].ops)
        /\ endpoint \in 0..Len(Ops_) /\ Len(Ops_) \in Nat
    BY <1>1, LoopFacts, NameFacts DEF TypeOK, Generating
  <2>. QED
    BY <2>1
<1>3. CASE NextEndpoint
  <2>1. pc = "next" /\ \/ pc' \in {"next", "dirs"} /\ spec' = spec /\ endpoint' = endpoint + 1
                       \/ pc' = "next" /\ spec' = spec + 1 /\ endpoint' = 0
    BY <1>3 DEF NextEndpoint, Exit, Generating, Writing
  <2>. QED
    BY <1>2, <2>1 DEF Ahead, Passed, Writing
<1>4. CASE ~NextEndpoint
  <2>1. pc \in Writing /\ UNCHANGED <<spec, endpoint>> /\ pc' \in Writing \cup {"next"}
    BY <1>1, <1>4 DEF Next, Pull, PullSkips, PullOne, PullFails, Generate, MakeDirs, WriteMarkers,
       WriteSchema, SchemasWritten, WriteApi, WriteMeta, StepFails, Leave, Publish, UserEdits, Exit,
       Generating, Writing
  <2>2. Ahead(i, k)'
    BY <1>4
  <2>3. pc \in Writing => pc # "next"
    BY DEF Writing
  <2>4. CASE pc' \in Writing
    BY <2>1, <2>2, <2>3, <2>4 DEF Ahead, Passed
  <2>5. CASE pc' = "next"
    BY <2>1, <2>2, <2>3, <2>5 DEF Ahead, Passed
  <2>. QED
    BY <2>1, <2>4, <2>5
<1>. QED
  BY <1>3, <1>4

LEMMA UntouchedStep ==
  ASSUME FInv, Next, Generating, Generating'
  PROVE  Untouched' /\ (NextEndpoint => Unwritten')
<1>1. cmd' = cmd /\ local' = local /\ Chosen' = Chosen /\ found' = found /\ pc \in Busy /\ pc # "idle"
      /\ TypeOK
  BY LoopStep DEF FInv
<1>2. ASSUME NEW i \in DOMAIN Chosen, NEW k \in DOMAIN local[Chosen[i]].ops,
             NEW p, p = Place(Chosen[i], local[Chosen[i]].ops[k]),
             Ahead(i, k)' \/ (NextEndpoint /\ pc' = "dirs" /\ i = spec' /\ k = endpoint'),
             Wanted(cmd.ids, local[Chosen[i]].ops[k])
      PROVE  tree'[p] = found'[p]
  <2>1. Ahead(i, k) /\ p \in Places
    BY <1>1, <1>2, AheadStep, LoopFacts, PlaceFacts
  <2>2. tree[p] = found[p]
    BY <1>2, <2>1 DEF FInv, Untouched
  <2>3. ~(pc \in Writing /\ p = Here)
    BY <1>1, <1>2, <2>1, Apart DEF FInv, Ahead
  <2>. QED
    BY <1>1, <2>1, <2>2, <2>3, TreeFrame
<1>3. Untouched'
  <2>. SUFFICES ASSUME NEW i \in DOMAIN Chosen', NEW k \in DOMAIN local'[Chosen'[i]].ops,
                       Ahead(i, k)', Wanted(cmd.ids, local[Chosen[i]].ops[k])'
                PROVE  (tree[Place(Chosen[i], local[Chosen[i]].ops[k])]
                          = found[Place(Chosen[i], local[Chosen[i]].ops[k])])'
    BY DEF Untouched
  <2>1. i \in DOMAIN Chosen /\ k \in DOMAIN local[Chosen[i]].ops /\ Wanted(cmd.ids, local[Chosen[i]].ops[k])
    BY <1>1 DEF Wanted
  <2>. QED
    BY <1>1, <1>2, <2>1 DEF Place
<1>4. ASSUME NextEndpoint PROVE Unwritten'
  <2>1. CASE pc' \notin Writing
    BY <2>1 DEF Unwritten, Writing
  <2>2. CASE pc' \in Writing
    <3>1. /\ pc' = "dirs" /\ spec' = spec /\ endpoint' = endpoint + 1 /\ endpoint < Len(Ops_)
          /\ Wanted(cmd.ids, Ops_[endpoint + 1])
      BY <1>4, <2>2 DEF NextEndpoint, Writing, Exit
    <3>2. spec \in DOMAIN Chosen /\ endpoint' \in DOMAIN local[Chosen[spec]].ops
          /\ Ops_ = local[Chosen[spec]].ops
      BY <1>1, <3>1, LoopFacts, NameFacts DEF TypeOK, Generating, Ops_, Name
    <3>3. Here' = Place(Chosen[spec], local[Chosen[spec]].ops[endpoint'])
      BY <1>1, <3>1 DEF Here, This, Ops_, Name, Place
    <3>4. tree'[Here'] = found'[Here']
      BY <1>2, <1>4, <3>1, <3>2, <3>3
    <3>. QED
      BY <3>1, <3>4 DEF Unwritten, Writing
  <2>. QED
    BY <2>1, <2>2
<1>. QED
  BY <1>3, <1>4

LEMMA RenewedStep ==
  ASSUME FInv, Next, Generating, Generating'
  PROVE  Renewed'
<1>1. cmd' = cmd /\ local' = local /\ Chosen' = Chosen /\ found' = found /\ pc \in Busy /\ pc # "idle"
      /\ TypeOK
  BY LoopStep DEF FInv
<1>. SUFFICES ASSUME NEW i \in DOMAIN Chosen, NEW k \in DOMAIN local[Chosen[i]].ops,
                     NEW n, NEW e, n = Chosen[i], e = local[n].ops[k],
                     Passed(i, k)', Wanted(cmd.ids, e)
              PROVE  Fresh(n, e)'
  <2>. SUFFICES ASSUME NEW i \in DOMAIN Chosen', NEW k \in DOMAIN local'[Chosen'[i]].ops,
                       Passed(i, k)', Wanted(cmd.ids, local[Chosen[i]].ops[k])'
                PROVE  Fresh(Chosen[i], local[Chosen[i]].ops[k])'
    BY DEF Renewed
  <2>1. PICK n, e : n = Chosen[i] /\ e = local[n].ops[k]
    OBVIOUS
  <2>2. i \in DOMAIN Chosen /\ k \in DOMAIN local[Chosen[i]].ops /\ Wanted(cmd.ids, e)
    BY <1>1, <2>1 DEF Wanted
  <2>3. Fresh(n, e)'
    BY <2>1, <2>2
  <2>. QED
    BY <1>1, <2>1, <2>3 DEF Fresh, Place
<1>2. n \in NameSet /\ e \in Endpoint /\ Place(n, e) \in Places
  BY <1>1, LoopFacts, PlaceFacts
<1>3. CASE Passed(i, k)
  <2>1. Fresh(n, e)
    BY <1>3 DEF FInv, Renewed
  <2>2. pc \in Writing => i # spec \/ k # endpoint
    <3>1. i \in 1..Len(Chosen) /\ k \in 1..Len(local[Chosen[i]].ops) /\ spec \in 1..Len(Chosen)
          /\ Len(Chosen) \in Nat
      BY <1>1, LoopFacts, NameFacts
    <3>2. pc \in Writing => pc # "next" /\ endpoint \in Nat
      BY <1>1, NameFacts DEF Writing, TypeOK
    <3>3. ASSUME pc \in Writing, i = spec, k = endpoint PROVE FALSE
      BY <1>3, <3>1, <3>2, <3>3 DEF Passed
    <3>. QED
      BY <3>3
  <2>3. tree'[Place(n, e)] = tree[Place(n, e)]
    BY <1>1, <1>2, <2>2, Apart, TreeFrame DEF FInv
  <2>5. found'[Place(n, e)] = found[Place(n, e)] /\ Place(n, e)' = Place(n, e)
    BY <1>1 DEF Place
  <2>6. PICK a, b : a = tree[Place(n, e)] /\ b = found[Place(n, e)] /\ SettledAll(a, b, e)
    BY <2>1 DEF Fresh
  <2>7. SettledAll(a, b, e)'
    BY <1>1, <2>6 DEF SettledAll, Settled, Rendered
  <2>8. a = tree'[Place(n, e)'] /\ b = found'[Place(n, e)']
    BY <2>3, <2>5, <2>6
  <2>. QED
    BY <2>7, <2>8 DEF Fresh
<1>4. CASE WriteMeta /\ i = spec /\ k = endpoint
  <2>1. Fresh(Name, This)'
    BY <1>4, RewrittenStep DEF FInv
  <2>2. spec' = spec /\ endpoint' = endpoint
    BY <1>4 DEF WriteMeta, at
  <2>3. Name' = n /\ This' = e
    BY <1>1, <1>4, <2>2 DEF Name, This, Ops_
  <2>. QED
    BY <2>1, <2>3 DEF Fresh, Place
<1>. QED
  BY <1>1, <1>3, <1>4, PassedStep

LEMMA FreshStep ==
  ASSUME CInv, FInv, CInv', [Next]_vars
  PROVE  FInv'
<1>0. TypeOK' /\ Written' /\ Behind'
  BY DEF CInv
<1>1. CASE UNCHANGED vars
  <2>1. /\ tree' = tree /\ marks' = marks /\ pc' = pc /\ cmd' = cmd /\ local' = local /\ spec' = spec
        /\ endpoint' = endpoint /\ status' = status /\ code' = code /\ found' = found
    BY <1>1 DEF vars
  <2>2. Chosen' = Chosen /\ Name' = Name /\ Ops_' = Ops_ /\ This' = This /\ Here' = Here
    BY <2>1 DEF Chosen, Name, Ops_, This, Here, Place
  <2>3. Validated'
    BY <2>1, <2>2 DEF FInv, Validated, Generating, Invalid, Kept, Wanted
  <2>4. \A old, new, e : Settled(old, new, e)' = Settled(old, new, e)
    BY <2>1 DEF Settled, Rendered
  <2>5. Rewritten' /\ Unwritten'
    <3>1. Rewritten'
      BY <2>1, <2>2, <2>4 DEF FInv, Rewritten
    <3>2. Unwritten'
      BY <2>1, <2>2 DEF FInv, Unwritten
    <3>. QED
      BY <3>1, <3>2
  <2>6. \A n, e : Fresh(n, e)' = Fresh(n, e)
    BY <2>1, <2>4 DEF Fresh, SettledAll, Place
  <2>7. Renewed'
    BY <2>1, <2>2, <2>6 DEF FInv, Renewed, Generating, Passed, Wanted
  <2>8. Untouched'
    BY <2>1, <2>2 DEF FInv, Untouched, Generating, Ahead, Passed, Wanted, Place
  <2>9. AllFresh'
    <3>1. Selected' = Selected
      BY <2>1 DEF Selected, EndpointsOf, Wanted
    <3>. QED
      BY <2>1, <2>6, <3>1 DEF FInv, AllFresh, Generated
  <2>. QED
    BY <1>0, <2>3, <2>5, <2>7, <2>8, <2>9 DEF FInv
<1>2. CASE Next
  <2>1. Validated'
    BY <1>2, ValidatedStep DEF FInv
  <2>2. Rewritten' /\ Unwritten' /\ Renewed' /\ Untouched'
    <3>1. CASE Generating /\ Generating'
      BY <1>2, <3>1, RewrittenStep, RenewedStep, UntouchedStep DEF FInv
    <3>2. CASE ~Generating'
      BY <3>2 DEF Rewritten, Unwritten, Renewed, Untouched, Generating, Writing
    <3>3. CASE ~Generating /\ Generating'
      <4>1. Generate
        BY <1>2, <3>3 DEF Next, Pull, PullSkips, PullOne, PullFails, NextEndpoint, MakeDirs,
           WriteMarkers, WriteSchema, SchemasWritten, WriteApi, WriteMeta, StepFails, Leave, Publish,
           UserEdits, Exit, Begin, AfterPull, Generating, Writing
      <4>2. pc' = "next" /\ spec' = 1 /\ endpoint' = 0 /\ tree' = tree /\ found' = tree
        BY <3>3, <4>1 DEF Generate, Exit, Begin, Generating, Writing
      <4>3. \A i \in DOMAIN Chosen' : \A k \in DOMAIN local'[Chosen'[i]].ops : ~Passed(i, k)'
        <5>1. /\ DOMAIN Chosen' = 1..Len(Chosen') /\ Len(Chosen') \in Nat
              /\ \A i \in DOMAIN Chosen' : /\ DOMAIN local'[Chosen'[i]].ops = 1..Len(local'[Chosen'[i]].ops)
                                           /\ Len(local'[Chosen'[i]].ops) \in Nat
          <6>1. cmd'.spec # "unknown" /\ cmd' \in Command /\ local' \in [NameSet -> Document]
                /\ Chosen' = ChosenBy(cmd')
            BY <1>0, <4>2 DEF TypeOK, Chosen, ChosenBy
          <6>2. \A q \in Seq(Endpoint) : DOMAIN q = 1..Len(q)
            OBVIOUS
          <6>. HIDE DEF NameSet, Endpoint
          <6>. QED
            BY <6>1, <6>2, ChoiceFacts
        <5>. QED
          BY <4>2, <5>1 DEF Passed
      <4>4. Renewed'
        BY <4>3 DEF Renewed
      <4>5. Untouched'
        BY <4>2 DEF Untouched
      <4>. QED
        BY <4>2, <4>4, <4>5 DEF Rewritten, Unwritten, Writing
    <3>. QED
      BY <3>1, <3>2, <3>3
  <2>3. AllFresh'
    <3>. SUFFICES ASSUME pc' = "done", cmd'.kind = "generate", code' = 0
                  PROVE  (\A x \in Selected : Fresh(x[1], x[2]))'
      BY DEF AllFresh, Generated
    <3>1. CASE Generate
      <4>1. cmd'.spec = "all" /\ Names = <<>>
        BY <3>1 DEF Generate, Exit, Begin
      <4>2. Selected' = {}
        BY <4>1 DEF Selected, Selection, NameSet
      <4>. QED
        BY <4>2
    <3>2. CASE NextEndpoint
      <4>1. /\ pc = "next" /\ endpoint = Len(Ops_) /\ spec = Len(Chosen) /\ Generating
            /\ tree' = tree /\ found' = found /\ cmd' = cmd /\ local' = local
        BY <3>2 DEF NextEndpoint, Generating, hist
      <4>2. \A x \in Selected : Fresh(x[1], x[2])
        BY <4>1, EndPassed DEF FInv, Renewed
      <4>3. Selected' = Selected
        BY <4>1 DEF Selected, EndpointsOf, Wanted
      <4>. QED
        BY <4>1, <4>2, <4>3 DEF Fresh, SettledAll, Settled, Rendered, Place
    <3>3. ASSUME ~Generate, ~NextEndpoint PROVE FALSE
      BY <1>2, <3>3 DEF FInv, Behind, Next, Pull, PullSkips, PullOne, PullFails, MakeDirs, WriteMarkers,
         WriteSchema, SchemasWritten, WriteApi, WriteMeta, StepFails, Leave, Publish, UserEdits, Exit
    <3>. QED
      BY <3>1, <3>2, <3>3
  <2>. QED
    BY <1>0, <2>1, <2>2, <2>3 DEF FInv
<1>. QED
  BY <1>1, <1>2

LEMMA FreshInit == Init => CInv /\ FInv
BY TypeInit DEF Init, CInv, FInv, Written, Behind, Generating, AllPresent, Generated, Writing,
   Validated, Rewritten, Unwritten, Renewed, Untouched, AllFresh

LEMMA FreshAlways == Spec => [](CInv /\ FInv)
<1>1. CInv /\ FInv /\ [Next]_vars => (CInv /\ FInv)'
  BY PresentInv, FreshStep
<1>. QED
  BY <1>1, FreshInit, PTL DEF Spec

(* After a run of generate that succeeds every endpoint it was about has   *)
(* all of its artifacts, rendered from the specification or, unless forced,*)
(* as the run found them (generate.py, run_generate, _write_file).         *)
THEOREM SuccessAlwaysComplete == Spec => []SuccessIsComplete
<1>1. ASSUME CInv, FInv PROVE SuccessIsComplete
  <2>1. \A n, e : Present(n, e) /\ Fresh(n, e) => Complete(n, e)
    BY DEF Present, Fresh, SettledAll, Complete
  <2>. QED
    BY <1>1, <2>1 DEF CInv, FInv, AllPresent, AllFresh, SuccessIsComplete
<1>. QED
  BY <1>1, FreshAlways, PTL

LEMMA EndpointFacts ==
  ASSUME TypeOK, NEW n \in NameSet, NEW e \in EndpointsOf(n)
  PROVE  e \in Endpoint /\ Place(n, e) \in Places
<1>1. local[n] \in Document /\ local[n].ops \in Seq(Endpoint)
  BY DEF TypeOK, Document
<1>2. e \in Endpoint
  <2>. HIDE DEF Endpoint
  <2>. QED
    BY <1>1 DEF EndpointsOf
<1>. QED
  BY <1>2, PlaceFacts

(* What list --status makes of an endpoint a forced run has written.       *)
Current(n, e) ==
  LET p     == Place(n, e)
      stale == Stale(p, e) IN
    /\ tree[p].api = Rendered(e) /\ tree[p].meta = Rendered(e)
    /\ \A i \in DOMAIN e.statuses : tree[p].schemas[e.statuses[i]] = Rendered(e)
    /\ StatusOf(n, e) =
         IF stale = {} THEN "OK"
         ELSE IF \E s \in stale : tree[p].schemas[s].by = "torn" THEN "ERROR" ELSE "UPD"

LEMMA FreshIsCurrent ==
  ASSUME TypeOK, cmd.force, NEW n \in NameSet, NEW e \in Endpoint, Present(n, e), Fresh(n, e)
  PROVE  Current(n, e)
<1>. DEFINE p == Place(n, e)
            a == tree[p]
            stale == Stale(p, e)
            want == SpecContract(e).schemas
            torn == \E s \in stale : a.schemas[s].by = "torn"
<1>1. a.here /\ a.api = Rendered(e) /\ a.meta = Rendered(e)
      /\ \A i \in DOMAIN e.statuses : a.schemas[e.statuses[i]] = Rendered(e)
  BY DEF Present, Fresh, SettledAll, Settled
<1>2. a.schemas \in [Statuses -> File]
  BY PlaceFacts DEF TypeOK, Artifact
<1>3. /\ SpecContract(e).meta = Rendered(e)
      /\ want = [s \in Statuses |-> IF \E i \in DOMAIN e.statuses : e.statuses[i] = s
                                    THEN Rendered(e) ELSE NoFile]
      /\ SpecContract(e) = [meta |-> Rendered(e), schemas |-> want]
  BY DEF SpecContract
<1>r. Rendered(e).by \notin {"none", "torn"} /\ Rendered(e) # NoFile /\ NoFile.by = "none"
  BY ArtifactsAssumption DEF Rendered, Endpoint, NoFile
<1>4. stale = {s \in Statuses : a.schemas[s] # NoFile /\ want[s] = NoFile}
  BY <1>3, <1>r DEF Stale
<1>5. ASSUME NEW s \in Statuses PROVE want[s] = a.schemas[s] \/ s \in stale
  <2>1. CASE \E i \in DOMAIN e.statuses : e.statuses[i] = s
    BY <1>1, <1>3, <2>1
  <2>2. CASE ~ \E i \in DOMAIN e.statuses : e.statuses[i] = s
    <3>1. want[s] = NoFile
      BY <1>3, <2>2
    <3>. QED
      BY <1>4, <3>1
  <2>. QED
    BY <2>1, <2>2
<1>9. \A s \in Statuses : want[s].by # "torn"
  BY <1>3, <1>r
<1>s. stale \subseteq Statuses
  BY <1>4
<1>. HIDE DEF a, want, stale
<1>6. stale = {} <=> a.schemas = want
  <2>1. ASSUME stale = {} PROVE a.schemas = want
    <3>1. \A s \in Statuses : want[s] = a.schemas[s]
      BY <1>5, <2>1
    <3>2. want = [s \in Statuses |-> want[s]]
      BY <1>3
    <3>3. a.schemas = [s \in Statuses |-> a.schemas[s]]
      BY <1>2
    <3>. QED
      BY <3>1, <3>2, <3>3
  <2>2. a.schemas = want => stale = {}
    BY <1>4
  <2>. QED
    BY <2>1, <2>2
<1>7. (ArtifactContract(a) = SpecContract(e)) <=> a.schemas = want
  BY <1>1, <1>3 DEF ArtifactContract
<1>10. Readable(a) <=> ~torn
  <2>1. Readable(a) <=> \A s \in Statuses : a.schemas[s].by # "torn"
    BY <1>1, <1>r DEF Readable
  <2>. QED
    BY <1>5, <1>9, <1>s, <2>1
<1>8. StatusOf(n, e) = IF ~Readable(a) THEN "ERROR"
                       ELSE IF ArtifactContract(a) = SpecContract(e) THEN "OK" ELSE "UPD"
  BY <1>1 DEF StatusOf, a
<1>11. StatusOf(n, e) = IF stale = {} THEN "OK" ELSE IF torn THEN "ERROR" ELSE "UPD"
  BY <1>6, <1>7, <1>8, <1>10
<1>. QED
  BY <1>1, <1>11 DEF Current, a, stale

(* After a run with --force the artifacts are those of the specification as*)
(* it is, and list --status agrees but for the schemas that are left over  *)
(* (generate.py, _write_file; list.py; contract.py).                       *)
THEOREM ForcedAlwaysCurrent == Spec => []ForcedIsCurrent
<1>1. ASSUME CInv, FInv PROVE ForcedIsCurrent
  <2>. SUFFICES ASSUME Generated, cmd.force, NEW x \in Selected PROVE Current(x[1], x[2])
    BY DEF ForcedIsCurrent, Current
  <2>1. x[1] \in NameSet /\ x[2] \in EndpointsOf(x[1])
    <3>1. PICK n \in Selection(cmd.spec) : x \in {n} \X EndpointsOf(n)
      BY DEF Selected
    <3>. QED
      BY <3>1 DEF Selection
  <2>2. Present(x[1], x[2]) /\ Fresh(x[1], x[2])
    BY <1>1 DEF CInv, FInv, AllPresent, AllFresh
  <2>. QED
    BY <1>1, <2>1, <2>2, EndpointFacts, FreshIsCurrent DEF CInv
<1>. QED
  BY <1>1, FreshAlways, PTL
-----------------------------------------------------------------------------
(***************************************************************************)
(* Where no write has failed that was not made good: no file is cut short, *)
(* and every directory has its contract but the one that is being written. *)
(***************************************************************************)
Whole(a) == /\ a.meta = NoFile \/ a.meta.by \in Ops
            /\ \A s \in Statuses : a.schemas[s].by # "torn"
WholeAt(p) == /\ Whole(tree[p])
              /\ tree[p].here => tree[p].meta # NoFile \/ (pc \in Writing /\ p = Here)
FailInv == \A p \in Places \ failedAt : WholeAt(p)

LEMMA WholeEdits ==
  ASSUME NEW a \in Artifact, Whole(a), NEW e \in Endpoint
  PROVE  /\ Whole([a EXCEPT !.here = TRUE, !.tests = TRUE])
         /\ Whole([a EXCEPT !.marker = TRUE])
         /\ Whole(WithApi(a, Rendered(e)))
         /\ Whole(WithMeta(a, Rendered(e)))
         /\ \A s \in Statuses : Whole(WithSchema(a, s, Rendered(e)))
<1>1. a = [here |-> a.here, tests |-> a.tests, marker |-> a.marker, schemas |-> a.schemas,
           api |-> a.api, meta |-> a.meta]
      /\ a.schemas \in [Statuses -> File]
  BY DEF Artifact
<1>2. Rendered(e).by \in Ops /\ Rendered(e).by # "torn"
  BY ArtifactsAssumption DEF Rendered, Endpoint
<1>3. \A old : Put(old, Rendered(e)) \in {old, Rendered(e)}
  BY DEF Put
<1>4. Whole([a EXCEPT !.here = TRUE, !.tests = TRUE]) /\ Whole([a EXCEPT !.marker = TRUE])
  BY <1>1 DEF Whole
<1>5. Whole(WithApi(a, Rendered(e)))
  BY <1>1 DEF Whole, WithApi
<1>6. Whole(WithMeta(a, Rendered(e)))
  <2>. DEFINE file == Rendered(e)
  <2>1. WithMeta(a, file).meta \in {a.meta, file} /\ WithMeta(a, file).schemas = a.schemas
    BY <1>1, <1>3 DEF WithMeta
  <2>. HIDE DEF file
  <2>. QED
    BY <1>2, <2>1 DEF Whole, file
<1>7. ASSUME NEW s \in Statuses PROVE Whole(WithSchema(a, s, Rendered(e)))
  <2>. DEFINE b == WithSchema(a, s, Rendered(e))
  <2>1. b.meta = a.meta /\ b.schemas = [a.schemas EXCEPT ![s] = Put(a.schemas[s], Rendered(e))]
    BY <1>1 DEF WithSchema
  <2>2. \A t \in Statuses : b.schemas[t] \in {a.schemas[t], Rendered(e)}
    BY <1>1, <1>3, <2>1
  <2>. HIDE DEF b
  <2>3. Whole(b)
    BY <1>2, <2>1, <2>2 DEF Whole
  <2>. QED
    BY <2>3 DEF b
<1>. QED
  BY <1>4, <1>5, <1>6, <1>7

(* A forced run makes good a directory that has no stale schema.           *)
LEMMA MadeWhole ==
  ASSUME TypeOK, Rewritten, WriteMeta, cmd.force, Stale(Here, This) = {}
  PROVE  Whole(tree'[Here])
<1>1. /\ pc = "meta" /\ pc \in Writing /\ tree \in [Places -> Artifact] /\ Here \in Places
      /\ This \in Endpoint /\ tree[Here] \in Artifact
  BY HereFacts DEF WriteMeta, Writing, TypeOK
<1>. DEFINE a == tree[Here]
            b == tree'[Here]
<1>2. b.meta = Rendered(This) /\ b.schemas = a.schemas
  BY <1>1 DEF WriteMeta, WithMeta, Put, Overwrites, Artifact
<1>3. Rendered(This).by \in Ops
  BY <1>1 DEF Rendered, Endpoint
<1>4. ASSUME NEW s \in Statuses PROVE a.schemas[s].by # "torn"
  <2>1. a.schemas[s] = NoFile \/ \E i \in DOMAIN This.statuses : This.statuses[i] = s
    BY DEF Stale
  <2>2. \A i \in DOMAIN This.statuses : a.schemas[This.statuses[i]] = Rendered(This)
    BY <1>1 DEF Rewritten, Settled
  <2>. QED
    BY <1>3, <2>1, <2>2, ArtifactsAssumption DEF NoFile
<1>. HIDE DEF a, b
<1>. QED
  BY <1>2, <1>3, <1>4 DEF Whole, b

LEMMA FailStep ==
  ASSUME TypeOK, Rewritten, FailInv, Next
  PROVE  FailInv'
<1>. SUFFICES ASSUME NEW p \in Places, p \notin failedAt' PROVE WholeAt(p)'
  BY DEF FailInv
<1>1. tree \in [Places -> Artifact] /\ tree[p] \in Artifact /\ (p \notin failedAt => WholeAt(p))
  BY DEF FailInv, TypeOK
<1>2. CASE MakeDirs \/ WriteMarkers \/ WriteSchema \/ SchemasWritten \/ WriteApi \/ WriteMeta
  <2>1. /\ pc \in Writing /\ cmd' = cmd /\ local' = local /\ spec' = spec /\ endpoint' = endpoint
        /\ pc # "idle" /\ (pc' \in Writing \/ WriteMeta)
        /\ (~WriteMeta => failedAt' = failedAt) /\ (WriteMeta => failedAt' = MadeGood)
    BY <1>2 DEF MakeDirs, WriteMarkers, WriteSchema, SchemasWritten, WriteApi, WriteMeta, Writing, at,
       hist
  <2>2. Here' = Here
    BY <2>1 DEF Chosen, Name, Ops_, This, Here, Place
  <2>3. CASE p # Here
    <3>1. tree'[p] = tree[p]
      BY <2>1, <2>3, TreeFrame
    <3>2. p \notin failedAt
      BY <2>1, <2>3 DEF MadeGood
    <3>. QED
      BY <1>1, <2>3, <3>1, <3>2 DEF WholeAt
  <2>4. CASE p = Here
    <3>. DEFINE a == tree[Here]
                file == Rendered(This)
    <3>1. This \in Endpoint /\ a \in Artifact /\ (p \notin failedAt => Whole(a)) /\ Here \in Places
          /\ file \in File /\ file # NoFile
      BY <1>1, <2>1, <2>4, HereFacts DEF WholeAt
    <3>4. CASE p \in failedAt
      <4>1. WriteMeta /\ cmd.force /\ Stale(Here, This) = {}
        BY <2>1, <2>4, <3>4 DEF MadeGood
      <4>2. tree'[Here].meta # NoFile
        <5>1. tree'[Here] = WithMeta(a, file)
          BY <1>1, <3>1, <4>1 DEF WriteMeta
        <5>2. WithMeta(a, file).meta = Put(a.meta, file) /\ a.meta \in File
          BY <3>1 DEF WithMeta, Artifact
        <5>. QED
          BY <3>1, <5>1, <5>2, PutFacts
      <4>. QED
        BY <2>4, <4>1, <4>2, MadeWhole DEF WholeAt
    <3>2. ASSUME p \notin failedAt PROVE Whole(tree'[Here])
      <4>1. CASE MakeDirs
        BY <1>1, <3>1, <3>2, <4>1, WholeEdits DEF MakeDirs
      <4>2. CASE WriteMarkers
        BY <1>1, <3>1, <3>2, <4>2, WholeEdits DEF WriteMarkers
      <4>3. CASE WriteSchema
        <5>1. This.statuses[status] \in Statuses
          BY <2>1, <4>3, StatusFacts DEF WriteSchema
        <5>2. tree'[Here] = WithSchema(a, This.statuses[status], file)
          BY <1>1, <3>1, <3>2, <4>3 DEF WriteSchema
        <5>. QED
          BY <3>1, <3>2, <5>1, <5>2, WholeEdits
      <4>4. CASE SchemasWritten
        BY <3>1, <3>2, <4>4 DEF SchemasWritten
      <4>5. CASE WriteApi
        BY <1>1, <3>1, <3>2, <4>5, WholeEdits DEF WriteApi
      <4>6. CASE WriteMeta
        BY <1>1, <3>1, <3>2, <4>6, WholeEdits DEF WriteMeta
      <4>. QED
        BY <1>2, <4>1, <4>2, <4>3, <4>4, <4>5, <4>6
    <3>3. WriteMeta => tree'[Here].meta # NoFile
      <4>1. WriteMeta => tree'[Here] = WithMeta(a, file)
        BY <1>1, <3>1 DEF WriteMeta
      <4>2. WithMeta(a, file).meta = Put(a.meta, file) /\ a.meta \in File
        BY <3>1 DEF WithMeta, Artifact
      <4>. QED
        BY <3>1, <4>1, <4>2, PutFacts
    <3>. HIDE DEF a
    <3>. QED
      BY <2>1, <2>2, <2>4, <3>2, <3>3, <3>4 DEF WholeAt
  <2>. QED
    BY <2>3, <2>4
<1>3. CASE UserEdits
  <2>1. PICK q \in Places :
          \/ tree' = [tree EXCEPT ![q] = [tree[q] EXCEPT !.api = Edited]] /\ failedAt' = failedAt
          \/ /\ tree' = [tree EXCEPT ![q] = [NoArtifact EXCEPT !.tests = tree[q].tests]]
             /\ failedAt' = failedAt \ {q}
    BY <1>3 DEF UserEdits
  <2>2. pc = "idle" /\ pc \notin Writing
    BY <1>3 DEF UserEdits, Writing
  <2>3. CASE p # q
    <3>1. tree'[p] = tree[p] /\ p \notin failedAt
      BY <1>1, <2>1, <2>3
    <3>. QED
      BY <1>1, <2>2, <3>1 DEF WholeAt
  <2>4. CASE tree'[p] = [tree[p] EXCEPT !.api = Edited] /\ p \notin failedAt
    <3>1. tree'[p].meta = tree[p].meta /\ tree'[p].schemas = tree[p].schemas
          /\ tree'[p].here = tree[p].here
      BY <1>1, <2>4 DEF Artifact
    <3>2. Whole(tree[p]) /\ (tree[p].here => tree[p].meta # NoFile)
      BY <1>1, <2>2, <2>4 DEF WholeAt
    <3>. QED
      BY <3>1, <3>2 DEF WholeAt, Whole
  <2>5. CASE tree'[p] = [NoArtifact EXCEPT !.tests = tree[p].tests]
    <3>1. tree'[p].meta = NoFile /\ ~tree'[p].here /\ \A s \in Statuses : tree'[p].schemas[s] = NoFile
      BY <2>5 DEF NoArtifact
    <3>. QED
      BY <3>1 DEF WholeAt, Whole, NoFile
  <2>. QED
    BY <1>1, <2>1, <2>3, <2>4, <2>5
<1>4. CASE Pull \/ PullSkips \/ PullOne \/ PullFails \/ Generate \/ NextEndpoint \/ Leave \/ Publish
  <2>1. tree' = tree /\ pc \notin Writing /\ failedAt' = failedAt
    BY <1>4 DEF Pull, PullSkips, PullOne, PullFails, Generate, NextEndpoint, Leave, Publish, Writing,
       hist
  <2>. QED
    BY <1>1, <2>1 DEF WholeAt
<1>5. CASE StepFails
  <2>1. pc \in Writing /\ pc # "idle" /\ failedAt' = failedAt \cup {Here}
    BY <1>5 DEF StepFails, Writing
  <2>2. p # Here /\ p \notin failedAt
    BY <2>1
  <2>3. tree'[p] = tree[p]
    BY <2>1, <2>2, TreeFrame
  <2>. QED
    BY <1>1, <2>2, <2>3 DEF WholeAt
<1>. QED
  BY <1>2, <1>3, <1>4, <1>5 DEF Next

(* However many writes have failed, list --status fails over a             *)
(* specification only for what is wrong with that, or in a directory where *)
(* a write has failed (list.py, diff.py, the contracts they read).         *)
THEOREM ReadableAlwaysUnlessFailed == Spec => []ReadableUnlessFailed
<1>1. Init => FailInv
  <2>. SUFFICES ASSUME Init PROVE FailInv
    OBVIOUS
  <2>1. \A p \in Places : tree[p] = NoArtifact
    BY DEF Init
  <2>. QED
    BY <2>1 DEF FailInv, WholeAt, Whole, NoArtifact, NoFile
<1>2. CInv /\ FInv /\ FailInv /\ [Next]_vars => FailInv'
  <2>1. FailInv /\ UNCHANGED vars => FailInv'
    BY DEF vars, FailInv, WholeAt, Here, Place, This, Name, Ops_, Chosen
  <2>. QED
    BY <2>1, FailStep DEF CInv, FInv
<1>3. CInv /\ FailInv => ReadableUnlessFailed
  <2>. SUFFICES ASSUME TypeOK, FailInv, pc = "idle", NEW n \in NameSet, ListFails(n),
                       local[n].valid, ~Ambiguous(n)
                PROVE  \E p \in failedAt : p[1] = SpecSegOf[n] /\ tree[p].here
    BY DEF ReadableUnlessFailed, CInv
  <2>1. PICK p \in Places : tree[p].here /\ ~Readable(tree[p]) /\ p[1] = SpecSegOf[n]
    <3>1. CASE \E p \in Removed(n) : ~Readable(tree[p])
      BY <3>1 DEF Removed
    <3>2. CASE \E e \in EndpointsOf(n) : StatusOf(n, e) = "ERROR"
      <4>1. PICK e \in EndpointsOf(n) : StatusOf(n, e) = "ERROR"
        BY <3>2
      <4>2. tree[Place(n, e)].here /\ ~Readable(tree[Place(n, e)])
        BY <4>1 DEF StatusOf
      <4>. QED
        BY <4>2, EndpointFacts DEF Place
    <3>. QED
      BY <3>1, <3>2 DEF ListFails
  <2>2. ASSUME p \notin failedAt PROVE FALSE
    <3>1. tree[p].meta.by \in Ops /\ \A s \in Statuses : tree[p].schemas[s].by # "torn"
      BY <2>1, <2>2 DEF FailInv, WholeAt, Whole, Writing
    <3>. QED
      BY <2>1, <3>1, ArtifactsAssumption DEF Readable
  <2>. QED
    BY <2>1, <2>2
<1>4. Spec => []FailInv
  BY <1>1, <1>2, FreshAlways, PTL DEF Spec
<1>. QED
  BY <1>3, <1>4, FreshAlways, PTL
=============================================================================
