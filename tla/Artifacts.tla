------------------------------ MODULE Artifacts ------------------------------
(***************************************************************************)
(* The endpoint commands over one project: `pull` clones the specification *)
(* files, `generate` writes for every endpoint of a specification a        *)
(* directory of artifacts, file by file, and `list --status` and `diff`    *)
(* compare what they find there with the specification.  A file written by *)
(* `generate` stays as it is unless --force is given.  A command may fail  *)
(* at every write and leaves what it wrote; between two commands the       *)
(* repositories move on and the user edits or deletes artifacts.           *)
(***************************************************************************)
EXTENDS Naturals, Sequences

CONSTANTS
  Names,      \* the specifications of the config, in its order
  Git,        \* those with a git source
  Refused,    \* those of Git whose paths or url are refused
  CfgRef,     \* the ref the config gives each of them
  Refs,       \* the branches and tags of the repositories
  Ops,        \* operations: a method and a path
  IdOf,       \* the id of an operation: two paths may have one
  SegOf,      \* the directory of an id: two ids may have one
  SpecSegOf,  \* the directory of a specification: two names may have one
  Statuses, Documents,
  Filters,    \* the sets of ids a user asks for, {} for every one
  Overrides,  \* the --ref options a user gives
  MaxRuns, MaxFaults, MaxPublishes, MaxEdits  \* bounds

NameSet == {Names[i] : i \in DOMAIN Names}
Ids     == {IdOf[o] : o \in Ops}

(* What is in a file: nothing, a write cut short, the user's text, or what *)
(* a version of an operation renders to.                                   *)
File   == [by : {"none", "torn", "user"} \cup Ops, version : Nat]
NoFile == [by |-> "none", version |-> 0]
Torn   == [by |-> "torn", version |-> 0]
Edited == [by |-> "user", version |-> 0]

(* A specification file: invalid, or its operations in order.  The version *)
(* stands for the contract of the operation, its path and its body.        *)
Endpoint == [op : Ops, version : Nat, statuses : Seq(Statuses)]
Document == [valid : BOOLEAN, ops : Seq(Endpoint)]
NoDocument == [valid |-> FALSE, ops |-> <<>>]

(* The artifacts of an endpoint: its directories, the package marker, the  *)
(* schemas by status, api.py and meta.json.                                *)
Artifact == [here : BOOLEAN, tests : BOOLEAN, marker : BOOLEAN,
             schemas : [Statuses -> File], api : File, meta : File]
NoArtifact == [here |-> FALSE, tests |-> FALSE, marker |-> FALSE,
               schemas |-> [s \in Statuses |-> NoFile], api |-> NoFile, meta |-> NoFile]

SpecSegs == {SpecSegOf[n] : n \in NameSet}
Places   == SpecSegs \X {SegOf[x] : x \in Ids}

(* One --ref option: for one specification, or for all.                    *)
Option == [spec : NameSet \cup {"all", "unknown"}, ref : Refs]

Command == [kind : {"none", "generate", "pull"}, spec : NameSet \cup {"all", "unknown"},
            force : BOOLEAN, ids : SUBSET (Ids \cup {"unknown"}), refs : Seq(Option)]
NoCommand == [kind |-> "none", spec |-> "all", force |-> FALSE, ids |-> {}, refs |-> <<>>]

ASSUME ArtifactsAssumption ==
  /\ Names \in Seq(NameSet) /\ NameSet \cap {"all", "unknown"} = {}
  /\ \A i, k \in DOMAIN Names : Names[i] = Names[k] => i = k
  /\ Git \subseteq NameSet /\ Refused \subseteq Git /\ CfgRef \in [Git -> Refs]
  /\ IdOf \in [Ops -> Ids] /\ SegOf \in [Ids -> {SegOf[x] : x \in Ids}]
  /\ SpecSegOf \in [NameSet -> SpecSegs] /\ "api" \notin SpecSegs
  /\ Ops \cap {"none", "torn", "user"} = {}
  /\ Documents \subseteq Document
  /\ Filters \subseteq SUBSET (Ids \cup {"unknown"}) /\ Overrides \subseteq Seq(Option)
  /\ {MaxRuns, MaxFaults, MaxPublishes, MaxEdits} \subseteq Nat

VARIABLES
  remote,   \* the specification in each repository, by ref
  local,    \* the specification files
  tree,     \* api/<spec>/<segment>/ and tests/<spec>/<segment>/
  marks,    \* the package markers above: of api/ and of api/<spec>/
  pc, cmd,  \* where the command is, and its arguments
  spec, endpoint, status,  \* what it is at: positions in the loops
  code,     \* its exit code
  before,   \* history: the specification files when it began
  found,    \* history: the artifacts a generate found
  failedAt, \* history: where a write has failed, until that is made good
  runs, faults, publishes, edits

at     == <<spec, endpoint, status>>
bounds == <<runs, faults, publishes, edits>>
hist   == <<before, found, failedAt>>
vars   == <<remote, local, tree, marks, pc, cmd, spec, endpoint, status, code, before,
            found, failedAt, runs, faults, publishes, edits>>

(* The specifications a command is about.                                  *)
Chosen == IF cmd.spec = "all" THEN Names ELSE <<cmd.spec>>
Name   == Chosen[spec]
Ops_   == local[Name].ops
This   == Ops_[endpoint]
Place(n, e) == <<SpecSegOf[n], SegOf[IdOf[e.op]]>>
Here   == Place(Name, This)
Wanted(ids, e) == ids = {} \/ IdOf[e.op] \in ids

Writing == {"dirs", "markers", "schemas", "api", "meta"}

TypeOK ==
  /\ remote \in [Git -> [Refs -> Document]]
  /\ local \in [NameSet -> Document] /\ before \in [NameSet -> Document]
  /\ tree \in [Places -> Artifact] /\ found \in [Places -> Artifact]
  /\ failedAt \subseteq Places
  /\ marks \subseteq SpecSegs \cup {"api"}
  /\ pc \in {"idle", "next", "pull", "done"} \cup Writing
  /\ cmd \in Command
  /\ pc \in {"next", "pull"} \cup Writing => cmd.spec # "unknown" /\ spec \in DOMAIN Chosen
  /\ pc \in {"next"} \cup Writing => endpoint \in 0..Len(Ops_)
  /\ pc \in Writing => endpoint # 0
  /\ status \in Nat \ {0}
  /\ code \in {0, 1}
  /\ {runs, faults, publishes, edits} \subseteq Nat

Init ==
  /\ remote \in [Git -> [Refs -> Documents]]
  /\ local \in [NameSet -> Documents \cup {NoDocument}]
  /\ tree = [p \in Places |-> NoArtifact] /\ marks = {}
  /\ found = tree /\ failedAt = {}
  /\ pc = "idle" /\ spec = 1 /\ endpoint = 0 /\ status = 1 /\ code = 0
  /\ cmd = NoCommand /\ before = local
  /\ runs = 0 /\ faults = 0 /\ publishes = 0 /\ edits = 0

Exit(c) == pc' = "done" /\ code' = c

(* A command begins its loop over the specifications; there may be none.   *)
Begin(s, step) == IF s = "all" /\ Names = <<>> THEN Exit(0) ELSE pc' = step /\ UNCHANGED code

-----------------------------------------------------------------------------
(***************************************************************************)
(* pull                                                                    *)
(***************************************************************************)
(* The last option of each kind counts; the one of the specification wins. *)
Given(n, refs) == \E i \in DOMAIN refs : refs[i].spec = n
LastRef(n, refs) ==
  refs[CHOOSE i \in DOMAIN refs :
         refs[i].spec = n /\ \A k \in DOMAIN refs : refs[k].spec = n => k <= i].ref

(* Bug: a global ref goes before the one of the specification. *)
GlobalFirst(n, refs) ==
  IF Given("all", refs) THEN LastRef("all", refs)
  ELSE IF Given(n, refs) THEN LastRef(n, refs) ELSE CfgRef[n]

EffectiveRef(n, refs) ==
  IF Given(n, refs) THEN LastRef(n, refs)
  ELSE IF Given("all", refs) THEN LastRef("all", refs) ELSE CfgRef[n]

Pull ==
  /\ pc = "idle" /\ runs < MaxRuns /\ runs' = runs + 1
  /\ \E s \in NameSet \cup {"all", "unknown"}, refs \in Overrides :
       /\ cmd' = [kind |-> "pull", spec |-> s, force |-> FALSE, ids |-> {}, refs |-> refs]
       /\ \/ (s = "unknown" \/ Given("unknown", refs)) /\ Exit(1)
          \/ s # "unknown" /\ ~Given("unknown", refs) /\ Begin(s, "pull")
  /\ spec' = 1 /\ before' = local
  /\ UNCHANGED <<remote, local, tree, marks, endpoint, status, found, failedAt, faults,
                 publishes, edits>>

AfterPull == IF spec < Len(Chosen) THEN pc' = "pull" /\ spec' = spec + 1 /\ UNCHANGED code
             ELSE Exit(0) /\ UNCHANGED spec

(* A local specification is passed over.                                   *)
PullSkips ==
  /\ pc = "pull" /\ Name \notin Git
  /\ AfterPull
  /\ UNCHANGED <<remote, local, tree, marks, cmd, endpoint, status, hist, bounds>>

PullOne ==
  /\ pc = "pull" /\ Name \in Git \ Refused
  /\ local' = [local EXCEPT ![Name] = remote[Name][EffectiveRef(Name, cmd.refs)]]
  /\ AfterPull
  /\ UNCHANGED <<remote, tree, marks, cmd, endpoint, status, hist, bounds>>

(* The source is refused, the clone fails, or the copy, half way.          *)
PullFails ==
  /\ pc = "pull" /\ Name \in Git
  /\ \/ Name \in Refused /\ UNCHANGED <<local, faults>>
     \/ /\ Name \notin Refused /\ faults < MaxFaults /\ faults' = faults + 1
        /\ local' \in {local, [local EXCEPT ![Name] = NoDocument]}
  /\ Exit(1)
  /\ UNCHANGED <<remote, tree, marks, cmd, at, hist, runs, publishes, edits>>

-----------------------------------------------------------------------------
(***************************************************************************)
(* generate                                                                *)
(***************************************************************************)
(* The selected names, and the position of the endpoints that are kept.    *)
Selection(s) == IF s = "all" THEN NameSet ELSE {s} \cap NameSet
Kept(n, ids) == {k \in DOMAIN local[n].ops : Wanted(ids, local[n].ops[k])}

(* An unknown name, an invalid file, an unknown id, two of the kept        *)
(* endpoints in one directory, two specifications in one.                  *)
Invalid(s, ids) ==
  \/ s = "unknown"
  \/ \E n \in Selection(s) : ~local[n].valid
  \/ \E x \in ids : \A n \in Selection(s) : Kept(n, {x}) = {}
  \/ \E n \in Selection(s) : \E k, l \in Kept(n, ids) :
       k # l /\ Place(n, local[n].ops[k]) = Place(n, local[n].ops[l])
  \/ \E m, n \in Selection(s) :
       /\ m # n /\ SpecSegOf[m] = SpecSegOf[n]
       /\ local[m].ops # <<>> /\ local[n].ops # <<>>

(* Everything is read and validated before the first write.                *)
Generate ==
  /\ pc = "idle" /\ runs < MaxRuns /\ runs' = runs + 1
  /\ \E s \in NameSet \cup {"all", "unknown"}, force \in BOOLEAN, ids \in Filters :
       /\ cmd' = [kind |-> "generate", spec |-> s, force |-> force, ids |-> ids,
                  refs |-> <<>>]
       /\ \/ Invalid(s, ids) /\ Exit(1)
          \/ ~Invalid(s, ids) /\ s # "unknown" /\ Begin(s, "next")
  /\ spec' = 1 /\ endpoint' = 0 /\ before' = local /\ found' = tree
  /\ UNCHANGED <<remote, local, tree, marks, status, failedAt, faults, publishes, edits>>

NextEndpoint ==
  /\ pc = "next"
  /\ \/ /\ endpoint < Len(Ops_) /\ endpoint' = endpoint + 1
        /\ pc' = IF Wanted(cmd.ids, Ops_[endpoint + 1]) THEN "dirs" ELSE "next"
        /\ UNCHANGED <<spec, code>>
     \/ /\ endpoint = Len(Ops_) /\ spec < Len(Chosen)
        /\ spec' = spec + 1 /\ endpoint' = 0
        /\ UNCHANGED <<pc, code>>
     \/ /\ endpoint = Len(Ops_) /\ spec = Len(Chosen)
        /\ Exit(0) /\ UNCHANGED <<spec, endpoint>>
  /\ UNCHANGED <<remote, local, tree, marks, cmd, status, hist, bounds>>

(* Bug: a file is written whatever is there. *)
PutAlways(old, new) == new

(* A file that is there is skipped, unless forced.                         *)
Rendered(e)     == [by |-> e.op, version |-> e.version]
Overwrites(old) == old = NoFile \/ cmd.force
Put(old, new)   == IF Overwrites(old) THEN new ELSE old

WithApi(a, file)  == [a EXCEPT !.api = Put(a.api, file)]
WithMeta(a, file) == [a EXCEPT !.meta = Put(a.meta, file)]
WithSchema(a, s, file) ==
  [a EXCEPT !.schemas = [a.schemas EXCEPT ![s] = Put(a.schemas[s], file)]]

(* Bug: an endpoint that has its directory is passed over. *)
SkipExisting ==
  /\ pc = "dirs"
  /\ tree' = [tree EXCEPT ![Here] = [@ EXCEPT !.here = TRUE, !.tests = TRUE]]
  /\ pc' = IF tree[Here].here /\ ~cmd.force THEN "next" ELSE "markers"
  /\ UNCHANGED <<remote, local, marks, cmd, at, code, hist, bounds>>

MakeDirs ==
  /\ pc = "dirs"
  /\ tree' = [tree EXCEPT ![Here] = [@ EXCEPT !.here = TRUE, !.tests = TRUE]]
  /\ pc' = "markers"
  /\ UNCHANGED <<remote, local, marks, cmd, at, code, hist, bounds>>

(* Bug: the directory of the specification gets no marker. *)
NoSpecMarker ==
  /\ pc = "markers"
  /\ tree' = [tree EXCEPT ![Here] = [@ EXCEPT !.marker = TRUE]]
  /\ marks' = marks \cup {"api"}
  /\ pc' = "schemas" /\ status' = 1
  /\ UNCHANGED <<remote, local, cmd, spec, endpoint, code, hist, bounds>>

(* The markers, from the directory of the endpoint up to api/.             *)
WriteMarkers ==
  /\ pc = "markers"
  /\ tree' = [tree EXCEPT ![Here] = [@ EXCEPT !.marker = TRUE]]
  /\ marks' = marks \cup {SpecSegOf[Name], "api"}
  /\ pc' = "schemas" /\ status' = 1
  /\ UNCHANGED <<remote, local, cmd, spec, endpoint, code, hist, bounds>>

WriteSchema ==
  /\ pc = "schemas" /\ status <= Len(This.statuses)
  /\ tree' = [tree EXCEPT ![Here] = WithSchema(@, This.statuses[status], Rendered(This))]
  /\ status' = status + 1
  /\ UNCHANGED <<remote, local, marks, pc, cmd, spec, endpoint, code, hist, bounds>>

(* Bug: the contract goes before the module. *)
MetaFirst ==
  /\ pc = "schemas" /\ status > Len(This.statuses)
  /\ tree' = [tree EXCEPT ![Here] = WithMeta(@, Rendered(This))]
  /\ pc' = "api"
  /\ UNCHANGED <<remote, local, marks, cmd, at, code, hist, bounds>>

SchemasWritten ==
  /\ pc = "schemas" /\ status > Len(This.statuses)
  /\ pc' = "api"
  /\ UNCHANGED <<remote, local, tree, marks, cmd, at, code, hist, bounds>>

WriteApi ==
  /\ pc = "api"
  /\ tree' = [tree EXCEPT ![Here] = WithApi(@, Rendered(This))]
  /\ pc' = "meta"
  /\ UNCHANGED <<remote, local, marks, cmd, at, code, hist, bounds>>

(* A schema of a status the endpoint does not have any more: generate      *)
(* removes nothing.                                                        *)
Stale(p, e) ==
  {s \in Statuses : /\ tree[p].schemas[s] # NoFile
                    /\ \A i \in DOMAIN e.statuses : e.statuses[i] # s}

(* History: a forced run makes good what failed before in a directory, but *)
(* for stale schemas.                                                      *)
MadeGood == IF cmd.force /\ Stale(Here, This) = {} THEN failedAt \ {Here} ELSE failedAt

(* Bug: the contract is not written again. *)
MetaKept ==
  /\ pc = "meta"
  /\ tree' = [tree EXCEPT ![Here] = [@ EXCEPT !.meta = IF @ = NoFile THEN Rendered(This) ELSE @]]
  /\ failedAt' = MadeGood
  /\ pc' = "next"
  /\ UNCHANGED <<remote, local, marks, cmd, at, code, before, found, bounds>>

(* Bug: an endpoint without schemas gets no contract. *)
MetaOmitted ==
  /\ pc = "meta"
  /\ tree' = IF This.statuses = <<>> THEN tree
             ELSE [tree EXCEPT ![Here] = WithMeta(@, Rendered(This))]
  /\ failedAt' = MadeGood
  /\ pc' = "next"
  /\ UNCHANGED <<remote, local, marks, cmd, at, code, before, found, bounds>>

WriteMeta ==
  /\ pc = "meta"
  /\ tree' = [tree EXCEPT ![Here] = WithMeta(@, Rendered(This))]
  /\ failedAt' = MadeGood
  /\ pc' = "next"
  /\ UNCHANGED <<remote, local, marks, cmd, at, code, before, found, bounds>>

(* A step fails before it writes, between two writes, or in one: then what *)
(* it wrote afresh is cut short.                                           *)
StepFails ==
  /\ pc \in Writing /\ faults < MaxFaults /\ faults' = faults + 1
  /\ \/ UNCHANGED <<tree, marks>>
     \/ /\ pc = "dirs" /\ tree' = [tree EXCEPT ![Here] = [@ EXCEPT !.here = TRUE]]
        /\ UNCHANGED marks
     \/ /\ pc = "markers" /\ tree' = [tree EXCEPT ![Here] = [@ EXCEPT !.marker = TRUE]]
        /\ marks' \in {marks, marks \cup {SpecSegOf[Name]}}
     \/ /\ pc = "schemas" /\ status <= Len(This.statuses)
        /\ tree' = [tree EXCEPT ![Here] = WithSchema(@, This.statuses[status], Torn)]
        /\ UNCHANGED marks
     \/ /\ pc = "api" /\ tree' = [tree EXCEPT ![Here] = WithApi(@, Torn)]
        /\ UNCHANGED marks
     \/ /\ pc = "meta" /\ tree' = [tree EXCEPT ![Here] = WithMeta(@, Torn)]
        /\ UNCHANGED marks
  /\ failedAt' = failedAt \cup {Here}
  /\ Exit(1)
  /\ UNCHANGED <<remote, local, cmd, at, before, found, runs, publishes, edits>>

Leave ==
  /\ pc = "done"
  /\ pc' = "idle" /\ spec' = 1 /\ endpoint' = 0 /\ status' = 1 /\ code' = 0
  /\ cmd' = NoCommand /\ before' = local /\ found' = [p \in Places |-> NoArtifact]
  /\ UNCHANGED <<remote, local, tree, marks, failedAt, bounds>>

-----------------------------------------------------------------------------
(***************************************************************************)
(* The others.  A clone reads its repository once, so a repository that    *)
(* moves while a command runs moves before it or after it.                 *)
(***************************************************************************)
Publish ==
  /\ pc = "idle" /\ runs < MaxRuns /\ publishes < MaxPublishes /\ publishes' = publishes + 1
  /\ \E n \in Git, r \in Refs, d \in Documents : remote' = [remote EXCEPT ![n][r] = d]
  /\ UNCHANGED <<local, tree, marks, pc, cmd, at, code, hist, runs, faults, edits>>

(* The user edits a module, or deletes the directory of an endpoint.       *)
UserEdits ==
  /\ pc = "idle" /\ runs < MaxRuns /\ edits < MaxEdits /\ edits' = edits + 1
  /\ \E p \in Places :
       /\ tree[p].here
       /\ \/ /\ tree[p].api # NoFile /\ tree' = [tree EXCEPT ![p] = [@ EXCEPT !.api = Edited]]
             /\ UNCHANGED failedAt
          \/ /\ tree' = [tree EXCEPT ![p] = [NoArtifact EXCEPT !.tests = tree[p].tests]]
             /\ failedAt' = failedAt \ {p}
  /\ UNCHANGED <<remote, local, marks, pc, cmd, at, code, before, found, runs, faults,
                 publishes>>

Next ==
  \/ Pull \/ PullSkips \/ PullOne \/ PullFails
  \/ Generate \/ NextEndpoint \/ MakeDirs \/ WriteMarkers \/ WriteSchema
  \/ SchemasWritten \/ WriteApi \/ WriteMeta \/ StepFails
  \/ Leave \/ Publish \/ UserEdits

Spec == Init /\ [][Next]_vars

-----------------------------------------------------------------------------
(***************************************************************************)
(* list --status and diff read the tree and change nothing.                *)
(***************************************************************************)
(* They read meta.json and the schemas, and fail on one they cannot read.  *)
Readable(a) == a.meta.by \notin {"none", "torn"} /\ \A s \in Statuses : a.schemas[s].by # "torn"

ArtifactContract(a) == [meta |-> a.meta, schemas |-> a.schemas]
SpecContract(e) ==
  [meta |-> Rendered(e),
   schemas |-> [s \in Statuses |-> IF \E i \in DOMAIN e.statuses : e.statuses[i] = s
                                   THEN Rendered(e) ELSE NoFile]]

(* "ERROR": the command ends there.                                        *)
StatusOf(n, e) ==
  LET a == tree[Place(n, e)] IN
    IF ~a.here THEN "ADD"
    ELSE IF ~Readable(a) THEN "ERROR"
    ELSE IF ArtifactContract(a) = SpecContract(e) THEN "OK" ELSE "UPD"

EndpointsOf(n) == {local[n].ops[k] : k \in DOMAIN local[n].ops}

(* The directories of a specification that no endpoint of it has.          *)
Removed(n) ==
  {p \in Places : p[1] = SpecSegOf[n] /\ tree[p].here /\ \A e \in EndpointsOf(n) : Place(n, e) # p}

(* Two endpoints with one id: the lines of the report would be confused.   *)
Ambiguous(n) ==
  \E k, l \in DOMAIN local[n].ops :
    k # l /\ IdOf[local[n].ops[k].op] = IdOf[local[n].ops[l].op]

(* list --status fails over one specification: an invalid file, an id      *)
(* taken twice, or a directory it reads that cannot be read.               *)
ListFails(n) ==
  \/ ~local[n].valid \/ Ambiguous(n)
  \/ \E e \in EndpointsOf(n) : StatusOf(n, e) = "ERROR"
  \/ \E p \in Removed(n) : ~Readable(tree[p])

-----------------------------------------------------------------------------
(***************************************************************************)
(* Properties.                                                             *)
(***************************************************************************)
Generated == pc = "done" /\ cmd.kind = "generate" /\ code = 0
Selected  == {x \in UNION {{n} \X EndpointsOf(n) : n \in Selection(cmd.spec)} :
                Wanted(cmd.ids, x[2])}

(* A file of endpoint e is in order: it is what the specification says, or *)
(* the run, not forced, found it there.                                    *)
Settled(old, new, e) == new = Rendered(e) \/ (~cmd.force /\ new # NoFile /\ new = old)

Complete(n, e) ==
  LET a == tree[Place(n, e)]
      b == found[Place(n, e)] IN
    /\ a.here /\ a.tests /\ a.marker /\ {SpecSegOf[n], "api"} \subseteq marks
    /\ Settled(b.api, a.api, e) /\ Settled(b.meta, a.meta, e)
    /\ \A i \in DOMAIN e.statuses :
         Settled(b.schemas[e.statuses[i]], a.schemas[e.statuses[i]], e)

(* After a run that succeeds every endpoint it was about has all of its    *)
(* artifacts, and each is what the specification says now, although the run*)
(* writes several endpoints, some next to each other.  Only what it found  *)
(* and was not told to overwrite may be of an older version, of another    *)
(* endpoint, cut short by an earlier run, or the user's.                   *)
SuccessIsComplete == Generated => \A x \in Selected : Complete(x[1], x[2])

(* "Their directories are never merged" (docs/cli/generate.md): no         *)
(* directory holds what was rendered from two of the endpoints of one      *)
(* specification file, as it is now.  The code does not keep to this when  *)
(* the two are generated one after the other: see the README, section 6.   *)
FilesAt(p) == {tree[p].api, tree[p].meta} \cup {tree[p].schemas[s] : s \in Statuses}
NeverMerged ==
  \A n \in NameSet : \A d, e \in EndpointsOf(n) :
    d.op # e.op /\ Place(n, d) = Place(n, e) =>
      ~({Rendered(d), Rendered(e)} \subseteq FilesAt(Place(n, e)))

(* After a forced run the artifacts are those of the specification as it   *)
(* is: what an endpoint has of api.py, meta.json and schemas is rendered   *)
(* from it, whatever was there before.  Only the schemas of statuses it    *)
(* does not have any more are left over, and list --status sees these:     *)
(* it reports UPD for them, or fails on one that was cut short.            *)
ForcedIsCurrent ==
  Generated /\ cmd.force => \A x \in Selected :
    LET p     == Place(x[1], x[2])
        stale == Stale(p, x[2]) IN
      /\ tree[p].api = Rendered(x[2]) /\ tree[p].meta = Rendered(x[2])
      /\ \A i \in DOMAIN x[2].statuses : tree[p].schemas[x[2].statuses[i]] = Rendered(x[2])
      /\ StatusOf(x[1], x[2]) =
           IF stale = {} THEN "OK"
           ELSE IF \E s \in stale : tree[p].schemas[s].by = "torn" THEN "ERROR" ELSE "UPD"

(* A module is always in a package: every directory on its path has its    *)
(* marker, after every failure.                                            *)
ModulesImportable ==
  \A p \in Places : tree[p].api # NoFile => tree[p].marker /\ {p[1], "api"} \subseteq marks

(* What list and diff report on as an endpoint with artifacts has a module:*)
(* meta.json, which they read, is there only when api.py is.               *)
ReportedHasModule ==
  \A p \in Places : tree[p].here /\ Readable(tree[p]) => tree[p].api # NoFile

(* However many writes have failed: between two commands list --status     *)
(* fails over a specification only for what is wrong with that, or in a    *)
(* directory where a write has failed that has since been neither deleted  *)
(* nor made good by a forced run.                                          *)
ReadableUnlessFailed ==
  pc = "idle" => \A n \in NameSet :
    ListFails(n) => \/ ~local[n].valid \/ Ambiguous(n)
                    \/ \E p \in failedAt : p[1] = SpecSegOf[n] /\ tree[p].here

(* "Existing files are silently skipped" without --force                   *)
(* (docs/cli/generate.md): a run, one that fails too, leaves every file it *)
(* found.                                                                  *)
Unchanged(old, new) == old # NoFile => new = old
FilesStay ==
  \A p \in Places : /\ Unchanged(tree[p].api, tree'[p].api)
                    /\ Unchanged(tree[p].meta, tree'[p].meta)
                    /\ \A s \in Statuses : Unchanged(tree[p].schemas[s], tree'[p].schemas[s])
KeptWithoutForce == [][pc # "idle" /\ ~cmd.force => FilesStay]_vars

(* What a pull that stops in the middle leaves: the files of the           *)
(* specifications before the one it stopped at are those of the ref the    *)
(* user asked for, those after it are as they were.                        *)
AskedRef(n, r) ==
  LET Last(s) == \E i \in DOMAIN cmd.refs : /\ cmd.refs[i] = [spec |-> s, ref |-> r]
                                            /\ \A k \in DOMAIN cmd.refs : cmd.refs[k].spec = s => k <= i
  IN  \/ Last(n)
      \/ ~Given(n, cmd.refs) /\ Last("all")
      \/ ~Given(n, cmd.refs) /\ ~Given("all", cmd.refs) /\ CfgRef[n] = r
PullLeavesPrefix ==
  pc \in {"pull", "done"} /\ cmd.kind = "pull" /\ cmd.spec # "unknown" =>
    \A i \in DOMAIN Chosen :
      LET n    == Chosen[i]
          past == i < spec \/ (pc = "done" /\ code = 0)
      IN  IF n \in Git /\ past
          THEN \E r \in Refs : AskedRef(n, r) /\ local[n] = remote[n][r]
          ELSE i # spec \/ n \notin Git => local[n] = before[n]
=============================================================================
