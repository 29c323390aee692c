------------------------------- MODULE Sandbox -------------------------------
(***************************************************************************)
(* The session sandbox: sandbox/sandbox.py with its baseline boundary, its *)
(* instance container and its data batches, driven by the pytest fixtures  *)
(* of plugin/sandbox_plugin.py.  One process runs the session; next to it  *)
(* the instance under test may die, write to the services while it answers *)
(* a call, and the docker daemon may refuse what it is asked.  A service   *)
(* engine is what EngineContract says of it, one call being one step.      *)
(***************************************************************************)
EXTENDS DataPlane

CONSTANTS Order,      \* config.services: the services, in declaration order
          ServiceOf,  \* the service an operation is declared on
          Startup,    \* the startup operations of each service
          Migrated,   \* the rows the migrations of each service insert
          Foreign,    \* a row the instance under test inserts
          Habits,     \* what the test suite and its user do, see below
          MaxTests,   \* bound: tests that use the sandbox
          MaxOps,     \* bound: operations declared in a test
          MaxCalls,   \* bound: calls in a test
          MaxSeeds,   \* bound: boundaries opened and operations declared in them
          MaxFaults   \* bound: failures of the daemon and the services

Services == Range(Order)

(***************************************************************************)
(* Habits a suite may have; the code supports or tolerates each of them.   *)
(*   late seeding - a session fixture that opens the baseline boundary is  *)
(*                  first requested after another test has run, or a test  *)
(*                  opens the boundary itself;                             *)
(*   open boundary - the fixture that opened the boundary closes it when   *)
(*                  it is finalized, behind the tests;                     *)
(*   kept view    - a fixture keeps a service view instead of asking the   *)
(*                  sandbox for it in the test;                            *)
(*   retry        - a test calls the service again after a call raised;    *)
(*   interrupt    - the user interrupts the run.                           *)
(***************************************************************************)
AllHabits == {"late seeding", "open boundary", "kept view", "retry", "interrupt"}

ASSUME SandboxAssumption ==
  /\ Order \in Seq(Range(Order)) /\ Order # <<>>
  /\ \A i, j \in DOMAIN Order : Order[i] = Order[j] => i = j
  /\ ServiceOf \in [Ops -> Services]
  /\ Startup \in [Services -> Seq(Ops)]
  /\ Migrated \in [Services -> Seq(Ops)]
  /\ Foreign \notin Ops
  /\ Habits \subseteq AllHabits
  /\ "instance" \notin Services /\ "network" \notin Services
  /\ {MaxTests, MaxOps, MaxCalls, MaxSeeds, MaxFaults} \subseteq Nat

VARIABLES
  (* the sandbox object *)
  batch,       \* _batch: the operations the test has declared so far
  boundary,    \* _boundary_open
  netHandle,   \* _network is not None
  instHandle,  \* service._container is not None
  started,     \* the engines that are started
  journal,     \* the journal of each engine
  (* the world *)
  present,     \* the containers, and the network, that the daemon has
  alive,       \* the instance under test is running
  content,     \* what each service holds
  (* the pytest process *)
  pc,          \* where the session stands
  k,           \* index into Order of the loop it is in
  todo,        \* the operations apply_pending has taken and not applied
  current,     \* the service whose group it is applying
  raised,      \* a call of the test has raised
  kept,        \* the batch a kept view is bound to
  tests, ops, calls, seeds, faults,
  (* history *)
  expected,    \* what each service has to hold at the next call
  stuck,       \* what the daemon has refused to remove
  unrecorded   \* what operations that failed in a boundary have left behind

object  == <<batch, boundary, netHandle, instHandle, started, journal>>
world   == <<present, alive, content>>
loop    == <<k, todo, current>>
bounds  == <<tests, ops, calls, seeds, faults>>
history == <<expected, stuck, unrecorded>>
vars == <<batch, boundary, netHandle, instHandle, started, journal, present,
          alive, content, pc, k, todo, current, raised, kept, tests, ops,
          calls, seeds, faults, expected, stuck, unrecorded>>

StartSteps == {"new", "engines", "instance", "announce"}
TestSteps  == {"between", "clear", "presets", "body", "apply", "ensure", "send"}
StopSteps  == {"stop instance", "stop engines", "stop network"}

Rows == Ops \cup {Foreign}

TypeOK ==
  /\ batch \in Seq(Ops) /\ todo \in Seq(Ops)
  /\ boundary \in BOOLEAN /\ netHandle \in BOOLEAN /\ instHandle \in BOOLEAN
  /\ alive \in BOOLEAN /\ raised \in BOOLEAN
  /\ started \subseteq Services
  /\ journal \in [Services -> Seq(Ops)]
  /\ present \subseteq Services \cup {"instance", "network"}
  /\ stuck \subseteq Services \cup {"instance", "network"}
  /\ unrecorded \subseteq Ops
  /\ content \in [Services -> Seq(Rows)]
  /\ expected \in [Services -> Seq(Rows)]
  /\ pc \in StartSteps \cup TestSteps \cup StopSteps \cup {"ended"}
  /\ k \in 0..Len(Order) + 1
  /\ current \in Services
  /\ kept \in {"none", "boundary", "test", "stale"}
  /\ tests \in Nat /\ ops \in Nat /\ calls \in Nat /\ seeds \in Nat /\ faults \in Nat

Init ==
  /\ batch = <<>> /\ todo = <<>>
  /\ boundary = FALSE /\ netHandle = FALSE /\ instHandle = FALSE
  /\ alive = FALSE /\ raised = FALSE
  /\ started = {} /\ present = {} /\ stuck = {} /\ unrecorded = {}
  /\ journal = [s \in Services |-> <<>>]
  /\ content = [s \in Services |-> <<>>]
  /\ expected = [s \in Services |-> <<>>]
  /\ pc = "new" /\ k = 1
  /\ current = Order[1]
  /\ kept = "none"
  /\ tests = 0 /\ ops = 0 /\ calls = 0 /\ seeds = 0 /\ faults = 0

Goto(step, next) == pc = step /\ pc' = next

Fault == faults < MaxFaults /\ faults' = faults + 1

-----------------------------------------------------------------------------
(***************************************************************************)
(* start: the network, the engines in declaration order, the instance.  A  *)
(* failing step stops the sandbox; the last line reads the mapped address  *)
(* of the instance for the log, outside the guarded part, and the fixture  *)
(* reads it once more before it yields.                                    *)
(***************************************************************************)
CreateNetwork ==
  /\ Goto("new", "engines")
  /\ netHandle' = TRUE
  /\ present' = present \cup {"network"}
  /\ UNCHANGED <<batch, boundary, instHandle, started, journal, alive, content,
                 loop, raised, kept, bounds, history>>

(* check_runtime fails, or the handle is set and the creation fails. *)
CreateNetworkFails ==
  /\ Goto("new", "stop instance") /\ Fault
  /\ netHandle' \in BOOLEAN
  /\ UNCHANGED <<batch, boundary, instHandle, started, journal, world, loop,
                 raised, kept, tests, ops, calls, seeds, history>>

StartEngine ==
  /\ pc = "engines" /\ k <= Len(Order)
  /\ LET s == Order[k] IN
       \E held \in {<<>>, Migrated[s]} :
         /\ Replays(held, Startup[s])
         /\ content' = [content EXCEPT ![s] = held \o Startup[s]]
         /\ journal' = [journal EXCEPT ![s] = @ \o Startup[s]]
         /\ started' = started \cup {s}
         /\ present' = present \cup {s}
  /\ k' = k + 1
  /\ UNCHANGED <<batch, boundary, netHandle, instHandle, alive, pc, todo,
                 current, raised, kept, bounds, history>>

(* The engine has removed what it started, unless the daemon refused that. *)
StartEngineFails ==
  /\ pc = "engines" /\ k <= Len(Order)
  /\ pc' = "stop instance"
  /\ \/ Fault /\ UNCHANGED <<present, stuck>>
     \/ /\ faults + 2 <= MaxFaults /\ faults' = faults + 2
        /\ present' = present \cup {Order[k]}
        /\ stuck' = stuck \cup {Order[k]}
  /\ UNCHANGED <<object, alive, content, loop, raised, kept, tests, ops, calls,
                 seeds, expected, unrecorded>>

EnginesStarted ==
  /\ k > Len(Order)
  /\ Goto("engines", "instance")
  /\ UNCHANGED <<object, world, loop, raised, kept, bounds, history>>

(* The mapped address of the engine that has just started is not known. *)
AddressFails ==
  /\ k > 1
  /\ Goto("engines", "stop instance") /\ Fault
  /\ UNCHANGED <<object, world, loop, raised, kept, tests, ops, calls, seeds,
                 history>>

(* The env is rendered against the addresses, then the instance starts and *)
(* becomes ready.                                                          *)
StartInstance ==
  /\ Goto("instance", "announce")
  /\ instHandle' = TRUE
  /\ present' = present \cup {"instance"}
  /\ alive' = TRUE
  /\ UNCHANGED <<batch, boundary, netHandle, started, journal, content, loop,
                 raised, kept, bounds, history>>

(* An unknown placeholder, a container that does not start or exits, or an *)
(* expired readiness deadline.                                             *)
StartInstanceFails ==
  /\ Goto("instance", "stop instance") /\ Fault
  /\ \/ UNCHANGED <<instHandle, present, alive>>
     \/ /\ instHandle' = TRUE
        /\ present' \in {present, present \cup {"instance"}}
        /\ alive' \in BOOLEAN /\ (alive' => "instance" \in present')
  /\ UNCHANGED <<batch, boundary, netHandle, started, journal, content, loop,
                 raised, kept, tests, ops, calls, seeds, history>>

Announce ==
  /\ alive
  /\ Goto("announce", "between")
  /\ UNCHANGED <<object, world, loop, raised, kept, bounds, history>>

(* A dead instance has no mapped port: base_url raises. *)
AnnounceFails ==
  /\ ~alive
  /\ Goto("announce", "ended")
  /\ UNCHANGED <<object, world, loop, raised, kept, bounds, history>>

-----------------------------------------------------------------------------
(***************************************************************************)
(* The baseline boundary, opened by a session fixture between two tests    *)
(* (session fixtures are set up before the per-test fixture resets), or in *)
(* the body of a test.                                                     *)
(***************************************************************************)
OpenBoundary ==
  /\ pc \in {"between", "body"} /\ ~boundary
  /\ seeds < MaxSeeds /\ seeds' = seeds + 1
  /\ tests > 0 => "late seeding" \in Habits
  /\ boundary' = TRUE
  /\ UNCHANGED <<batch, netHandle, instHandle, started, journal, world, pc,
                 loop, raised, kept, tests, ops, calls, faults, history>>

(* BoundaryBatch.add: apply, then record. *)
AddToBaseline(op) ==
  LET s == ServiceOf[op] IN
  /\ Accepts(content[s], op)
  /\ content' = [content EXCEPT ![s] = Append(@, op)]
  /\ journal' = [journal EXCEPT ![s] = Append(@, op)]

(* The operation fails, with or without effect, and is not recorded. *)
FailToAdd(op) ==
  LET s == ServiceOf[op] IN
  \/ ~Accepts(content[s], op) /\ UNCHANGED <<content, faults>>
  \/ /\ Fault
     /\ \/ UNCHANGED content
        \/ /\ Accepts(content[s], op)
           /\ content' = [content EXCEPT ![s] = Append(@, op)]

Seed(op) ==
  /\ pc = "between" /\ boundary
  /\ seeds < MaxSeeds /\ seeds' = seeds + 1
  /\ AddToBaseline(op)
  /\ UNCHANGED <<batch, boundary, netHandle, instHandle, started, present,
                 alive, pc, loop, raised, kept, tests, ops, calls, faults, history>>

(* Bug: the operation is recorded before it is applied. *)
RecordThenApply(op) ==
  /\ pc = "between" /\ boundary
  /\ seeds < MaxSeeds /\ seeds' = seeds + 1
  /\ FailToAdd(op)
  /\ journal' = [journal EXCEPT ![ServiceOf[op]] = Append(@, op)]
  /\ boundary' = FALSE
  /\ UNCHANGED <<batch, netHandle, instHandle, started, present, alive, pc, loop,
                 raised, kept, tests, ops, calls, history>>

(* The exception leaves the with block, which closes the boundary. *)
SeedFails(op) ==
  /\ pc = "between" /\ boundary
  /\ seeds < MaxSeeds /\ seeds' = seeds + 1
  /\ FailToAdd(op)
  /\ boundary' = FALSE
  /\ unrecorded' = IF content' = content THEN unrecorded ELSE unrecorded \cup {op}
  /\ UNCHANGED <<batch, netHandle, instHandle, started, journal, present, alive, pc,
                 loop, raised, kept, tests, ops, calls, expected, stuck>>

CloseBoundary ==
  /\ pc \in {"between", "body"} /\ boundary
  /\ boundary' = FALSE
  /\ UNCHANGED <<batch, netHandle, instHandle, started, journal, world, pc,
                 loop, raised, kept, bounds, history>>

(* A view is bound to the batch that is current when it is made. *)
KeepView ==
  /\ pc \in {"between", "body"} /\ "kept view" \in Habits /\ kept = "none"
  /\ kept' = IF boundary THEN "boundary" ELSE "test"
  /\ UNCHANGED <<object, world, pc, loop, raised, bounds, history>>

-----------------------------------------------------------------------------
(***************************************************************************)
(* The per-test fixture: clear, a fresh batch, the marked presets.         *)
(***************************************************************************)
BeginTest ==
  /\ Goto("between", "clear")
  /\ boundary => "open boundary" \in Habits
  /\ tests < MaxTests /\ tests' = tests + 1
  /\ k' = 1
  /\ UNCHANGED <<object, world, todo, current, raised, kept, ops, calls, seeds,
                 faults, history>>

(* Bug: a service nothing was declared on is not reset. *)
ResetDeclaredEngine ==
  /\ pc = "clear" /\ k <= Len(Order)
  /\ LET s == Order[k] IN
       /\ Replays(<<>>, journal[s])
       /\ content' = IF journal[s] = <<>> THEN content
                     ELSE [content EXCEPT ![s] = journal[s]]
  /\ k' = k + 1
  /\ UNCHANGED <<object, present, alive, pc, todo, current, raised, kept, bounds,
                 history>>

ResetEngine ==
  /\ pc = "clear" /\ k <= Len(Order)
  /\ LET s == Order[k] IN
       /\ Replays(<<>>, journal[s])
       /\ content' = [content EXCEPT ![s] = journal[s]]
  /\ k' = k + 1
  /\ UNCHANGED <<object, present, alive, pc, todo, current, raised, kept, bounds,
                 history>>

(* The test errors in its setup; the engines behind are not reset. *)
ResetEngineFails ==
  /\ Goto("clear", "between") /\ k <= Len(Order)
  /\ LET s == Order[k] IN
       /\ \/ Fault
          \/ ~Replays(<<>>, journal[s]) /\ UNCHANGED faults
       /\ \E held \in AfterFailedReset(content[s], journal[s]) :
            content' = [content EXCEPT ![s] = held]
  /\ UNCHANGED <<object, present, alive, loop, raised, kept, tests, ops, calls,
                 seeds, history>>

NewTestBatch ==
  /\ k > Len(Order)
  /\ Goto("clear", "presets")
  /\ batch' = <<>>
  /\ kept' = IF kept = "test" THEN "stale" ELSE kept
  /\ raised' = FALSE
  /\ ops' = 0 /\ calls' = 0
  /\ expected' = journal
  /\ UNCHANGED <<boundary, netHandle, instHandle, started, journal, world, loop,
                 tests, seeds, faults, stuck, unrecorded>>

(* The test declares op; it is expected to be there at the next call. *)
Expect(op) ==
  /\ ops < MaxOps /\ ops' = ops + 1
  /\ expected' = [expected EXCEPT ![ServiceOf[op]] = Append(@, op)]

Enqueue(op) == batch' = Append(batch, op)

EnqueuePreset(op) ==
  /\ pc = "presets" /\ ~boundary
  /\ Expect(op) /\ Enqueue(op)
  /\ UNCHANGED <<boundary, netHandle, instHandle, started, journal, world, pc,
                 loop, raised, kept, tests, calls, seeds, faults, stuck, unrecorded>>

PresetsEnqueued ==
  /\ Goto("presets", "body")
  /\ UNCHANGED <<object, world, loop, raised, kept, bounds, history>>

(* An unknown service or redis action, possibly after valid presets. *)
PresetsRejected ==
  /\ Goto("presets", "between")
  /\ UNCHANGED <<object, world, loop, raised, kept, bounds, history>>

-----------------------------------------------------------------------------
(***************************************************************************)
(* The test body.                                                          *)
(***************************************************************************)
(* A view made while no boundary is open declares into the batch of the     *)
(* test, a boundary that is opened behind it or not.                        *)
Declare(op) ==
  /\ pc = "body" /\ ~raised
  /\ ~boundary \/ kept = "test"
  /\ Expect(op) /\ Enqueue(op)
  /\ UNCHANGED <<boundary, netHandle, instHandle, started, journal, world, pc,
                 loop, raised, kept, tests, calls, seeds, faults, stuck, unrecorded>>

(* The presets of a test, and the views it makes, while a boundary is open;  *)
(* and a view kept from a boundary, which has closed or has not.             *)
AtOnce == \/ pc = "presets" /\ boundary
          \/ pc = "body" /\ ~raised /\ (boundary \/ kept = "boundary")

DeclareAtOnce(op) ==
  /\ AtOnce
  /\ Expect(op) /\ AddToBaseline(op)
  /\ UNCHANGED <<batch, boundary, netHandle, instHandle, started, present,
                 alive, pc, loop, raised, kept, tests, calls, seeds, faults,
                 stuck, unrecorded>>

(* The test errors in its setup, or the declaration raises in its body,     *)
(* where the exception may leave the with block of the boundary.            *)
DeclareAtOnceFails(op) ==
  /\ AtOnce
  /\ ops < MaxOps /\ ops' = ops + 1
  /\ FailToAdd(op)
  /\ \/ pc = "presets" /\ pc' = "between" /\ UNCHANGED <<raised, boundary>>
     \/ pc = "body" /\ pc' = pc /\ raised' = TRUE /\ boundary' \in {boundary, FALSE}
  /\ unrecorded' = IF content' = content THEN unrecorded ELSE unrecorded \cup {op}
  /\ UNCHANGED <<batch, netHandle, instHandle, started, journal, present, alive,
                 loop, kept, tests, calls, seeds, expected, stuck>>

(* Through a view an earlier test has kept, into a batch nobody takes any   *)
(* more.                                                                    *)
DeclareOnKeptView(op) ==
  /\ pc = "body" /\ ~raised
  /\ kept = "stale"
  /\ Expect(op)
  /\ UNCHANGED <<object, world, pc, loop, raised, kept, tests, calls, seeds,
                 faults, stuck, unrecorded>>

(* Api.request of a bound client: apply_pending takes the whole batch. *)
Call ==
  /\ Goto("body", "apply")
  /\ raised => "retry" \in Habits
  /\ calls < MaxCalls /\ calls' = calls + 1
  /\ raised' = FALSE
  /\ todo' = batch
  /\ batch' = <<>>
  /\ current' = IF batch = <<>> THEN current ELSE ServiceOf[batch[1]]
  /\ UNCHANGED <<boundary, netHandle, instHandle, started, journal, world, k,
                 kept, tests, ops, seeds, faults, history>>

InGroup(i) == i \in DOMAIN todo /\ ServiceOf[todo[i]] = current

(* Bug: the operations of a group are applied in any order. *)
AnyInGroup(i) == InGroup(i)

NextInGroup(i) == InGroup(i) /\ \A j \in 1..(i - 1) : ~InGroup(j)

Without(s, i) == SubSeq(s, 1, i - 1) \o SubSeq(s, i + 1, Len(s))

(* Bug: what is applied for a test is recorded as well. *)
ApplyAndRecord ==
  /\ pc = "apply"
  /\ \E i \in DOMAIN todo :
       /\ NextInGroup(i)
       /\ Accepts(content[current], todo[i])
       /\ content' = [content EXCEPT ![current] = Append(@, todo[i])]
       /\ journal' = [journal EXCEPT ![current] = Append(@, todo[i])]
       /\ todo' = Without(todo, i)
  /\ UNCHANGED <<batch, boundary, netHandle, instHandle, started, present, alive,
                 pc, k, current, raised, kept, bounds, history>>

(* The operations are grouped by service, a group keeping the order of its *)
(* operations, the groups that of their first operation.                   *)
ApplyNext ==
  /\ pc = "apply"
  /\ \E i \in DOMAIN todo :
       /\ NextInGroup(i)
       /\ Accepts(content[current], todo[i])
       /\ content' = [content EXCEPT ![current] = Append(@, todo[i])]
       /\ todo' = Without(todo, i)
  /\ UNCHANGED <<object, present, alive, pc, k, current, raised, kept, bounds,
                 history>>

NextGroup ==
  /\ pc = "apply" /\ todo # <<>>
  /\ \A i \in DOMAIN todo : ~InGroup(i)
  /\ current' = ServiceOf[todo[1]]
  /\ UNCHANGED <<object, world, pc, k, todo, raised, kept, bounds, history>>

Raise == /\ pc' = "body"
         /\ raised' = TRUE

(* The rest of what apply_pending took is gone with its local variables. *)
ApplyFails ==
  /\ pc = "apply"
  /\ \E i \in DOMAIN todo : NextInGroup(i) /\ FailToAdd(todo[i])
  /\ Raise
  /\ todo' = <<>>
  /\ UNCHANGED <<object, present, alive, k, current, kept, tests, ops, calls,
                 seeds, history>>

PendingApplied ==
  /\ todo = <<>>
  /\ Goto("apply", "ensure")
  /\ UNCHANGED <<object, world, loop, raised, kept, bounds, history>>

EnsureService ==
  /\ pc = "ensure"
  /\ IF alive THEN pc' = "send" /\ UNCHANGED raised ELSE Raise
  /\ UNCHANGED <<object, world, loop, kept, bounds, history>>

(* The instance answers; meanwhile it may insert into, or empty, services. *)
Send ==
  /\ Goto("send", "body")
  /\ alive
  /\ \E written, emptied \in SUBSET Services :
       content' = [s \in Services |->
                     IF s \in emptied THEN <<>>
                     ELSE IF s \in written THEN Append(content[s], Foreign)
                     ELSE content[s]]
  /\ expected' = content'
  /\ UNCHANGED <<object, present, alive, loop, raised, kept, bounds, stuck,
                 unrecorded>>

(* It died after the liveness check, or the request does not get there. *)
SendFails ==
  /\ pc = "send"
  /\ IF alive THEN Fault ELSE UNCHANGED faults
  /\ Raise
  /\ UNCHANGED <<object, world, loop, kept, tests, ops, calls, seeds, history>>

EndTest ==
  /\ Goto("body", "between")
  /\ UNCHANGED <<object, world, loop, raised, kept, bounds, history>>

-----------------------------------------------------------------------------
(***************************************************************************)
(* stop: the instance, the engines in reverse order, the network; each     *)
(* removal is guarded, its handle dropped whether it succeeds or not.      *)
(***************************************************************************)
(* Bug: the engines stop while the instance is still running. *)
FinalizeEnginesFirst ==
  /\ Goto("between", "stop engines")
  /\ k' = Len(Order)
  /\ UNCHANGED <<object, world, todo, current, raised, kept, bounds, history>>

Finalize ==
  /\ Goto("between", "stop instance")
  /\ UNCHANGED <<object, world, loop, raised, kept, bounds, history>>

(* The daemon removes thing, or refuses, which the code only logs. *)
TryRemove(thing) ==
  \/ present' = present \ {thing} /\ UNCHANGED <<stuck, faults>>
  \/ thing \in present /\ Fault /\ stuck' = stuck \cup {thing} /\ UNCHANGED present

StopInstance ==
  /\ Goto("stop instance", "stop engines")
  /\ IF instHandle
     THEN TryRemove("instance") ELSE UNCHANGED <<present, stuck, faults>>
  /\ instHandle' = FALSE
  /\ alive' = (alive /\ "instance" \in present')
  /\ k' = Len(Order)
  /\ UNCHANGED <<batch, boundary, netHandle, started, journal, content, todo,
                 current, raised, kept, tests, ops, calls, seeds, expected, unrecorded>>

(* Bug: an engine that cannot be removed ends the loop over the engines. *)
StopEngineUnguarded ==
  /\ pc = "stop engines" /\ k >= 1
  /\ IF Order[k] \in started
     THEN TryRemove(Order[k]) ELSE UNCHANGED <<present, stuck, faults>>
  /\ started' = started \ {Order[k]}
  /\ content' = IF Order[k] \in present' THEN content ELSE [content EXCEPT ![Order[k]] = <<>>]
  /\ k' = IF stuck' # stuck THEN 0 ELSE k - 1
  /\ UNCHANGED <<batch, boundary, netHandle, instHandle, journal, alive, pc,
                 todo, current, raised, kept, tests, ops, calls, seeds, expected, unrecorded>>

(* Bug: the loop stays at an engine until its container is gone; stop drops *)
(* the engine's handle, and does not ask a second time.                     *)
StopEngineUntilGone ==
  /\ pc = "stop engines" /\ k >= 1
  /\ IF Order[k] \in started
     THEN TryRemove(Order[k]) ELSE UNCHANGED <<present, stuck, faults>>
  /\ started' = started \ {Order[k]}
  /\ content' = IF Order[k] \in present' THEN content ELSE [content EXCEPT ![Order[k]] = <<>>]
  /\ k' = IF Order[k] \in present' THEN k ELSE k - 1
  /\ UNCHANGED <<batch, boundary, netHandle, instHandle, journal, alive, pc,
                 todo, current, raised, kept, tests, ops, calls, seeds, expected, unrecorded>>

(* An engine that never started has no container to remove. *)
StopEngine ==
  /\ pc = "stop engines" /\ k >= 1
  /\ IF Order[k] \in started
     THEN TryRemove(Order[k]) ELSE UNCHANGED <<present, stuck, faults>>
  /\ started' = started \ {Order[k]}
  /\ content' = IF Order[k] \in present' THEN content ELSE [content EXCEPT ![Order[k]] = <<>>]
  /\ k' = k - 1
  /\ UNCHANGED <<batch, boundary, netHandle, instHandle, journal, alive, pc,
                 todo, current, raised, kept, tests, ops, calls, seeds, expected, unrecorded>>

EnginesStopped ==
  /\ k = 0
  /\ Goto("stop engines", "stop network")
  /\ UNCHANGED <<object, world, loop, raised, kept, bounds, history>>

(* The daemon does not remove a network that containers are attached to. *)
RemoveNetwork ==
  /\ Goto("stop network", "ended")
  /\ IF netHandle /\ present \subseteq {"network"}
     THEN TryRemove("network") ELSE UNCHANGED <<present, stuck, faults>>
  /\ netHandle' = FALSE
  /\ UNCHANGED <<batch, boundary, instHandle, started, journal, alive, content,
                 loop, raised, kept, tests, ops, calls, seeds, expected, unrecorded>>

-----------------------------------------------------------------------------
(***************************************************************************)
(* Around the session.                                                     *)
(***************************************************************************)
InstanceDies ==
  /\ alive /\ Fault
  /\ alive' = FALSE
  /\ UNCHANGED <<object, present, content, pc, loop, raised, kept, tests, ops,
                 calls, seeds, history>>

(* KeyboardInterrupt is no Exception: it passes the guards of start, where *)
(* the fixture has not yielded and nothing is finalized; in a test pytest  *)
(* still finalizes the fixture; in stop it skips the rest.                 *)
InterruptStart ==
  /\ "interrupt" \in Habits
  /\ pc \in StartSteps /\ pc' = "ended"
  /\ \/ UNCHANGED present
     \/ pc = "engines" /\ k <= Len(Order) /\ present' = present \cup {Order[k]}
     \/ pc = "instance" /\ present' = present \cup {"instance"}
  /\ UNCHANGED <<object, alive, content, loop, raised, kept, bounds, history>>

InterruptTest ==
  /\ "interrupt" \in Habits
  /\ pc \in TestSteps /\ pc' = "stop instance"
  /\ boundary' = FALSE
  /\ UNCHANGED <<batch, netHandle, instHandle, started, journal, world, loop,
                 raised, kept, bounds, history>>

InterruptStop ==
  /\ "interrupt" \in Habits
  /\ pc \in StopSteps /\ pc' = "ended"
  /\ UNCHANGED <<object, world, loop, raised, kept, bounds, history>>

(* testcontainers' reaper removes what is left once the process has gone. *)
Reap ==
  /\ pc = "ended" /\ present # {}
  /\ present' = {}
  /\ alive' = FALSE
  /\ UNCHANGED <<object, content, pc, loop, raised, kept, bounds, history>>

-----------------------------------------------------------------------------
Starting == \/ CreateNetwork \/ CreateNetworkFails \/ StartEngine
            \/ StartEngineFails \/ AddressFails \/ EnginesStarted \/ StartInstance
            \/ StartInstanceFails \/ Announce \/ AnnounceFails

Seeding == \/ OpenBoundary \/ CloseBoundary \/ KeepView
           \/ \E op \in Ops : Seed(op) \/ SeedFails(op)

Testing == \/ BeginTest \/ ResetEngine \/ ResetEngineFails \/ NewTestBatch
           \/ PresetsEnqueued \/ PresetsRejected \/ Call \/ ApplyNext
           \/ NextGroup \/ ApplyFails \/ PendingApplied \/ EnsureService
           \/ Send \/ SendFails \/ EndTest
           \/ \E op \in Ops : \/ EnqueuePreset(op) \/ Declare(op)
                              \/ DeclareAtOnce(op) \/ DeclareAtOnceFails(op)
                              \/ DeclareOnKeptView(op)

Stopping == \/ StopInstance \/ StopEngine \/ EnginesStopped \/ RemoveNetwork

Session == Starting \/ Seeding \/ Testing \/ Finalize \/ Stopping

Interrupts == InterruptStart \/ InterruptTest \/ InterruptStop

Next == Session \/ InstanceDies \/ Interrupts \/ Reap

Spec == Init /\ [][Next]_vars

(***************************************************************************)
(* A stop goes on: it talks to the docker daemon, through a client with a  *)
(* timeout, and closes the clients of the services, which wait for nothing *)
(* or have a timeout.  Behind the process comes the reaper.  Nothing else  *)
(* has to end: a test may run, and wait for the instance or for a          *)
(* postgresql server, for ever.                                            *)
(***************************************************************************)
FairSpec == Spec /\ WF_vars(Stopping) /\ WF_vars(Reap)

-----------------------------------------------------------------------------
(***************************************************************************)
(* Properties.                                                             *)
(***************************************************************************)

(* "Declared operations apply automatically as one batch before the first  *)
(* service call" (docs/sandbox/api.md): when a call goes out, every service *)
(* holds exactly the baseline, what earlier calls of the test left there,  *)
(* and the operations the test has declared on it so far, in order.        *)
CallSeesDeclared == pc = "send" => content = expected

(* "After clear the services hold exactly the baseline state": when a test *)
(* body is about to run, nothing is left of any earlier test, whatever     *)
(* failed in it, nor of what the instance wrote.                           *)
TestStartsAtBaseline == pc = "presets" => content = journal

(* "Test order cannot change outcomes" (docs/sandbox/index.md): once the   *)
(* first test has begun, the baseline every test starts from is fixed.     *)
(* With late seeding it is not: see the README, section 6.                 *)
BaselineFixed == [][tests > 0 => UNCHANGED journal]_vars

(* "Closing the boundary freezes the journals as the session baseline"     *)
(* (BaselineBoundary): a journal changes only while its engine starts or   *)
(* while a boundary is open - in a suite that keeps no views.              *)
JournalsFrozenOutsideBoundary ==
  [][journal' # journal => pc = "engines" \/ boundary]_vars

(* "Operations inside the block become the session baseline: after every   *)
(* reset the services return to exactly this state" (docs/sandbox/api.md): *)
(* no operation gets into a journal that a reset cannot replay, unless it  *)
(* refers to what no journal has: to a row of a migration, or to what an   *)
(* operation that failed in a boundary has left.                           *)
BaselineReplays ==
  \A s \in Services :
    \/ Replays(<<>>, journal[s])
    \/ \E op \in Range(journal[s]) :
         Needs[op] \cap (Range(Migrated[s]) \cup unrecorded) # {}

NothingButRefused == /\ present \ {"network"} \subseteq stuck
                     /\ "network" \in present => stuck # {}

(* "Each guarded, so one failing removal never blocks the remaining ones"  *)
(* (Sandbox.stop): when stop has run to its end, the only things left are  *)
(* those the daemon refused to remove, and the network if one of them is   *)
(* attached to it.                                                         *)
StopRemovesAll == pc = "ended" /\ ~netHandle => NothingButRefused

(* "A failure at any step removes everything started so far and re-raises" *)
(* (Sandbox.start): the session does not end with anything left but what   *)
(* the daemon refused to remove.                                           *)
FailedStartRemovesAll == pc = "ended" => NothingButRefused

(* The instance never runs without its dependencies: it starts after the   *)
(* last engine, its env carrying their addresses, and stops before the     *)
(* first.  Only a refused removal leaves it running in the ruins.          *)
InstanceHasServices ==
  alive /\ "instance" \notin stuck => Services \subseteq present

(* A stop that has begun, of a finished, a failed or an interrupted         *)
(* session, comes to its end whatever the daemon refuses, and behind it     *)
(* nothing remains: the reaper of the container library stands behind stop. *)
NothingRemains ==
  pc \in StopSteps \cup {"ended"} ~> pc = "ended" /\ present = {}
=============================================================================
