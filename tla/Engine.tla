------------------------------- MODULE Engine -------------------------------
(***************************************************************************)
(* One dependency-service engine of the sandbox (sandbox/engines/base.py   *)
(* BaseEngine) with the hooks of its five kinds, step by step.  A call of  *)
(* the sandbox (start, apply, record, reset, stop) begins when the engine  *)
(* is idle and runs through the steps named by pc; every step talks to the *)
(* docker daemon or to the service, and can fail.                          *)
(***************************************************************************)
EXTENDS DataPlane

CONSTANTS Startup,    \* the startup operations of the service, in order
          Migrated,   \* the rows its declared migrations insert
          Groups,     \* the operation groups its callers apply
          MaxCalls,   \* bound: calls in a behaviour
          MaxFaults   \* bound: failing steps in a behaviour

ASSUME EngineAssumption == /\ Startup \in Seq(Ops)
                           /\ Migrated \in Seq(Ops)
                           /\ Groups \subseteq Seq(Ops) \ {<<>>}
                           /\ MaxCalls \in Nat
                           /\ MaxFaults \in Nat

Kinds == {"postgresql", "redis", "kafka", "vault", "http"}
HasClient == {"postgresql", "redis", "kafka"}  \* kinds whose plane is a client object
Restarts == {"kafka", "vault"}                 \* kinds that wipe by a container restart

VARIABLES
  kind,       \* config.kind; never changes
  (* the engine object *)
  journal,    \* _journal
  started,    \* _started
  handle,     \* _container is not None
  plane,      \* the client object (_connection, _client, _producer) is not None
  (* the world *)
  live,       \* the docker daemon has the container
  content,    \* what the service holds
  (* the call in progress *)
  call,       \* the last call begun
  pc,         \* its next step, "idle" between calls
  batch,      \* the operations its loop executes
  done,       \* how many of them it has executed
  outcome,    \* how the last finished call ended
  (* history *)
  shown,      \* content when the call in progress began
  before,     \* content when its loop began
  stuck,      \* the daemon has refused to remove the container
  faults, calls

object  == <<journal, started, handle, plane>>
world   == <<live, content>>
loop    == <<batch, done, before>>
history == <<shown, stuck, faults, calls>>
vars == <<kind, journal, started, handle, plane, live, content, call, pc,
          batch, done, outcome, shown, before, stuck, faults, calls>>

Steps == {"build", "run", "ready", "open", "migrate", "wipe", "execute",
          "close", "remove"}

TypeOK ==
  /\ kind \in Kinds
  /\ journal \in Seq(Ops)
  /\ started \in BOOLEAN /\ handle \in BOOLEAN /\ plane \in BOOLEAN
  /\ live \in BOOLEAN
  /\ content \in Seq(Ops)
  /\ call \in {"none", "start", "apply", "record", "reset", "stop"}
  /\ pc \in Steps \cup {"idle"}
  /\ batch \in Seq(Ops)
  /\ done \in 0..Len(batch)
  /\ outcome \in {"none", "ok", "error"}
  /\ shown \in Seq(Ops) /\ before \in Seq(Ops)
  /\ stuck \in BOOLEAN
  /\ faults \in Nat /\ calls \in Nat

Init ==
  /\ kind \in Kinds
  /\ journal = <<>> /\ started = FALSE /\ handle = FALSE /\ plane = FALSE
  /\ live = FALSE /\ content = <<>>
  /\ call = "none" /\ pc = "idle"
  /\ batch = <<>> /\ done = 0
  /\ outcome = "none"
  /\ shown = <<>> /\ before = <<>>
  /\ stuck = FALSE
  /\ faults = 0 /\ calls = 0

-----------------------------------------------------------------------------
(***************************************************************************)
(* Calls.  The sandbox starts an engine once, before any other call, and   *)
(* records a group right after the apply that executed it.                 *)
(***************************************************************************)
Begin(name, step) ==
  /\ pc = "idle"
  /\ calls < MaxCalls
  /\ calls' = calls + 1
  /\ call' = name
  /\ pc' = step
  /\ shown' = content

(* The loop of the call will execute ops, on top of held. *)
Loop(ops, held) == /\ batch' = ops
                   /\ done' = 0
                   /\ before' = held

CallStart ==
  /\ outcome = "none"
  /\ Begin("start", "build")
  /\ Loop(Startup, <<>>)
  /\ UNCHANGED <<kind, object, world, outcome, stuck, faults>>

(* KafkaEngine.start refuses a service entry without topics up front. *)
StartWithoutTopics ==
  /\ outcome = "none"
  /\ kind = "kafka"
  /\ Begin("start", "idle")
  /\ outcome' = "error"
  /\ UNCHANGED <<kind, object, world, loop, stuck, faults>>

CallApply(group) ==
  /\ started
  /\ Begin("apply", "execute")
  /\ Loop(group, content)
  /\ UNCHANGED <<kind, object, world, outcome, stuck, faults>>

(* Bug: a reset replays the startup data and forgets the boundary's. *)
ResetToStartup ==
  /\ started
  /\ Begin("reset", "wipe")
  /\ Loop(Startup, <<>>)
  /\ UNCHANGED <<kind, object, world, outcome, stuck, faults>>

CallReset ==
  /\ started
  /\ Begin("reset", "wipe")
  /\ Loop(journal, <<>>)
  /\ UNCHANGED <<kind, object, world, outcome, stuck, faults>>

(* _require_started: apply and reset of a service that is not started. *)
CallUnstarted ==
  /\ ~started
  /\ outcome # "none"
  /\ \E name \in {"apply", "reset"} : Begin(name, "idle")
  /\ outcome' = "error"
  /\ UNCHANGED <<kind, object, world, loop, stuck, faults>>

(* Bug: the operations of a failed apply are recorded as well. *)
RecordWhateverHappened ==
  /\ call = "apply"
  /\ Begin("record", "idle")
  /\ journal' = journal \o batch
  /\ UNCHANGED <<kind, started, handle, plane, world, loop, outcome, stuck, faults>>

CallRecord ==
  /\ call = "apply" /\ outcome = "ok"
  /\ Begin("record", "idle")
  /\ journal' = journal \o batch
  /\ UNCHANGED <<kind, started, handle, plane, world, loop, outcome, stuck, faults>>

CallStop ==
  /\ Begin("stop", "close")
  /\ UNCHANGED <<kind, object, world, loop, outcome, stuck, faults>>

-----------------------------------------------------------------------------
(***************************************************************************)
(* The steps of a call.                                                    *)
(***************************************************************************)
Goto(step, next) == pc = step /\ pc' = next

Build ==
  /\ Goto("build", "run")
  /\ handle' = TRUE
  /\ UNCHANGED <<kind, journal, started, plane, world, call, loop, outcome, history>>

Run ==
  /\ Goto("run", "ready")
  /\ live' = TRUE
  /\ content' = <<>>
  /\ UNCHANGED <<kind, object, call, loop, outcome, history>>

(* The readiness wait of a start, or of the restart a wipe made. *)
BecomeReady ==
  /\ Goto("ready", IF call = "start" \/ kind \in HasClient THEN "open" ELSE "execute")
  /\ UNCHANGED <<kind, object, world, call, loop, outcome, history>>

OpenPlane ==
  /\ Goto("open", IF call = "start" THEN "migrate" ELSE "execute")
  /\ plane' = (kind \in HasClient)
  /\ UNCHANGED <<kind, journal, started, handle, world, call, loop, outcome, history>>

(* Only postgresql overrides _migrate; a service may declare no migrations. *)
Migrate ==
  /\ Goto("migrate", "execute")
  /\ \/ content' = content
     \/ kind = "postgresql" /\ content' = content \o Migrated
  /\ before' = content'
  /\ UNCHANGED <<kind, object, live, call, batch, done, outcome, history>>

(* The plane of a kind without a client object is a plain HTTP request. *)
Connected == plane \/ kind \notin HasClient

Execute ==
  /\ pc = "execute" /\ done < Len(batch)
  /\ Connected
  /\ Accepts(content, batch[done + 1])
  /\ content' = Append(content, batch[done + 1])
  /\ done' = done + 1
  /\ UNCHANGED <<kind, object, live, call, pc, batch, outcome, before, history>>

Return(result) == pc' = "idle" /\ outcome' = result

(* Bug: the startup operations are executed and not recorded. *)
FinishStartUnrecorded ==
  /\ pc = "execute" /\ done = Len(batch) /\ call = "start"
  /\ started' = TRUE
  /\ Return("ok")
  /\ UNCHANGED <<kind, journal, handle, plane, world, call, loop, history>>

FinishStart ==
  /\ pc = "execute" /\ done = Len(batch) /\ call = "start"
  /\ journal' = journal \o batch
  /\ started' = TRUE
  /\ Return("ok")
  /\ UNCHANGED <<kind, handle, plane, world, call, loop, history>>

FinishLoop ==
  /\ pc = "execute" /\ done = Len(batch) /\ call # "start"
  /\ Return("ok")
  /\ UNCHANGED <<kind, object, world, call, loop, history>>

(***************************************************************************)
(* http posts a mappings reset, postgresql truncates its tables, redis     *)
(* flushes its database; kafka (closing its producer first) and vault      *)
(* restart the container, whose memory is then empty.                      *)
(***************************************************************************)
Wipe ==
  /\ Goto("wipe", IF kind \in Restarts THEN "ready" ELSE "execute")
  /\ kind \notin Restarts => Connected
  /\ content' = <<>>
  /\ plane' = (plane /\ kind # "kafka")
  /\ UNCHANGED <<kind, journal, started, handle, live, call, loop, outcome, history>>

(* stop: the plane, then the container, then the flag. *)
ClosePlane ==
  /\ Goto("close", "remove")
  /\ plane' = FALSE
  /\ UNCHANGED <<kind, journal, started, handle, world, call, loop, outcome, history>>

(* Bug: stop forgets to reset the flag. *)
RemoveKeepsFlag ==
  /\ pc = "remove"
  /\ IF handle THEN live' = FALSE /\ content' = <<>> ELSE UNCHANGED world
  /\ handle' = FALSE
  /\ Return(IF call = "stop" THEN "ok" ELSE "error")
  /\ UNCHANGED <<kind, journal, started, plane, call, loop, history>>

Remove ==
  /\ pc = "remove"
  /\ IF handle THEN live' = FALSE /\ content' = <<>> ELSE UNCHANGED world
  /\ handle' = FALSE
  /\ started' = FALSE
  /\ Return(IF call = "stop" THEN "ok" ELSE "error")
  /\ UNCHANGED <<kind, journal, plane, call, loop, history>>

-----------------------------------------------------------------------------
(***************************************************************************)
(* Failing steps.  A start that fails removes what it started and          *)
(* re-raises; any other call just raises.                                  *)
(***************************************************************************)
Fault == faults < MaxFaults /\ faults' = faults + 1

(* Bug: a start that fails just raises, as any other call. *)
RaiseUncleaned == Return("error")

Raise == IF call = "start"
         THEN pc' = "close" /\ UNCHANGED outcome
         ELSE Return("error")

BuildFails ==
  /\ pc = "build" /\ Fault /\ Raise
  /\ UNCHANGED <<kind, object, world, call, loop, shown, stuck, calls>>

(* The daemon may have created the container although the start failed. *)
RunFails ==
  /\ pc = "run" /\ Fault /\ Raise
  /\ live' \in BOOLEAN
  /\ UNCHANGED <<kind, object, content, call, loop, shown, stuck, calls>>

ReadyExpires ==
  /\ pc = "ready" /\ Fault /\ Raise
  /\ UNCHANGED <<kind, object, world, call, loop, shown, stuck, calls>>

(* RedisEngine holds its client before the binding PING has answered. *)
OpenFails ==
  /\ pc = "open" /\ Fault /\ Raise
  /\ plane' = (kind = "redis")
  /\ UNCHANGED <<kind, journal, started, handle, world, call, loop, shown, stuck, calls>>

MigrateFails ==
  /\ pc = "migrate" /\ kind = "postgresql" /\ Fault /\ Raise
  /\ content' \in {content \o Prefix(Migrated, n) : n \in 0..Len(Migrated)}
  /\ UNCHANGED <<kind, object, live, call, loop, shown, stuck, calls>>


(* The service, or the missing client object, refuses the operation. *)
Refuse ==
  /\ pc = "execute" /\ done < Len(batch)
  /\ ~(Connected /\ Accepts(content, batch[done + 1]))
  /\ Raise
  /\ UNCHANGED <<kind, object, world, call, loop, history>>

(* No answer in time: the operation took effect, or it did not. *)
ExecuteTimesOut ==
  /\ pc = "execute" /\ done < Len(batch) /\ Fault /\ Raise
  /\ \/ UNCHANGED content
     \/ /\ Connected /\ Accepts(content, batch[done + 1])
        /\ content' = Append(content, batch[done + 1])
  /\ UNCHANGED <<kind, object, live, call, loop, shown, stuck, calls>>

(* The flush that ends a non-empty kafka group. *)
FlushFails ==
  /\ pc = "execute" /\ kind = "kafka" /\ batch # <<>> /\ done = Len(batch)
  /\ Fault /\ Raise
  /\ UNCHANGED <<kind, object, world, call, loop, shown, stuck, calls>>

WipeFails ==
  /\ pc = "wipe" /\ Raise
  /\ \/ Fault /\ content' \in {content, <<>>}
     \/ ~Connected /\ kind \notin Restarts /\ UNCHANGED <<faults, content>>
  /\ plane' = (plane /\ kind # "kafka")
  /\ UNCHANGED <<kind, journal, started, handle, live, call, loop, shown, stuck, calls>>

(* Quietly: a close that raises leaves the client object of postgresql and *)
(* redis in place; kafka drops its producer in a finally clause.           *)
CloseFails ==
  /\ Goto("close", "remove") /\ Fault
  /\ plane' = (plane /\ kind # "kafka")
  /\ UNCHANGED <<kind, journal, started, handle, world, call, loop, outcome,
                 shown, stuck, calls>>

(* Quietly: the handle is dropped although the container stays. *)
RemoveFails ==
  /\ pc = "remove" /\ handle /\ Fault
  /\ handle' = FALSE
  /\ started' = FALSE
  /\ stuck' = live
  /\ Return(IF call = "stop" THEN "ok" ELSE "error")
  /\ UNCHANGED <<kind, journal, plane, world, call, loop, shown, calls>>

-----------------------------------------------------------------------------
Calls == \/ CallStart \/ StartWithoutTopics \/ CallReset \/ CallUnstarted
         \/ CallRecord \/ CallStop
         \/ \E group \in Groups : CallApply(group)

Progress == \/ Build \/ Run \/ BecomeReady \/ OpenPlane \/ Migrate \/ Execute
            \/ FinishStart \/ FinishLoop \/ Wipe \/ ClosePlane \/ Remove
            \/ Refuse

Failures == \/ BuildFails \/ RunFails \/ ReadyExpires \/ OpenFails
            \/ MigrateFails \/ ExecuteTimesOut \/ FlushFails \/ WipeFails
            \/ CloseFails \/ RemoveFails

Next == Calls \/ Progress \/ Failures

Spec == Init /\ [][Next]_vars

(* The connection of postgresql has no timeout, neither for a connect nor  *)
(* for a statement (only the TRUNCATE of a wipe has one, for its locks):   *)
(* the call waits for as long as the server, or the holder of a lock, may. *)
AwaitsServer == /\ kind = "postgresql"
                /\ pc \in {"open", "migrate"} \/ (pc = "execute" /\ done < Len(batch))

(***************************************************************************)
(* Every other step of a call ends: the readiness loops have deadlines,    *)
(* every request, restart, command and delivery a timeout.  Nothing        *)
(* obliges the caller.                                                     *)
(***************************************************************************)
FairSpec == Spec /\ WF_vars((Progress \/ Failures) /\ ~AwaitsServer)

-----------------------------------------------------------------------------
(***************************************************************************)
(* Properties.                                                             *)
(***************************************************************************)

(* While a loop runs, the service holds what it held before plus the       *)
(* executed part of the batch: _apply_operations runs strictly in order.   *)
LoopInv ==
  pc = "execute" => /\ content = before \o Prefix(batch, done)
                    /\ Replays(before, Prefix(batch, done))

(* Between calls a started engine has a live container and its client.     *)
(* The one exception is a kafka engine whose reset failed: its producer    *)
(* closed before the restart (KafkaEngine._wipe), it still counts as       *)
(* started, and no call succeeds until a reset has rebuilt the producer.   *)
StartedServes ==
  pc = "idle" /\ started =>
    /\ handle /\ live
    /\ Connected \/ (kind = "kafka" /\ outcome = "error")

(* "A failed start leaves nothing behind" (BaseEngine.start), nor does a   *)
(* stop: between calls an engine that is not started owns no container     *)
(* handle, and a container exists only if the daemon refused to remove it. *)
NothingLeftBehind ==
  pc = "idle" /\ ~started => ~handle /\ (live => stuck)

(* A reset that returns normally has returned the service to exactly its   *)
(* journal, whatever it held before (BaseEngine.reset).                    *)
ResetRestoresJournal ==
  pc = "idle" /\ call = "reset" /\ outcome = "ok" => content = journal

(* The journal only grows, and only by operations the service has just     *)
(* executed: the service holds them, last and in order (start, record).    *)
JournalFollowsService ==
  [][journal' # journal =>
       /\ journal' = journal \o batch
       /\ Len(batch) <= Len(content')
       /\ content' = Prefix(content', Len(content') - Len(batch)) \o batch]_vars


(* What the service holds, seen between calls. *)
Holds == IF ~started THEN <<>> ELSE IF pc = "idle" THEN content ELSE shown

(* Seen call by call, the engine keeps the contract the sandbox relies on: *)
(* a call that returns has had its whole effect, one that raises has left  *)
(* the service with its journal untouched and a prefix of what it asked.   *)
Contract == INSTANCE EngineContract
              WITH up <- started, baseline <- journal, holds <- Holds,
                   result <- outcome

KeepsContract == Contract!Spec
=============================================================================
