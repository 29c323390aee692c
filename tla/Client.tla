-------------------------------- MODULE Client --------------------------------
(***************************************************************************)
(* The client of one test (api/): an Api that its endpoints share and that *)
(* the test may bind to another address, the pre-flight a bound sandbox    *)
(* brings, and the responses the test has got, each of them checked when   *)
(* its `expect` is first read.  A check that polls sends the request again *)
(* and puts the answer in the place of the response (Polling has the loop).*)
(***************************************************************************)
EXTENDS Naturals, Sequences

CONSTANTS
  Endpoints, Unsupported, \* the endpoints, and those with an adapter of no use here
  None,        \* no expected status
  Expected,    \* the status each endpoint expects, or None
  Statuses, Schemas,   \* the statuses, and those with a schema file
  Answers,     \* what the services may answer
  Polls,       \* the suite has a polling baseline
  MaxCalls, MaxDeclared, MaxBinds, MaxFaults  \* bounds

(* An answer: its status, whether its body is JSON, the schemas it fits.   *)
Answer == [status : Statuses, json : BOOLEAN, fits : SUBSET Schemas]

Targets == {"static", "sandbox", "other"}

(* A response: where its request goes, what it is checked for, the answer  *)
(* it holds, whether its check has been begun and its `expect` is built;   *)
(* history: the check raised, and it has been sent again for its schema.   *)
Response == [endpoint : Endpoints, to : Targets, negative : BOOLEAN, checks : BOOLEAN,
             answer : Answer, ran : BOOLEAN, built : BOOLEAN,
             raised : BOOLEAN, resent : BOOLEAN]

ASSUME ClientAssumption ==
  /\ Unsupported \subseteq Endpoints /\ Schemas \subseteq Statuses
  /\ None \notin Statuses /\ Expected \in [Endpoints -> Statuses \cup {None}]
  /\ Answers \subseteq Answer /\ Answers # {}
  /\ Polls \in BOOLEAN
  /\ {MaxCalls, MaxDeclared, MaxBinds, MaxFaults} \subseteq Nat

VARIABLES
  target,     \* the address of the client
  preflight,  \* it has the pre-flight of the sandbox
  pending,    \* operations declared on the sandbox and not applied
  applied,    \* history: those applied
  aborted,    \* history: applying them has failed before
  alive,      \* the instance in the sandbox
  pc,         \* "idle", or the next step of a call or of a check
  call,       \* the call in progress: endpoint, negative, checks
  guarded,    \* its pre-flight has run
  responses,  \* the responses of the test, in order
  at,         \* the one that is being checked
  schema,     \* the schema its body is checked against
  last,       \* history: the last request that went out
  calls, declared, binds, faults

client == <<target, preflight>>
data   == <<pending, applied, aborted>>
bounds == <<calls, declared, binds, faults>>
vars   == <<target, preflight, pending, applied, aborted, alive, pc, call, guarded, responses, at, schema,
            last, calls, declared, binds, faults>>

(* A request that goes out: to where, how much of what the test declared   *)
(* is not applied, whether applying it has failed before, whether the call *)
(* has run the pre-flight, and whether a check sends it again.             *)
Request == [to : Targets, missing : Nat, aborted : BOOLEAN, guarded : BOOLEAN,
            again : BOOLEAN]

TypeOK ==
  /\ target \in Targets /\ preflight \in BOOLEAN
  /\ pending \in Nat /\ applied \in Nat /\ aborted \in BOOLEAN /\ alive \in BOOLEAN
  /\ pc \in {"idle", "apply", "ensure", "send", "status", "parse", "schema"}
  /\ call \in [endpoint : Endpoints, negative : BOOLEAN, checks : BOOLEAN]
  /\ guarded \in BOOLEAN
  /\ responses \in Seq(Response)
  /\ pc \in {"status", "parse", "schema"} => at \in DOMAIN responses
  /\ pc = "schema" => schema \in Schemas
  /\ last \in Request
  /\ {calls, declared, binds, faults} \subseteq Nat

Init ==
  /\ target = "static" /\ preflight = FALSE
  /\ pending = 0 /\ applied = 0 /\ aborted = FALSE /\ alive = TRUE
  /\ pc = "idle" /\ guarded = FALSE /\ at = 0 /\ schema = None
  /\ call \in [endpoint : Endpoints, negative : {FALSE}, checks : {FALSE}]
  /\ responses = <<>>
  /\ last = [to |-> "static", missing |-> 0, aborted |-> FALSE, guarded |-> FALSE,
              again |-> FALSE]
  /\ calls = 0 /\ declared = 0 /\ binds = 0 /\ faults = 0

Fault == faults < MaxFaults /\ faults' = faults + 1

-----------------------------------------------------------------------------
(***************************************************************************)
(* The test: it binds and declares.                                        *)
(***************************************************************************)
(* Bug: a target without a pre-flight leaves the one that is there. *)
BindKeepsPreflight ==
  /\ pc = "idle" /\ binds < MaxBinds /\ binds' = binds + 1
  /\ \/ target' = "sandbox" /\ alive /\ preflight' = TRUE
     \/ target' = "other" /\ UNCHANGED preflight
  /\ UNCHANGED <<data, alive, pc, call, guarded, responses, at, schema, last,
                 calls, declared, faults>>

(* Every endpoint of the test follows.  A sandbox whose instance has died  *)
(* has no address, and a target without one is refused: nothing changes.   *)
Bind ==
  /\ pc = "idle" /\ binds < MaxBinds /\ binds' = binds + 1
  /\ \/ target' = "sandbox" /\ alive /\ preflight' = TRUE
     \/ target' = "other" /\ preflight' = FALSE
  /\ UNCHANGED <<data, alive, pc, call, guarded, responses, at, schema, last,
                 calls, declared, faults>>

Declare ==
  /\ pc = "idle" /\ declared < MaxDeclared /\ declared' = declared + 1
  /\ pending' = pending + 1
  /\ UNCHANGED <<client, applied, aborted, alive, pc, call, guarded, responses, at,
                 schema, last, calls, binds, faults>>

InstanceDies ==
  /\ alive /\ alive' = FALSE /\ Fault
  /\ UNCHANGED <<client, data, pc, call, guarded, responses, at, schema, last,
                 calls, declared, binds>>

-----------------------------------------------------------------------------
(***************************************************************************)
(* A call.  Whatever is wrong with its arguments is found after the        *)
(* pre-flight, but for the kind of its authenticator.                      *)
(***************************************************************************)
Call(e) ==
  /\ pc = "idle" /\ calls < MaxCalls /\ calls' = calls + 1
  /\ \E negative, checks \in BOOLEAN :
       call' = [endpoint |-> e, negative |-> negative, checks |-> checks]
  /\ pc' = IF preflight THEN "apply" ELSE "send"
  /\ guarded' = FALSE
  /\ UNCHANGED <<client, data, alive, responses, at, schema, last, declared, binds,
                 faults>>

(* The batch is taken before it is applied: when an operation fails, it    *)
(* and those behind it are lost.                                           *)
Apply ==
  /\ pc = "apply"
  /\ pending' = 0
  /\ \/ pc' = "ensure" /\ applied' = applied + pending /\ UNCHANGED <<aborted, faults>>
     \/ /\ \E n \in 1..pending : applied' = applied + pending - n
        /\ aborted' = TRUE /\ pc' = "idle" /\ Fault
  /\ UNCHANGED <<client, alive, call, guarded, responses, at, schema, last, calls,
                 declared, binds>>

EnsureService ==
  /\ pc = "ensure"
  /\ pc' = IF alive THEN "send" ELSE "idle"
  /\ guarded' = alive
  /\ UNCHANGED <<client, data, alive, call, responses, at, schema, last, bounds>>

Reachable(to) == to = "sandbox" => alive

Sent(to, seen, again) ==
  last' = [to |-> to, missing |-> declared - applied, aborted |-> aborted,
           guarded |-> seen, again |-> again]

Send ==
  /\ pc = "send" /\ call.endpoint \notin Unsupported /\ Reachable(target)
  /\ Sent(target, guarded, FALSE)
  /\ \E a \in Answers :
       responses' = Append(responses,
         [endpoint |-> call.endpoint, to |-> target, negative |-> call.negative,
          checks |-> call.checks, answer |-> a, ran |-> FALSE, built |-> FALSE,
          raised |-> FALSE, resent |-> FALSE])
  /\ pc' = "idle"
  /\ UNCHANGED <<client, data, alive, call, guarded, at, schema, bounds>>

SendFails ==
  /\ pc = "send"
  /\ \/ /\ call.endpoint \in Unsupported \/ ~Reachable(target)
        /\ UNCHANGED faults
     \/ Fault
  /\ pc' = "idle"
  /\ UNCHANGED <<client, data, alive, call, guarded, responses, at, schema, last,
                 calls, declared, binds>>

-----------------------------------------------------------------------------
(***************************************************************************)
(* The first access to `expect`.                                           *)
(***************************************************************************)
This == responses[at]
With(r) == [responses EXCEPT ![at] = r]

(* The check of a negative call only parses; that of a positive one begins *)
(* with the status, if the endpoint expects one.                           *)
FirstCheck(r) == IF r.negative \/ Expected[r.endpoint] = None THEN "parse" ELSE "status"

Expect(i) ==
  /\ pc = "idle" /\ i \in DOMAIN responses /\ ~responses[i].built
  /\ at' = i
  /\ \/ /\ responses[i].checks /\ ~responses[i].ran
        /\ responses' = [responses EXCEPT ![i].ran = TRUE]
        /\ pc' = FirstCheck(responses[i])
     \/ /\ ~responses[i].checks \/ responses[i].ran
        /\ responses' = [responses EXCEPT ![i].built = TRUE]
        /\ UNCHANGED pc
  /\ UNCHANGED <<client, data, alive, call, guarded, schema, last, bounds>>

(* What the check in progress says of the answer the response holds.       *)
Accepted == CASE pc = "status" -> This.answer.status = Expected[This.endpoint]
              [] pc = "parse"  -> This.answer.json
              [] pc = "schema" -> This.answer.json /\ schema \in This.answer.fits

Built == pc' = "idle" /\ responses' = With([This EXCEPT !.built = TRUE])

StatusAccepted ==
  /\ pc = "status" /\ Accepted
  /\ pc' = "parse"
  /\ UNCHANGED <<client, data, alive, call, guarded, responses, at, schema, last, bounds>>

(* Bug: a positive response is not checked against its schema. *)
ParsedOnly ==
  /\ pc = "parse" /\ Accepted
  /\ Built
  /\ UNCHANGED <<client, data, alive, call, guarded, at, schema, last, bounds>>

(* The schema is that of the status the response has now.                  *)
Parsed ==
  /\ pc = "parse" /\ Accepted
  /\ \/ /\ ~This.negative /\ This.answer.status \in Schemas
        /\ schema' = This.answer.status
        /\ pc' = "schema" /\ UNCHANGED responses
     \/ /\ This.negative \/ This.answer.status \notin Schemas
        /\ Built /\ UNCHANGED schema
  /\ UNCHANGED <<client, data, alive, call, guarded, at, last, bounds>>

SchemaAccepted ==
  /\ pc = "schema" /\ Accepted
  /\ Built
  /\ UNCHANGED <<client, data, alive, call, guarded, at, schema, last, bounds>>

(* The request is sent again, as it was, to where it went, and the answer  *)
(* takes the place of the response.  A body that is not JSON is no verdict *)
(* of the schema but an error, which ends the polling.                     *)
Resend ==
  /\ pc \in {"status", "schema"} /\ Polls /\ ~Accepted
  /\ pc = "schema" => This.answer.json
  /\ Reachable(This.to)
  /\ Sent(This.to, FALSE, TRUE)
  /\ \E a \in Answers :
       responses' = With([This EXCEPT !.answer = a, !.resent = @ \/ pc = "schema"])
  /\ UNCHANGED <<client, data, alive, pc, call, guarded, at, schema, bounds>>

(* The check raises: it is not repeated, its time is over, or the service  *)
(* does not answer any more.                                               *)
CheckFails ==
  /\ pc \in {"status", "parse", "schema"} /\ ~Accepted
  /\ pc' = "idle"
  /\ responses' = With([This EXCEPT !.raised = TRUE])
  /\ UNCHANGED <<client, data, alive, call, guarded, at, schema, last, bounds>>

Next ==
  \/ Bind \/ Declare \/ InstanceDies
  \/ (\E e \in Endpoints : Call(e)) \/ Apply \/ EnsureService \/ Send \/ SendFails
  \/ \E i \in 1..MaxCalls : Expect(i)
  \/ StatusAccepted \/ Parsed \/ SchemaAccepted \/ Resend \/ CheckFails

Spec == Init /\ [][Next]_vars

-----------------------------------------------------------------------------
(***************************************************************************)
(* Properties.                                                             *)
(***************************************************************************)

(* However a test binds and binds again, and whatever failed before: a     *)
(* call that goes to the sandbox has seen the instance alive, and has all  *)
(* applied that the test declared, first or last, unless applying it had   *)
(* failed in an earlier call; a call that goes elsewhere has run none of   *)
(* the pre-flight (docs/sandbox/api.md, "Binding the api").                *)
CallsAreGuarded ==
  ~last.again => /\ last.guarded = (last.to = "sandbox")
                 /\ last.to = "sandbox" => last.missing = 0 \/ last.aborted

(* "The test's declared data applies as one batch and the instance liveness*)
(* is checked before every request" (docs/sandbox/api.md): also before the *)
(* request of a call that is made once more after its data failed.  The    *)
(* code does not keep to this: see the README, section 6.                  *)
DeclaredIsApplied == last.to = "sandbox" /\ ~last.again => last.missing = 0

(* The response a test goes on with, unless it has opted out or has caught *)
(* the error of an earlier access, is one the automatic check accepted:    *)
(* JSON, and for a positive call the expected status and its schema - but  *)
(* for the status of one that was sent again for its schema.               *)
ExpectIsChecked ==
  \A i \in DOMAIN responses :
    LET r == responses[i]
        s == Expected[r.endpoint] IN
      r.built /\ r.checks /\ ~r.raised =>
        /\ r.answer.json
        /\ ~r.negative /\ s # None =>
             /\ s \in Schemas => s \in r.answer.fits
             /\ r.resent \/ r.answer.status = s

(* "The test's declared data applies as one batch and the instance liveness*)
(* is checked before every request" (docs/sandbox/api.md): also before one *)
(* that is sent again while a check polls.                                 *)
ResendsAreGuarded == last.to = "sandbox" /\ ~last.aborted => last.missing = 0
=============================================================================
