----------------------------- MODULE ClientProofs -----------------------------
(***************************************************************************)
(* Proofs about Client, for any endpoints, expected statuses, schemas and  *)
(* answers, any number of bindings, calls, declarations and failures, with *)
(* and without a polling baseline.                                         *)
(***************************************************************************)
EXTENDS Client, SequenceTheorems, TLAPS

(* A check is in progress.                                                 *)
Checking == pc \in {"status", "parse", "schema"}

(* The pre-flight belongs to the address: a call that has one has applied  *)
(* the batch when it has come to the liveness check, and nothing is        *)
(* declared between that and the request.  What is declared is applied or  *)
(* waits in the batch, until a batch fails.                                *)
GuardInv ==
  /\ preflight = (target = "sandbox")
  /\ pc \in {"apply", "ensure"} => preflight
  /\ applied + pending <= declared
  /\ ~aborted => applied + pending = declared
  /\ pc = "ensure" => pending = 0
  /\ pc = "send" => /\ guarded = (target = "sandbox")
                    /\ target = "sandbox" => pending = 0

(* What the check in progress has accepted of the response it is about.    *)
CheckInv ==
  LET r == responses[at]
      s == Expected[r.endpoint] IN
  /\ Checking => r.checks /\ r.ran /\ ~r.built /\ ~r.raised
  /\ pc = "parse" /\ ~r.negative /\ s # None => r.answer.status = s
  /\ pc = "schema" => ~r.negative
  /\ pc = "schema" /\ s # None => schema = s /\ (r.resent \/ r.answer.status = s)

(* A check that has been begun is in progress, has accepted or has raised. *)
RanInv ==
  \A i \in DOMAIN responses :
    /\ responses[i].ran => \/ responses[i].built \/ responses[i].raised
                           \/ Checking /\ at = i
    /\ responses[i].raised => responses[i].ran

(* The inductive invariant.                                                *)
IInv == TypeOK /\ GuardInv /\ CallsAreGuarded /\ CheckInv /\ RanInv /\ ExpectIsChecked

(* A response takes the place of another ...                               *)
LEMMA ReplaceResponse ==
  ASSUME NEW rs \in Seq(Response), NEW i \in DOMAIN rs, NEW r \in Response
  PROVE  /\ [rs EXCEPT ![i] = r] \in Seq(Response)
         /\ DOMAIN [rs EXCEPT ![i] = r] = DOMAIN rs
         /\ [rs EXCEPT ![i] = r][i] = r
         /\ \A j \in DOMAIN rs : j # i => [rs EXCEPT ![i] = r][j] = rs[j]
<1>1. DOMAIN rs = 1..Len(rs)
  BY LenProperties
<1>. QED
  BY <1>1, ExceptSeq

(* ... or comes after the others.                                          *)
LEMMA AppendResponse ==
  ASSUME NEW rs \in Seq(Response), NEW r \in Response
  PROVE  /\ Append(rs, r) \in Seq(Response)
         /\ \A j \in DOMAIN Append(rs, r) :
              \/ j \in DOMAIN rs /\ Append(rs, r)[j] = rs[j]
              \/ Append(rs, r)[j] = r
         /\ \A j \in DOMAIN rs : j \in DOMAIN Append(rs, r)
<1>1. /\ Len(rs) \in Nat /\ DOMAIN rs = 1..Len(rs)
      /\ Append(rs, r) \in Seq(Response)
      /\ DOMAIN Append(rs, r) = 1..(Len(rs) + 1)
      /\ \A j \in 1..Len(rs) : Append(rs, r)[j] = rs[j]
      /\ Append(rs, r)[Len(rs) + 1] = r
  BY LenProperties, AppendProperties
<1>2. \A j \in 1..(Len(rs) + 1) : j \in 1..Len(rs) \/ j = Len(rs) + 1
  BY <1>1
<1>3. \A j \in 1..Len(rs) : j \in 1..(Len(rs) + 1)
  BY <1>1
<1>. QED
  BY <1>1, <1>2, <1>3

(* Nothing but what a check step does to its response.                     *)
LEMMA IdleStep ==
  ASSUME IInv, UNCHANGED responses, pc' \notin {"status", "parse", "schema"},
         ~Checking
  PROVE  (CheckInv /\ RanInv /\ ExpectIsChecked)'
BY DEF IInv, CheckInv, RanInv, ExpectIsChecked, Checking

(* A new client has no response, and no sandbox to guard.                  *)
LEMMA InitIInv == Init => IInv
<1>. SUFFICES ASSUME Init PROVE IInv
  OBVIOUS
<1>1. TypeOK
  <2>1. responses \in Seq(Response)
    BY EmptySeq DEF Init
  <2>2. last \in Request /\ target \in Targets
    BY DEF Init, Targets, Request
  <2>3. call \in [endpoint : Endpoints, negative : BOOLEAN, checks : BOOLEAN]
    BY DEF Init
  <2>4. {calls, declared, binds, faults} \subseteq Nat
    BY DEF Init
  <2>5. pc = "idle" /\ pending = 0 /\ applied = 0 /\ aborted = FALSE /\ preflight = FALSE /\ alive = TRUE /\ guarded = FALSE
    BY DEF Init
  <2>. QED
    BY <2>1, <2>2, <2>3, <2>4, <2>5 DEF TypeOK
<1>2. GuardInv /\ CallsAreGuarded
  <2>1. target = "static" /\ preflight = FALSE /\ pc = "idle" /\ applied = 0 /\ pending = 0
        /\ declared = 0
    BY DEF Init
  <2>2. last.guarded = FALSE /\ last.to = "static"
    BY DEF Init
  <2>3. applied + pending = declared /\ applied + pending <= declared
    BY <2>1
  <2>4. GuardInv
    BY <2>1, <2>3, Zenon DEF GuardInv
  <2>5. CallsAreGuarded
    BY <2>2 DEF CallsAreGuarded
  <2>. QED
    BY <2>4, <2>5
<1>3. DOMAIN responses = {}
  <2>1. responses = <<>> /\ <<>> \in Seq(Response) /\ Len(<<>>) = 0 /\ 1..0 = {}
    BY EmptySeq DEF Init
  <2>. QED
    BY <2>1, LenProperties
<1>4. CheckInv /\ RanInv /\ ExpectIsChecked
  BY <1>3 DEF Init, CheckInv, RanInv, ExpectIsChecked, Checking
<1>. QED
  BY <1>1, <1>2, <1>4 DEF IInv

-----------------------------------------------------------------------------
(* The steps of a call, of the test and of the services.                   *)
LEMMA GuardStep ==
  ASSUME IInv, [Next]_vars
  PROVE  (GuardInv /\ CallsAreGuarded)'
<1>. USE DEF IInv, TypeOK, GuardInv, CallsAreGuarded
<1>1. CASE Bind
  BY <1>1 DEF Bind, data
<1>2. CASE Declare
  BY <1>2 DEF Declare, client
<1>3. CASE InstanceDies
  BY <1>3 DEF InstanceDies, client, data, Fault
<1>4. ASSUME NEW e \in Endpoints, Call(e) PROVE (GuardInv /\ CallsAreGuarded)'
  BY <1>4 DEF Call, client, data
<1>5. CASE Apply
  <2>1. /\ pc = "apply" /\ pending' = 0 /\ pc' \in {"ensure", "idle"}
        /\ UNCHANGED <<target, preflight, guarded, last, declared>>
    BY <1>5 DEF Apply, client
  <2>2. declared \in Nat /\ applied \in Nat /\ pending \in Nat
    OBVIOUS
  <2>3. applied' + pending' <= declared'
    <3>1. applied + pending <= declared
      OBVIOUS
    <3>2. CASE applied' = applied + pending
      BY <2>1, <2>2, <3>1, <3>2
    <3>3. ASSUME NEW n \in 1..pending, applied' = applied + pending - n
          PROVE  applied' + pending' <= declared'
      BY <2>1, <2>2, <3>1, <3>3
    <3>. QED
      BY <1>5, <3>2, <3>3 DEF Apply
  <2>4. ~aborted' => applied' + pending' = declared'
    <3>1. ~aborted' => ~aborted /\ applied' = applied + pending
      BY <1>5 DEF Apply
    <3>2. ~aborted => applied + pending = declared
      OBVIOUS
    <3>. QED
      BY <2>1, <2>2, <3>1, <3>2
  <2>5. CallsAreGuarded'
    BY <2>1
  <2>. QED
    BY <2>1, <2>3, <2>4, <2>5
<1>6. CASE EnsureService
  BY <1>6 DEF EnsureService, client, data, bounds
<1>7. CASE Send
  <2>1. /\ pc = "send" /\ pc' = "idle"
        /\ UNCHANGED <<target, preflight, pending, applied, aborted, declared, guarded>>
    BY <1>7 DEF Send, client, data, bounds
  <2>2. last' = [to |-> target, missing |-> declared - applied, aborted |-> aborted,
                 guarded |-> guarded, again |-> FALSE]
    BY <1>7 DEF Send, Sent
  <2>3. declared \in Nat /\ applied \in Nat /\ pending \in Nat
    OBVIOUS
  <2>4. target = "sandbox" => declared - applied = 0 \/ aborted
    BY <2>1, <2>3
  <2>5. CallsAreGuarded'
    BY <2>1, <2>2, <2>4
  <2>. QED
    BY <2>1, <2>5
<1>8. CASE SendFails
  BY <1>8 DEF SendFails, client, data, Fault
<1>9. ASSUME NEW i \in 1..MaxCalls, Expect(i) PROVE (GuardInv /\ CallsAreGuarded)'
  BY <1>9 DEF Expect, FirstCheck, client, data, bounds
<1>10. CASE StatusAccepted \/ Parsed \/ SchemaAccepted \/ Resend \/ CheckFails
  <2>1. UNCHANGED <<target, preflight, pending, applied, aborted, declared, guarded>>
    BY <1>10 DEF StatusAccepted, Parsed, SchemaAccepted, Resend, CheckFails, client, data, bounds
  <2>2. pc' \notin {"apply", "ensure", "send"}
    BY <1>10 DEF StatusAccepted, Parsed, SchemaAccepted, Resend, CheckFails, Built
  <2>3. CASE Resend
    <3>2. last'.again
      BY <2>3 DEF Resend, Sent
    <3>. QED
      BY <2>1, <2>2, <3>2
  <2>4. CASE StatusAccepted \/ Parsed \/ SchemaAccepted \/ CheckFails
    <3>1. last' = last
      BY <2>4 DEF StatusAccepted, Parsed, SchemaAccepted, CheckFails
    <3>. QED
      BY <2>1, <2>2, <3>1
  <2>. QED
    BY <1>10, <2>3, <2>4
<1>11. CASE UNCHANGED vars
  BY <1>11 DEF vars
<1>. HIDE DEF IInv, TypeOK, GuardInv, CallsAreGuarded
<1>. QED
  BY <1>1, <1>2, <1>3, <1>4, <1>5, <1>6, <1>7, <1>8, <1>9, <1>10, <1>11 DEF Next

(* A response comes in unchecked.                                          *)
LEMMA SendStep ==
  ASSUME IInv, Send
  PROVE  responses' \in Seq(Response) /\ (CheckInv /\ RanInv /\ ExpectIsChecked)'
<1>1. PICK a \in Answers :
        responses' = Append(responses,
          [endpoint |-> call.endpoint, to |-> target, negative |-> call.negative,
           checks |-> call.checks, answer |-> a, ran |-> FALSE, built |-> FALSE,
           raised |-> FALSE, resent |-> FALSE])
  BY DEF Send
<1>. DEFINE r == [endpoint |-> call.endpoint, to |-> target, negative |-> call.negative,
                  checks |-> call.checks, answer |-> a, ran |-> FALSE, built |-> FALSE,
                  raised |-> FALSE, resent |-> FALSE]
<1>2. r \in Response /\ ~r.ran /\ ~r.built /\ ~r.raised /\ responses \in Seq(Response)
  BY ClientAssumption DEF IInv, TypeOK, Response, Answer
<1>3. responses' = Append(responses, r)
  BY <1>1
<1>. HIDE DEF r
<1>4. ~Checking /\ pc' = "idle"
  BY DEF Send, Checking
<1>5. responses' \in Seq(Response)
  BY <1>2, <1>3, AppendResponse
<1>6. \A j \in DOMAIN responses' :
        \/ j \in DOMAIN responses /\ responses'[j] = responses[j]
        \/ responses'[j] = r
  BY <1>2, <1>3, AppendResponse
<1>7. CheckInv'
  BY <1>4 DEF CheckInv, Checking
<1>8. RanInv'
  BY <1>2, <1>4, <1>6 DEF IInv, RanInv
<1>9. ExpectIsChecked'
  BY <1>2, <1>6 DEF IInv, ExpectIsChecked
<1>. QED
  BY <1>5, <1>7, <1>8, <1>9

(* The first access begins the check, a later one only builds.             *)
LEMMA ExpectStep ==
  ASSUME IInv, NEW i \in 1..MaxCalls, Expect(i)
  PROVE  /\ responses' \in Seq(Response)
         /\ pc' \in {"status", "parse", "schema"} => at' \in DOMAIN responses'
         /\ (CheckInv /\ RanInv /\ ExpectIsChecked)'
<1>1. /\ pc = "idle" /\ ~Checking /\ i \in DOMAIN responses /\ ~responses[i].built
      /\ at' = i /\ responses \in Seq(Response) /\ responses[i] \in Response
  BY LenProperties, ElementOfSeq DEF Expect, Checking, IInv, TypeOK
<1>2. CASE responses[i].checks /\ ~responses[i].ran
  <2>. DEFINE r == [responses[i] EXCEPT !.ran = TRUE]
  <2>1. responses' = [responses EXCEPT ![i] = r] /\ pc' = FirstCheck(responses[i])
    BY <1>2 DEF Expect
  <2>2. /\ r \in Response /\ r.ran /\ r.checks /\ ~r.built
        /\ r.raised = responses[i].raised
        /\ r.endpoint = responses[i].endpoint /\ r.negative = responses[i].negative
    BY <1>1, <1>2 DEF Response
  <2>. HIDE DEF r
  <2>3. /\ responses' \in Seq(Response) /\ DOMAIN responses' = DOMAIN responses
        /\ responses'[i] = r
        /\ \A j \in DOMAIN responses : j # i => responses'[j] = responses[j]
    BY <1>1, <2>1, <2>2, ReplaceResponse
  <2>4. /\ pc' \in {"status", "parse"}
        /\ pc' = "parse" => r.negative \/ Expected[r.endpoint] = None
    BY <2>1, <2>2 DEF FirstCheck
  <2>5. ~r.raised
    BY <1>1, <1>2, <2>2 DEF IInv, RanInv
  <2>6. CheckInv'
    BY <1>1, <2>2, <2>3, <2>4, <2>5 DEF CheckInv, Checking
  <2>7. RanInv'
    BY <1>1, <2>2, <2>3, <2>4 DEF IInv, RanInv, Checking
  <2>8. ExpectIsChecked'
    BY <1>1, <2>2, <2>3 DEF IInv, ExpectIsChecked
  <2>. QED
    BY <1>1, <2>3, <2>6, <2>7, <2>8
<1>3. CASE ~responses[i].checks \/ responses[i].ran
  <2>. DEFINE r == [responses[i] EXCEPT !.built = TRUE]
  <2>1. responses' = [responses EXCEPT ![i] = r] /\ pc' = "idle"
    BY <1>1, <1>3 DEF Expect
  <2>2. /\ r \in Response /\ r.built /\ r.ran = responses[i].ran
        /\ r.checks = responses[i].checks /\ r.raised = responses[i].raised
    BY <1>1 DEF Response
  <2>. HIDE DEF r
  <2>3. /\ responses' \in Seq(Response) /\ DOMAIN responses' = DOMAIN responses
        /\ responses'[i] = r
        /\ \A j \in DOMAIN responses : j # i => responses'[j] = responses[j]
    BY <1>1, <2>1, <2>2, ReplaceResponse
  <2>4. r.checks => r.raised
    BY <1>1, <1>3, <2>2 DEF IInv, RanInv
  <2>5. CheckInv'
    BY <2>1 DEF CheckInv, Checking
  <2>6. RanInv'
    BY <1>1, <2>1, <2>2, <2>3 DEF IInv, RanInv, Checking
  <2>7. ExpectIsChecked'
    BY <1>1, <2>2, <2>3, <2>4 DEF IInv, ExpectIsChecked
  <2>. QED
    BY <2>1, <2>3, <2>5, <2>6, <2>7
<1>. QED
  BY <1>2, <1>3

(* What a check that is accepted, sent again or given up makes of its      *)
(* response.                                                               *)
LEMMA CheckStep ==
  ASSUME IInv, StatusAccepted \/ Parsed \/ SchemaAccepted \/ Resend \/ CheckFails
  PROVE  /\ responses' \in Seq(Response) /\ DOMAIN responses' = DOMAIN responses
         /\ at' = at
         /\ pc' = "schema" => schema' \in Schemas
         /\ (CheckInv /\ RanInv /\ ExpectIsChecked)'
<1>. DEFINE r == responses[at]
<1>1. /\ Checking /\ at \in DOMAIN responses /\ at' = at
      /\ responses \in Seq(Response) /\ r \in Response
  <2>1. Checking /\ at' = at
    BY DEF StatusAccepted, Parsed, SchemaAccepted, Resend, CheckFails, Checking, Accepted
  <2>2. at \in DOMAIN responses /\ responses \in Seq(Response)
    BY <2>1 DEF IInv, TypeOK, Checking
  <2>. QED
    BY <2>1, <2>2, LenProperties, ElementOfSeq
<1>2. /\ r.checks /\ r.ran /\ ~r.built /\ ~r.raised
      /\ pc = "parse" /\ ~r.negative /\ Expected[r.endpoint] # None
           => r.answer.status = Expected[r.endpoint]
      /\ pc = "schema" => ~r.negative
      /\ pc = "schema" /\ Expected[r.endpoint] # None
           => schema = Expected[r.endpoint] /\ (r.resent \/ r.answer.status = Expected[r.endpoint])
  BY <1>1 DEF IInv, CheckInv
<1>3. ASSUME NEW new \in Response, responses' = [responses EXCEPT ![at] = new]
      PROVE  /\ responses' \in Seq(Response) /\ DOMAIN responses' = DOMAIN responses
             /\ responses'[at] = new
             /\ \A j \in DOMAIN responses : j # at => responses'[j] = responses[j]
  BY <1>1, <1>3, ReplaceResponse
(* The check goes on with the same response.                               *)
<1>4. ASSUME UNCHANGED responses, Checking',
             pc' = "parse" /\ ~r.negative /\ Expected[r.endpoint] # None
               => r.answer.status = Expected[r.endpoint],
             pc' = "schema" => ~r.negative,
             pc' = "schema" /\ Expected[r.endpoint] # None
               => schema' = Expected[r.endpoint]
                    /\ (r.resent \/ r.answer.status = Expected[r.endpoint])
      PROVE  (CheckInv /\ RanInv /\ ExpectIsChecked)'
  <2>1. CheckInv'
    BY <1>1, <1>2, <1>4 DEF CheckInv
  <2>2. RanInv'
    BY <1>1, <1>4 DEF IInv, RanInv
  <2>3. ExpectIsChecked'
    BY <1>4 DEF IInv, ExpectIsChecked
  <2>. QED
    BY <2>1, <2>2, <2>3
(* It comes to its end.                                                    *)
<1>5. ASSUME NEW new \in Response, responses' = [responses EXCEPT ![at] = new],
             pc' = "idle", new.ran, new.built \/ new.raised,
             new.built /\ ~new.raised =>
               /\ new.answer.json
               /\ ~new.negative /\ Expected[new.endpoint] # None =>
                    /\ Expected[new.endpoint] \in Schemas
                         => Expected[new.endpoint] \in new.answer.fits
                    /\ new.resent \/ new.answer.status = Expected[new.endpoint]
      PROVE  (CheckInv /\ RanInv /\ ExpectIsChecked)'
  <2>1. CheckInv'
    BY <1>5 DEF CheckInv, Checking
  <2>2. RanInv'
    BY <1>3, <1>5 DEF IInv, RanInv
  <2>3. ExpectIsChecked'
    BY <1>3, <1>5 DEF IInv, ExpectIsChecked
  <2>. QED
    BY <2>1, <2>2, <2>3
<1>6. CASE StatusAccepted
  <2>1. /\ pc = "status" /\ pc' = "parse" /\ UNCHANGED responses
        /\ r.answer.status = Expected[r.endpoint]
    BY <1>6 DEF StatusAccepted, Accepted, This
  <2>. QED
    BY <1>1, <1>4, <2>1 DEF Checking
<1>7. CASE Parsed
  <2>1. pc = "parse" /\ r.answer.json
    BY <1>7 DEF Parsed, Accepted, This
  <2>2. CASE ~r.negative /\ r.answer.status \in Schemas /\ pc' = "schema"
    <3>1. UNCHANGED responses /\ schema' = r.answer.status
      BY <1>7, <2>2 DEF Parsed, This, Built
    <3>. QED
      BY <1>1, <1>2, <1>4, <2>1, <2>2, <3>1 DEF Checking
  <2>3. CASE (r.negative \/ r.answer.status \notin Schemas) /\ Built
    <3>. DEFINE new == [r EXCEPT !.built = TRUE]
    <3>1. responses' = [responses EXCEPT ![at] = new] /\ pc' = "idle"
      BY <2>3 DEF Built, With, This
    <3>2. /\ new \in Response /\ new.built /\ new.ran
          /\ new.answer = r.answer /\ new.negative = r.negative
          /\ new.endpoint = r.endpoint
      BY <1>1, <1>2 DEF Response
    <3>. HIDE DEF new
    <3>. QED
      BY <1>1, <1>2, <1>3, <1>5, <2>1, <2>3, <3>1, <3>2
  <2>. QED
    BY <1>7, <2>2, <2>3 DEF Parsed, This
<1>8. CASE SchemaAccepted
  <2>1. pc = "schema" /\ r.answer.json /\ schema \in r.answer.fits
    BY <1>8 DEF SchemaAccepted, Accepted, This
  <2>. DEFINE new == [r EXCEPT !.built = TRUE]
  <2>2. responses' = [responses EXCEPT ![at] = new] /\ pc' = "idle"
    BY <1>8 DEF SchemaAccepted, Built, With, This
  <2>3. /\ new \in Response /\ new.built /\ new.ran
        /\ new.answer = r.answer /\ new.negative = r.negative
        /\ new.endpoint = r.endpoint /\ new.resent = r.resent
    BY <1>1, <1>2 DEF Response
  <2>. HIDE DEF new
  <2>. QED
    BY <1>1, <1>2, <1>3, <1>5, <2>1, <2>2, <2>3
<1>9. CASE Resend
  <2>1. PICK a \in Answers :
          responses' = [responses EXCEPT ![at] =
                          [r EXCEPT !.answer = a, !.resent = @ \/ pc = "schema"]]
    BY <1>9 DEF Resend, With, This
  <2>. DEFINE new == [r EXCEPT !.answer = a, !.resent = @ \/ pc = "schema"]
  <2>2. pc \in {"status", "schema"} /\ pc' = pc /\ UNCHANGED schema
    BY <1>9 DEF Resend, client, bounds
  <2>3. a \in Answer
    BY ClientAssumption
  <2>4. /\ new \in Response /\ new.checks /\ new.ran /\ ~new.built /\ ~new.raised
        /\ new.negative = r.negative /\ new.endpoint = r.endpoint
        /\ pc = "schema" => new.resent
    BY <1>1, <1>2, <2>3 DEF Response
  <2>5. responses' = [responses EXCEPT ![at] = new]
    BY <2>1
  <2>. HIDE DEF new
  <2>6. CheckInv'
    BY <1>1, <1>2, <1>3, <2>2, <2>4, <2>5 DEF CheckInv, Checking
  <2>7. RanInv'
    BY <1>1, <1>3, <2>2, <2>4, <2>5 DEF IInv, RanInv, Checking
  <2>8. ExpectIsChecked'
    BY <1>3, <2>4, <2>5 DEF IInv, ExpectIsChecked
  <2>9. pc' = "schema" => schema' \in Schemas
    BY <2>2 DEF IInv, TypeOK
  <2>. QED
    BY <1>1, <1>3, <2>4, <2>5, <2>6, <2>7, <2>8, <2>9
<1>10. CASE CheckFails
  <2>. DEFINE new == [r EXCEPT !.raised = TRUE]
  <2>1. responses' = [responses EXCEPT ![at] = new] /\ pc' = "idle"
    BY <1>10 DEF CheckFails, With, This
  <2>2. new \in Response /\ new.raised /\ new.ran
    BY <1>1, <1>2 DEF Response
  <2>. HIDE DEF new
  <2>. QED
    BY <1>1, <1>3, <1>5, <2>1, <2>2
<1>. QED
  BY <1>6, <1>7, <1>8, <1>9, <1>10

(* No more is applied than was declared.                                   *)
LEMMA MissingIsNat ==
  ASSUME IInv
  PROVE  declared - applied \in Nat
<1>1. declared \in Nat /\ applied \in Nat /\ pending \in Nat
  BY DEF IInv, TypeOK
<1>2. applied + pending <= declared
  BY DEF IInv, GuardInv
<1>. QED
  BY <1>1, <1>2

(* Together: every step keeps the invariant.                               *)
LEMMA IInvStep ==
  ASSUME IInv, [Next]_vars
  PROVE  IInv'
<1>. SUFFICES (TypeOK /\ CheckInv /\ RanInv /\ ExpectIsChecked)'
  BY GuardStep DEF IInv
<1>1. TypeOK
  BY DEF IInv
<1>0. calls \in Nat /\ declared \in Nat /\ binds \in Nat /\ faults \in Nat
  BY <1>1 DEF TypeOK
<1>2. ASSUME UNCHANGED <<responses, pc>>, at' = at, schema' = schema
      PROVE  (CheckInv /\ RanInv /\ ExpectIsChecked)'
  BY <1>2 DEF IInv, CheckInv, RanInv, ExpectIsChecked, Checking
<1>3. CASE Bind \/ Declare \/ InstanceDies
  <2>1. UNCHANGED <<responses, pc, at, schema>>
    BY <1>3 DEF Bind, Declare, InstanceDies
  <2>2. UNCHANGED <<call, guarded, last, calls>>
    BY <1>3 DEF Bind, Declare, InstanceDies
  <2>3. target' \in Targets /\ preflight' \in BOOLEAN
    BY <1>1, <1>3 DEF Bind, Declare, InstanceDies, client, TypeOK, Targets
  <2>7. UNCHANGED <<applied, aborted>>
    BY <1>3 DEF Bind, Declare, InstanceDies, data
  <2>4. pending' \in Nat /\ alive' \in BOOLEAN
    <3>1. pending \in Nat /\ alive \in BOOLEAN
      BY <1>1 DEF TypeOK
    <3>2. pending' = pending \/ pending' = pending + 1
      BY <1>3 DEF Bind, Declare, InstanceDies, data
    <3>3. alive' = alive \/ alive' = FALSE
      BY <1>3 DEF Bind, Declare, InstanceDies
    <3>4. pending' \in Nat
      BY <3>1, <3>2
    <3>5. alive' \in BOOLEAN
      BY <3>1, <3>3, Zenon
    <3>. QED
      BY <3>4, <3>5
  <2>5. declared' \in Nat /\ binds' \in Nat /\ faults' \in Nat
    <3>1. declared' = declared \/ declared' = declared + 1
      BY <1>3 DEF Bind, Declare, InstanceDies
    <3>2. binds' = binds \/ binds' = binds + 1
      BY <1>3 DEF Bind, Declare, InstanceDies
    <3>3. faults' = faults \/ faults' = faults + 1
      BY <1>3 DEF Bind, Declare, InstanceDies, Fault
    <3>. QED
      BY <1>0, <3>1, <3>2, <3>3
  <2>6. TypeOK'
    BY <1>0, <1>1, <2>1, <2>2, <2>3, <2>4, <2>5, <2>7 DEF TypeOK
  <2>. QED
    BY <1>2, <2>1, <2>6
<1>4. ASSUME NEW e \in Endpoints, Call(e)
      PROVE  (TypeOK /\ CheckInv /\ RanInv /\ ExpectIsChecked)'
  <2>1. UNCHANGED responses /\ ~Checking /\ pc' \in {"apply", "send"}
    BY <1>4 DEF Call, Checking
  <2>2. call' \in [endpoint : Endpoints, negative : BOOLEAN, checks : BOOLEAN]
    BY <1>4 DEF Call
  <2>3. /\ calls' = calls + 1 /\ guarded' = FALSE
        /\ UNCHANGED <<target, preflight, pending, applied, aborted, alive, last, declared, binds, faults>>
    BY <1>4 DEF Call, client, data
  <2>4. calls' \in Nat
    BY <1>0, <2>3
  <2>5. TypeOK'
    BY <1>1, <2>1, <2>2, <2>3, <2>4 DEF TypeOK
  <2>. QED
    BY <2>1, <2>5, IdleStep
<1>5. CASE Apply \/ EnsureService \/ SendFails
  <2>1. UNCHANGED responses /\ ~Checking /\ pc' \in {"idle", "ensure", "send"}
    BY <1>5 DEF Apply, EnsureService, SendFails, Checking
  <2>2. TypeOK'
    <3>1. CASE Apply
      <4>1. pending \in Nat /\ applied \in Nat /\ pending' = 0
        BY <1>1, <3>1 DEF Apply, TypeOK
      <4>2. applied' \in Nat
        <5>1. ASSUME NEW n \in 1..pending, applied' = applied + pending - n
              PROVE  applied' \in Nat
          BY <4>1, <5>1
        <5>. QED
          BY <3>1, <4>1, <5>1 DEF Apply
      <4>3. aborted' \in BOOLEAN
        <5>1. aborted' = aborted \/ aborted' = TRUE
          BY <3>1 DEF Apply
        <5>. QED
          BY <1>1, <5>1, Zenon DEF TypeOK
      <4>4. faults' \in Nat
        BY <1>0, <3>1 DEF Apply, Fault
      <4>5. /\ UNCHANGED <<target, preflight, alive, call, guarded, responses, at, schema,
                          last, calls, declared, binds>>
            /\ pc' \in {"idle", "ensure"}
        BY <3>1 DEF Apply, client
      <4>. QED
        BY <1>0, <1>1, <4>1, <4>2, <4>3, <4>4, <4>5 DEF TypeOK
    <3>2. CASE EnsureService \/ SendFails
      BY <1>1, <3>2 DEF EnsureService, SendFails, client, data, bounds, TypeOK, Fault
    <3>. QED
      BY <1>5, <3>1, <3>2
  <2>. QED
    BY <2>1, <2>2, IdleStep
<1>6. CASE Send
  <2>1. last' \in Request
    BY <1>1, <1>6, MissingIsNat DEF Send, Sent, Request, TypeOK
  <2>2. responses' \in Seq(Response)
    BY <1>6, SendStep
  <2>3. TypeOK'
    BY <1>1, <1>6, <2>1, <2>2 DEF Send, client, data, bounds, TypeOK
  <2>. QED
    BY <1>6, <2>3, SendStep
<1>7. ASSUME NEW i \in 1..MaxCalls, Expect(i)
      PROVE  (TypeOK /\ CheckInv /\ RanInv /\ ExpectIsChecked)'
  <2>1. /\ responses' \in Seq(Response)
        /\ pc' \in {"status", "parse", "schema"} => at' \in DOMAIN responses'
    BY <1>7, ExpectStep
  <2>2. pc' \in {"idle", "status", "parse"}
    BY <1>7 DEF Expect, FirstCheck
  <2>3. UNCHANGED <<target, preflight, pending, applied, aborted, alive, call, guarded, last, calls,
                    declared, binds, faults>>
    BY <1>7 DEF Expect, client, data, bounds
  <2>4. TypeOK'
    BY <1>1, <2>1, <2>2, <2>3 DEF TypeOK
  <2>. QED
    BY <1>7, <2>4, ExpectStep
<1>8. CASE StatusAccepted \/ Parsed \/ SchemaAccepted \/ Resend \/ CheckFails
  <2>1. /\ responses' \in Seq(Response) /\ DOMAIN responses' = DOMAIN responses
        /\ at' = at /\ (pc' = "schema" => schema' \in Schemas)
        /\ (CheckInv /\ RanInv /\ ExpectIsChecked)'
    BY <1>8, CheckStep
  <2>2. pc' \in {"idle", "status", "parse", "schema"}
    BY <1>8 DEF StatusAccepted, Parsed, SchemaAccepted, Resend, CheckFails, Built
  <2>3. UNCHANGED <<target, preflight, pending, applied, aborted, alive, call, guarded, calls,
                    declared, binds, faults>>
    BY <1>8 DEF StatusAccepted, Parsed, SchemaAccepted, Resend, CheckFails, client, data, bounds
  <2>4. pc \in {"status", "parse", "schema"}
    BY <1>8 DEF StatusAccepted, Parsed, SchemaAccepted, Resend, CheckFails
  <2>5. at' \in DOMAIN responses'
    BY <1>1, <2>1, <2>4 DEF TypeOK
  <2>6. last' \in Request
    <3>1. CASE Resend
      <4>1. responses[at] \in Response
        BY <1>1, <2>4, LenProperties, ElementOfSeq DEF TypeOK
      <4>. QED
        BY <1>1, <3>1, <4>1, MissingIsNat DEF Resend, Sent, This, Request, TypeOK, Response
    <3>2. CASE ~Resend
      BY <1>1, <1>8, <3>2 DEF StatusAccepted, Parsed, SchemaAccepted, CheckFails, TypeOK
    <3>. QED
      BY <3>1, <3>2
  <2>7. TypeOK'
    BY <1>1, <2>1, <2>2, <2>3, <2>5, <2>6 DEF TypeOK
  <2>. QED
    BY <2>1, <2>7
<1>9. CASE UNCHANGED vars
  <2>1. TypeOK'
    BY <1>1, <1>9 DEF vars, TypeOK
  <2>. QED
    BY <1>2, <1>9, <2>1 DEF vars
<1>. QED
  BY <1>3, <1>4, <1>5, <1>6, <1>7, <1>8, <1>9 DEF Next

(* Every reachable state of the client satisfies the invariant.            *)
THEOREM ClientInvariant == Spec => []IInv
BY InitIInv, IInvStep, PTL DEF Spec

(* Type correctness of the client and of the responses a test holds.       *)
THEOREM ClientTypeOK == Spec => []TypeOK
BY ClientInvariant, PTL DEF IInv

(* docs/sandbox/api.md, "Binding the api": a first request goes to the     *)
(* sandbox exactly when the pre-flight of the sandbox has run in the same  *)
(* call; and then all that the test has declared is applied, unless an     *)
(* earlier call failed to apply it.  However often the test binds,         *)
(* declares and calls, and whatever fails.                                 *)
THEOREM ClientGuarded == Spec => []CallsAreGuarded
BY ClientInvariant, PTL DEF IInv

(* api/response.py: a test does not get to the `expect` of a response that *)
(* its automatic check has not accepted, unless it opted out or goes on    *)
(* after the check has raised; with and without polling.                   *)
THEOREM ClientExpects == Spec => []ExpectIsChecked
BY ClientInvariant, PTL DEF IInv

=============================================================================
