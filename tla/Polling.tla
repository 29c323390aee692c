------------------------------ MODULE Polling ------------------------------
(***************************************************************************)
(* The checks of one response (api/asserts/, matchcrest/): each check is a  *)
(* matcher applied to a field.  With a timeout it is repeated until it     *)
(* passes; between two attempts the request is sent again and the answer   *)
(* takes the place of the shared response.  A dotted field reads the       *)
(* response at every access, a jsonpath field keeps what it has read.      *)
(* A check that raises, or fails, may be caught by the test, which goes on. *)
(***************************************************************************)
EXTENDS Naturals

CONSTANTS Dotted, JsonPath,  \* the fields of the test, by their kind of context
          None,              \* no timeout, no delay
          Timeouts, Delays,  \* what the suite passes or configures, may have None
          Predicates,        \* what its matchers accept, each a set of values
          MaxProofs,         \* bound: successes in a row a check asks for
          MaxElapsed,        \* bound: where the clock of a check stops
          KeepsFields,       \* the test keeps a field while it checks another
          UpdateErrors       \* how sending the request again can fail

Fields == Dotted \cup JsonPath
Values == {"a", "b"}         \* the values the matchers tell apart
Answers == [Fields -> Values \cup {"absent"}]

ASSUME PollingAssumption ==
  /\ None \notin Nat
  /\ Timeouts \subseteq Nat \cup {None} /\ Delays \subseteq Nat \cup {None}
  /\ Predicates \subseteq SUBSET (Values \cup {"root"})
  /\ MaxProofs \in Nat /\ MaxElapsed \in Nat
  /\ \A t \in Timeouts \ {None} : t < MaxElapsed
  /\ KeepsFields \in BOOLEAN
  /\ UpdateErrors \subseteq {"TimeoutError", "other"}

VARIABLES
  body,       \* what the fields resolve to in the current response
  cache,      \* what a jsonpath field has kept, "root" after a failed search
  check,      \* the check in progress, or the last one
  pc,         \* its next step, "idle" between two checks
  tried,      \* the matcher has made an attempt (_tries > 0)
  proven,     \* attempts of this pass that succeeded
  result,     \* the result of the last attempt
  elapsed,    \* the time since the check began
  outcome,    \* how the last check ended
  fresh,      \* history: the response is newer than the last attempt
  streak      \* history: attempts in a row that accepted a fresh answer

attempt == <<tried, proven, result>>
vars == <<body, cache, check, pc, attempt, elapsed, outcome, fresh, streak>>

Checks == [field : Fields, accepts : Predicates,
           timeout : Timeouts, delay : Delays, proofs : 1..MaxProofs]

TypeOK ==
  /\ body \in Answers
  /\ cache \in [JsonPath -> Values \cup {"none", "root"}]
  /\ pc \in {"idle", "loop", "try", "assert", "sleep"}
  /\ pc # "idle" => check \in Checks /\ outcome = "none"
  /\ pc \in {"loop", "sleep"} => check.timeout # None
  /\ tried \in BOOLEAN /\ proven \in 0..MaxProofs
  /\ result \in {"none", "yes", "no"}
  /\ elapsed \in 0..MaxElapsed
  /\ outcome \in {"none", "passed", "failed", "absent", "raised", "TypeError"}
  /\ fresh \in BOOLEAN /\ streak \in Nat

Init ==
  /\ body \in Answers
  /\ cache = [f \in JsonPath |-> "none"]
  /\ check = [field |-> "none"]
  /\ pc = "idle" /\ outcome = "none"
  /\ tried = FALSE /\ proven = 0 /\ result = "none"
  /\ elapsed = 0 /\ fresh = TRUE /\ streak = 0

-----------------------------------------------------------------------------
(* Time passes while a check runs; a sleep is at least as long as asked.   *)
After(d) == IF elapsed + d < MaxElapsed THEN elapsed + d ELSE MaxElapsed

Tick ==
  /\ pc # "idle" /\ elapsed < MaxElapsed
  /\ elapsed' = elapsed + 1
  /\ UNCHANGED <<body, cache, check, pc, attempt, outcome, fresh, streak>>

(* What a jsonpath field keeps. *)
Keep(f, what) == IF f \in JsonPath THEN [cache EXCEPT ![f] = what] ELSE cache

(* The value of a field: the kept one, or resolved from the response. *)
Read(f) == IF f \in JsonPath /\ cache[f] # "none" THEN cache[f] ELSE body[f]

(* A check is applied to a new field, to the one the last check returned,  *)
(* or to one the test has kept.                                            *)
FieldObjects(f) ==
  {Keep(f, "none")} \cup
  IF KeepsFields \/ (outcome = "passed" /\ f = check.field) THEN {cache} ELSE {}

Begin(c) ==
  /\ pc = "idle"
  /\ cache' \in FieldObjects(c.field)
  /\ check' = c
  /\ pc' = IF c.timeout = None THEN "try" ELSE "loop"
  /\ tried' = FALSE /\ proven' = 0 /\ result' = "none"
  /\ elapsed' = 0 /\ outcome' = "none"
  /\ fresh' = TRUE /\ streak' = 0
  /\ UNCHANGED body

End(how) == pc' = "idle" /\ outcome' = how

(* Bug: the successes of earlier passes count. *)
LoopKeepsCounting ==
  /\ pc = "loop" /\ elapsed <= check.timeout
  /\ pc' = "try"
  /\ UNCHANGED <<body, cache, check, attempt, elapsed, outcome, fresh, streak>>

(* waiting_for: another pass of the matcher while there is time. *)
Loop ==
  /\ pc = "loop" /\ elapsed <= check.timeout
  /\ pc' = "try" /\ proven' = 0
  /\ UNCHANGED <<body, cache, check, tried, result, elapsed, outcome, fresh, streak>>

(* Bug: the loop gives up when the time left does not allow another delay. *)
ExpireEarly ==
  /\ pc = "loop"
  /\ elapsed + (IF check.delay = None THEN 0 ELSE check.delay) > check.timeout
  /\ End("failed")
  /\ UNCHANGED <<body, cache, check, attempt, elapsed, fresh, streak>>

(* The time is over: what the last attempt has left is the answer. *)
Expire ==
  /\ pc = "loop" /\ elapsed > check.timeout
  /\ End(IF result = "yes" THEN "passed" ELSE "failed")
  /\ UNCHANGED <<body, cache, check, attempt, elapsed, fresh, streak>>

FirstTry ==
  /\ pc = "try" /\ ~tried
  /\ pc' = "assert"
  /\ UNCHANGED <<body, cache, check, attempt, elapsed, outcome, fresh, streak>>

(* update: the request is sent again, and this field forgets its value. *)
Reload ==
  /\ pc = "try" /\ tried
  /\ body' \in Answers /\ fresh' = TRUE
  /\ cache' = Keep(check.field, "none")
  /\ pc' = "assert"
  /\ UNCHANGED <<check, attempt, elapsed, outcome, streak>>

(* A TimeoutError is taken for that of waiting_for, and is suppressed. *)
ReloadFails(error) ==
  /\ pc = "try" /\ tried
  /\ End(IF error # "TimeoutError" THEN "raised"
         ELSE IF result = "yes" THEN "passed" ELSE "failed")
  /\ UNCHANGED <<body, cache, check, attempt, elapsed, fresh, streak>>

(* One attempt and what it says of the answer. *)
Observe(verdict) ==
  LET value == Read(check.field) IN
  /\ pc = "assert" /\ value # "absent"
  /\ (value \in check.accepts) = (verdict = "yes")
  /\ cache' = Keep(check.field, value)
  /\ tried' = TRUE /\ result' = verdict /\ fresh' = FALSE
  /\ streak' = IF verdict = "yes" /\ fresh /\ value = body[check.field]
               THEN streak + 1 ELSE 0

Accept ==
  /\ Observe("yes") /\ proven' = proven + 1
  /\ \/ /\ proven + 1 = check.proofs
        /\ End("passed") /\ UNCHANGED elapsed
     \/ /\ proven + 1 < check.proofs
        /\ pc' = "try" /\ UNCHANGED outcome
        /\ elapsed' = IF check.delay = None THEN elapsed ELSE After(check.delay)
  /\ UNCHANGED <<body, check>>

(* Bug: a rejection is followed by another attempt at once, for ever. *)
RejectRetriesAtOnce ==
  /\ Observe("no")
  /\ pc' = "try" /\ proven' = 0
  /\ UNCHANGED <<body, check, elapsed, outcome>>

Reject ==
  /\ Observe("no")
  /\ \/ /\ check.timeout = None /\ End("failed")
     \/ /\ check.timeout # None
        /\ pc' = "sleep" /\ UNCHANGED outcome
  /\ UNCHANGED <<body, check, proven, elapsed>>

(* A path without a result raises through the loop; the jsonpath field is   *)
(* left with the body it began its search in.                              *)
Absent ==
  /\ pc = "assert" /\ Read(check.field) = "absent"
  /\ cache' = Keep(check.field, "root")
  /\ End("absent")
  /\ UNCHANGED <<body, check, attempt, elapsed, fresh, streak>>

(* time.sleep(None) is a TypeError. *)
Sleep ==
  /\ pc = "sleep" /\ check.delay # None
  /\ elapsed' = After(check.delay)
  /\ pc' = "loop"
  /\ UNCHANGED <<body, cache, check, attempt, outcome, fresh, streak>>

SleepFails ==
  /\ pc = "sleep" /\ check.delay = None
  /\ End("TypeError")
  /\ UNCHANGED <<body, cache, check, attempt, elapsed, fresh, streak>>

Step == \/ Loop \/ Expire \/ FirstTry \/ Reload
        \/ (\E error \in UpdateErrors : ReloadFails(error))
        \/ Accept \/ Reject \/ Absent \/ Sleep \/ SleepFails

Next == Step \/ Tick \/ \E c \in Checks : Begin(c)

Spec == Init /\ [][Next]_vars

(* The interpreter goes on and the clock does not stand still.  That a      *)
(* request ends is an assumption: it has a timeout only where the suite     *)
(* gives it one.                                                            *)
FairSpec == Spec /\ WF_vars(Step) /\ WF_vars(Tick)

-----------------------------------------------------------------------------
(* A check passes only if as many attempts in a row as it has proofs have   *)
(* accepted what its field was in the response at the time, each in an      *)
(* answer of its own; the last of them is the response the test goes on     *)
(* with.                                                                   *)
PassIsProven == outcome = "passed" => streak >= check.proofs

(* A check with a timeout does not fail before its time is over.            *)
FailsOnlyAfterDeadline ==
  outcome = "failed" => check.timeout = None \/ elapsed > check.timeout

(* Every check comes to an end, whatever the service answers.               *)
ChecksEnd == pc # "idle" ~> pc = "idle"

=============================================================================
