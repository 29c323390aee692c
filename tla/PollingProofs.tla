--------------------------- MODULE PollingProofs ---------------------------
(***************************************************************************)
(* Proofs about Polling.  A pass is proven because, while a check runs, its *)
(* field holds nothing but what the current response has (CacheInv), every *)
(* attempt looks at a response of its own (FreshInv), and the successes the *)
(* matcher counts are successes in a row (StreakInv).  The first needs a    *)
(* test that keeps no field across another check, the last that sending    *)
(* the request again does not raise a TimeoutError.                        *)
(***************************************************************************)
EXTENDS Polling, TLAPS

NoStaleFields == KeepsFields = FALSE
NoHiddenErrors == "TimeoutError" \notin UpdateErrors

(* What the field of the check may have kept. *)
Current == check.field \in JsonPath => cache[check.field] \in {"none", body[check.field]}

CacheInv == pc # "idle" \/ outcome = "passed" => Current

FreshInv == /\ pc # "idle" /\ ~tried => fresh
            /\ pc = "assert" => fresh

StreakInv ==
  /\ pc \in {"try", "assert"} => streak >= proven
  /\ pc \in {"loop", "sleep"} => result # "yes"

IInv == TypeOK /\ CacheInv /\ FreshInv /\ StreakInv /\ PassIsProven

-----------------------------------------------------------------------------
(* The clock of a check stays within its bound. *)
LEMMA AfterType ==
  ASSUME elapsed \in 0..MaxElapsed, NEW d \in Nat
  PROVE  After(d) \in 0..MaxElapsed
BY PollingAssumption DEF After

(* Keeping a value changes nothing but the kept value of a jsonpath field. *)
LEMMA KeepType ==
  ASSUME TypeOK, NEW f \in Fields, NEW what \in Values \cup {"none", "root"}
  PROVE  /\ Keep(f, what) \in [JsonPath -> Values \cup {"none", "root"}]
         /\ f \in JsonPath => Keep(f, what)[f] = what
BY DEF TypeOK, Keep, Values

LEMMA InitIInv == Init => IInv
<1> SUFFICES ASSUME Init PROVE IInv
  OBVIOUS
<1> USE PollingAssumption DEF Init
<1>1. TypeOK
  <2>1. 0 \in 0..MaxProofs /\ 0 \in 0..MaxElapsed /\ 0 \in Nat
    OBVIOUS
  <2>2. cache \in [JsonPath -> Values \cup {"none", "root"}]
    OBVIOUS
  <2> QED
    BY <2>1, <2>2 DEF TypeOK
<1>2. CacheInv /\ FreshInv /\ StreakInv /\ PassIsProven
  BY DEF CacheInv, FreshInv, StreakInv, PassIsProven
<1> QED
  BY <1>1, <1>2 DEF IInv

(* Every variable keeps its type. *)
LEMMA TypeStep == TypeOK /\ [Next]_vars => TypeOK'
<1> SUFFICES ASSUME TypeOK, [Next]_vars PROVE TypeOK'
  OBVIOUS
<1> USE PollingAssumption
<1>1. CASE Loop
  BY <1>1 DEF Loop, TypeOK, Checks
<1>2. CASE Expire
  BY <1>2 DEF Expire, End, TypeOK, attempt
<1>3. CASE FirstTry
  BY <1>3 DEF FirstTry, TypeOK, attempt
<1>4. CASE Reload
  <2>1. check.field \in Fields
    BY <1>4 DEF Reload, TypeOK, Checks
  <2>2. cache' \in [JsonPath -> Values \cup {"none", "root"}]
    BY <1>4, <2>1, KeepType DEF Reload
  <2> QED
    BY <1>4, <2>2 DEF Reload, TypeOK, attempt
<1>5. ASSUME NEW error \in UpdateErrors, ReloadFails(error) PROVE TypeOK'
  BY <1>5 DEF ReloadFails, End, TypeOK, attempt
<1>6. ASSUME NEW verdict \in {"yes", "no"}, Observe(verdict)
      PROVE  /\ cache' \in [JsonPath -> Values \cup {"none", "root"}]
             /\ tried' \in BOOLEAN /\ result' \in {"none", "yes", "no"}
             /\ fresh' \in BOOLEAN /\ streak' \in Nat
  <2>1. check \in Checks /\ check.field \in Fields
    BY <1>6 DEF Observe, TypeOK, Checks
  <2>2. Read(check.field) \in Values \cup {"root"}
    BY <1>6, <2>1 DEF Observe, Read, TypeOK, Answers
  <2>3. cache' \in [JsonPath -> Values \cup {"none", "root"}]
    BY <1>6, <2>1, <2>2, KeepType DEF Observe
  <2>4. streak' \in Nat
    <3>1. streak' = streak + 1 \/ streak' = 0
      BY <1>6 DEF Observe
    <3> QED
      BY <3>1 DEF TypeOK
  <2> QED
    BY <1>6, <2>3, <2>4 DEF Observe
<1>7. CASE Accept
  <2>1. pc = "assert" /\ check \in Checks /\ check.proofs \in 1..MaxProofs
    BY <1>7 DEF Accept, Observe, TypeOK, Checks
  <2>2. check.delay # None => check.delay \in Nat
    BY <2>1 DEF Checks
  <2>3. elapsed' \in 0..MaxElapsed
    BY <1>7, <2>2, AfterType DEF Accept, TypeOK
  <2>4. proven' \in 0..MaxProofs
    BY <1>7, <2>1 DEF Accept, TypeOK
  <2> QED
    BY <1>7, <1>6, <2>1, <2>3, <2>4 DEF Accept, End, TypeOK
<1>8. CASE Reject
  BY <1>8, <1>6 DEF Reject, Observe, End, TypeOK
<1>9. CASE Absent
  <2>1. check.field \in Fields
    BY <1>9 DEF Absent, TypeOK, Checks
  <2>2. cache' \in [JsonPath -> Values \cup {"none", "root"}]
    BY <1>9, <2>1, KeepType DEF Absent
  <2> QED
    BY <1>9, <2>2 DEF Absent, End, TypeOK, attempt
<1>10. CASE Sleep
  <2>1. check.delay \in Nat
    BY <1>10 DEF Sleep, TypeOK, Checks
  <2>2. elapsed' \in 0..MaxElapsed
    BY <1>10, <2>1, AfterType DEF Sleep, TypeOK
  <2> QED
    BY <1>10, <2>2 DEF Sleep, TypeOK, attempt
<1>11. CASE SleepFails
  BY <1>11 DEF SleepFails, End, TypeOK, attempt
<1>12. CASE Tick
  <2>1. elapsed' \in 0..MaxElapsed
    BY <1>12 DEF Tick, TypeOK
  <2> QED
    BY <1>12, <2>1 DEF Tick, TypeOK, attempt
<1>13. ASSUME NEW c \in Checks, Begin(c) PROVE TypeOK'
  <2>1. c.field \in Fields
    BY DEF Checks
  <2>2. Keep(c.field, "none") \in [JsonPath -> Values \cup {"none", "root"}]
    BY <2>1, KeepType
  <2>3. cache' \in [JsonPath -> Values \cup {"none", "root"}]
    BY <1>13, <2>2 DEF Begin, FieldObjects, TypeOK
  <2>4. 0 \in 0..MaxProofs /\ 0 \in 0..MaxElapsed /\ 0 \in Nat
    OBVIOUS
  <2>5. check' \in Checks /\ pc' \in {"loop", "try"} /\ outcome' = "none"
    BY <1>13 DEF Begin
  <2>6. pc' = "loop" => check'.timeout # None
    BY <1>13 DEF Begin
  <2> QED
    BY <1>13, <2>3, <2>4, <2>5, <2>6 DEF Begin, TypeOK
<1>14. CASE UNCHANGED vars
  BY <1>14 DEF vars, attempt, TypeOK
<1> QED
  BY <1>1, <1>2, <1>3, <1>4, <1>5, <1>7, <1>8, <1>9, <1>10, <1>11, <1>12, <1>13, <1>14
     DEF Next, Step

(* Every variable of the checks keeps its type. *)
THEOREM PollingTypeOK == Spec => []TypeOK
<1>1. Init => TypeOK
  BY InitIInv DEF IInv
<1> QED
  BY <1>1, TypeStep, PTL DEF Spec

-----------------------------------------------------------------------------
(* What an attempt sees is what the response has now. *)
LEMMA ReadIsCurrent == TypeOK /\ CacheInv /\ pc = "assert" => Read(check.field) = body[check.field]
BY DEF TypeOK, CacheInv, Current, Read

(* One step keeps the field of the check current. *)
LEMMA CacheStep ==
  NoStaleFields /\ NoHiddenErrors /\ IInv /\ [Next]_vars => CacheInv'
<1> SUFFICES ASSUME NoStaleFields, NoHiddenErrors, IInv, [Next]_vars PROVE CacheInv'
  OBVIOUS
<1> USE DEF IInv
<1>1. CASE Reload
  <2>1. check.field \in Fields
    BY <1>1 DEF Reload, TypeOK, Checks
  <2>2. check.field \in JsonPath => cache'[check.field] = "none"
    BY <1>1, <2>1, KeepType DEF Reload
  <2> QED
    BY <1>1, <2>2 DEF Reload, CacheInv, Current
<1>2. ASSUME NEW error \in UpdateErrors, ReloadFails(error) PROVE CacheInv'
  BY <1>2 DEF ReloadFails, End, NoHiddenErrors, CacheInv, attempt
<1>3. ASSUME NEW verdict \in {"yes", "no"}, Observe(verdict), UNCHANGED <<body, check>>
      PROVE  CacheInv'
  <2>1. check.field \in Fields /\ pc = "assert"
    BY <1>3 DEF Observe, TypeOK, Checks
  <2>2. Read(check.field) = body[check.field]
    BY <2>1, ReadIsCurrent
  <2>3. body[check.field] \in Values
    BY <1>3, <2>1, <2>2 DEF Observe, TypeOK, Answers
  <2>4. check.field \in JsonPath => cache'[check.field] = body[check.field]
    BY <1>3, <2>1, <2>2, <2>3, KeepType DEF Observe
  <2> QED
    BY <1>3, <2>4 DEF CacheInv, Current
<1>4. ASSUME NEW c \in Checks, Begin(c) PROVE CacheInv'
  <2>1. c.field \in Fields
    BY DEF Checks
  <2>2. CASE cache' = Keep(c.field, "none")
    <3>1. c.field \in JsonPath => cache'[c.field] = "none"
      BY <2>1, <2>2, KeepType
    <3> QED
      BY <1>4, <3>1 DEF Begin, CacheInv, Current
  <2>3. CASE outcome = "passed" /\ c.field = check.field /\ cache' = cache
    BY <1>4, <2>3 DEF Begin, CacheInv, Current
  <2> QED
    BY <1>4, <2>2, <2>3 DEF Begin, FieldObjects, NoStaleFields
<1>5. CASE Loop \/ FirstTry \/ Sleep \/ Tick
  BY <1>5 DEF Loop, FirstTry, Sleep, Tick, CacheInv, Current, TypeOK
<1>6. CASE Expire \/ SleepFails \/ Absent
  BY <1>6 DEF Expire, SleepFails, Absent, End, CacheInv, Current, StreakInv
<1>7. CASE Accept \/ Reject
  BY <1>3, <1>7 DEF Accept, Reject
<1>8. CASE UNCHANGED vars
  BY <1>8 DEF vars, CacheInv, Current
<1> QED
  BY <1>1, <1>2, <1>4, <1>5, <1>6, <1>7, <1>8 DEF Next, Step

(* One step keeps the history of the attempts in line with the counters. *)
LEMMA HistoryStep ==
  NoHiddenErrors /\ IInv /\ [Next]_vars => (FreshInv /\ StreakInv /\ PassIsProven)'
<1> SUFFICES ASSUME NoHiddenErrors, IInv, [Next]_vars
             PROVE (FreshInv /\ StreakInv /\ PassIsProven)'
  OBVIOUS
<1> USE DEF IInv
<1>1. CASE Loop
  BY <1>1 DEF Loop, TypeOK, FreshInv, StreakInv, PassIsProven
<1>2. CASE Expire
  BY <1>2 DEF Expire, End, attempt, FreshInv, StreakInv, PassIsProven
<1>3. CASE FirstTry
  BY <1>3 DEF FirstTry, attempt, FreshInv, StreakInv, PassIsProven
<1>4. CASE Reload
  BY <1>4 DEF Reload, attempt, FreshInv, StreakInv, PassIsProven, TypeOK
<1>5. ASSUME NEW error \in UpdateErrors, ReloadFails(error)
      PROVE (FreshInv /\ StreakInv /\ PassIsProven)'
  BY <1>5 DEF ReloadFails, End, attempt, NoHiddenErrors, FreshInv, StreakInv, PassIsProven
<1>6. CASE Accept
  <2>1. pc = "assert" /\ check.proofs \in Nat /\ proven \in Nat /\ streak \in Nat
    BY <1>6 DEF Accept, Observe, TypeOK, Checks
  <2>2. fresh /\ Read(check.field) = body[check.field]
    BY <2>1, ReadIsCurrent DEF FreshInv
  <2>3. streak' = streak + 1 /\ proven' = proven + 1 /\ streak >= proven
    BY <1>6, <2>1, <2>2 DEF Accept, Observe, StreakInv
  <2>4. tried' /\ pc' \in {"idle", "try"} /\ check' = check
    BY <1>6 DEF Accept, Observe, End
  <2>5. streak' >= proven'
    BY <2>1, <2>3
  <2>6. outcome' = "passed" => proven' = check.proofs
    BY <1>6, <2>1, <2>3 DEF Accept, End, TypeOK
  <2> QED
    BY <2>4, <2>5, <2>6 DEF FreshInv, StreakInv, PassIsProven
<1>7. CASE Reject
  BY <1>7 DEF Reject, Observe, End, TypeOK, FreshInv, StreakInv, PassIsProven
<1>8. CASE Absent \/ SleepFails
  BY <1>8 DEF Absent, SleepFails, End, attempt, FreshInv, StreakInv, PassIsProven
<1>9. CASE Sleep
  BY <1>9 DEF Sleep, attempt, FreshInv, StreakInv, PassIsProven
<1>10. CASE Tick
  BY <1>10 DEF Tick, attempt, FreshInv, StreakInv, PassIsProven
<1>11. ASSUME NEW c \in Checks, Begin(c) PROVE (FreshInv /\ StreakInv /\ PassIsProven)'
  BY <1>11 DEF Begin, FreshInv, StreakInv, PassIsProven
<1>12. CASE UNCHANGED vars
  BY <1>12 DEF vars, attempt, FreshInv, StreakInv, PassIsProven
<1> QED
  BY <1>1, <1>2, <1>3, <1>4, <1>5, <1>6, <1>7, <1>8, <1>9, <1>10, <1>11, <1>12
     DEF Next, Step

(* A check passes only on as many fresh answers in a row as it has proofs,  *)
(* if the test keeps no field and no TimeoutError is hidden.                *)
THEOREM PollingProven ==
  ASSUME NoStaleFields, NoHiddenErrors PROVE Spec => []PassIsProven
<1>1. Init => IInv
  BY InitIInv
<1>2. IInv /\ [Next]_vars => IInv'
  BY TypeStep, CacheStep, HistoryStep DEF IInv
<1>3. IInv => PassIsProven
  BY DEF IInv
<1> QED
  BY <1>1, <1>2, <1>3, PTL DEF Spec

(* A check with a timeout does not fail before its time is over, if no      *)
(* TimeoutError is hidden.                                                 *)
THEOREM PollingDeadline ==
  ASSUME NoHiddenErrors PROVE Spec => []FailsOnlyAfterDeadline
<1> DEFINE Inv == TypeOK /\ FailsOnlyAfterDeadline
<1>1. Init => Inv
  BY InitIInv DEF Init, IInv, FailsOnlyAfterDeadline
<1>2. TypeOK /\ FailsOnlyAfterDeadline /\ [Next]_vars => FailsOnlyAfterDeadline'
  <2> SUFFICES ASSUME TypeOK, FailsOnlyAfterDeadline, [Next]_vars
               PROVE FailsOnlyAfterDeadline'
    OBVIOUS
  <2> USE DEF FailsOnlyAfterDeadline, End
  <2>1. CASE Loop \/ FirstTry \/ Reload \/ Sleep
    BY <2>1 DEF Loop, FirstTry, Reload, Sleep, TypeOK
  <2>2. CASE Expire \/ Absent \/ SleepFails
    BY <2>2 DEF Expire, Absent, SleepFails
  <2>3. ASSUME NEW error \in UpdateErrors, ReloadFails(error)
        PROVE FailsOnlyAfterDeadline'
    BY <2>3 DEF ReloadFails, NoHiddenErrors
  <2>4. CASE Accept
    BY <2>4 DEF Accept, Observe, TypeOK
  <2>5. CASE Reject
    BY <2>5 DEF Reject, Observe, TypeOK
  <2>6. CASE Tick
    BY <2>6 DEF Tick, TypeOK
  <2>7. ASSUME NEW c \in Checks, Begin(c) PROVE FailsOnlyAfterDeadline'
    BY <2>7 DEF Begin
  <2>8. CASE UNCHANGED vars
    BY <2>8 DEF vars
  <2> QED
    BY <2>1, <2>2, <2>3, <2>4, <2>5, <2>6, <2>7, <2>8 DEF Next, Step
<1> QED
  BY <1>1, <1>2, TypeStep, PTL DEF Spec
=============================================================================
