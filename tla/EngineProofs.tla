---------------------------- MODULE EngineProofs ----------------------------
(***************************************************************************)
(* Proofs about Engine, for every set of operations, every startup data,   *)
(* every set of groups and every bound: type correctness, the invariants   *)
(* the runs check, and that the steps of a call add up to EngineContract.  *)
(* What the operators of DataPlane do comes first.                         *)
(*                                                                         *)
(* The inductive invariant has a part for each thing a step relies on:     *)
(* which call a step belongs to and what the engine owns by then (CallInv),*)
(* when there is a client object (PlaneInv), and where the loop of the     *)
(* call stands (PhaseInv).                                                 *)
(***************************************************************************)
EXTENDS Engine, SequenceTheorems, TLAPS

(***************************************************************************)
(* Prefixes and replays, for every sequence of operations.                 *)
(***************************************************************************)
(* A prefix is a sequence of the same operations, of the given length.     *)
LEMMA PrefixType ==
  ASSUME NEW S, NEW ops \in Seq(S), NEW n \in 0..Len(ops)
  PROVE  /\ Prefix(ops, n) \in Seq(S)
         /\ Len(Prefix(ops, n)) = n
         /\ \A i \in 1..n : Prefix(ops, n)[i] = ops[i]
<1>1. \A i \in 1..n : ops[i] \in S
  BY LenProperties, ElementOfSeq
<1>2. n \in Int /\ n >= 0
  BY LenProperties
<1>. QED
  BY <1>1, <1>2, SubSeqProperties DEF Prefix

(* Nothing is executed yet at 0, everything is at the end.                 *)
LEMMA PrefixEnds ==
  ASSUME NEW S, NEW ops \in Seq(S)
  PROVE  /\ Prefix(ops, 0) = <<>>
         /\ Prefix(ops, Len(ops)) = ops
BY SubSeqEmpty, SubSeqFull DEF Prefix

(* One more operation executed: the prefix is one operation longer.        *)
LEMMA PrefixStep ==
  ASSUME NEW S, NEW held \in Seq(S), NEW ops \in Seq(S),
         NEW n \in 0..Len(ops), n < Len(ops)
  PROVE  held \o Prefix(ops, n + 1) = Append(held \o Prefix(ops, n), ops[n + 1])
<1>1. n + 1 \in 1..Len(ops) /\ n + 1 - 1 = n
  BY LenProperties
<1>2. Prefix(ops, n + 1) = Prefix(ops, n) \o <<ops[n + 1]>>
  BY <1>1, SubSeqRecursiveSecond DEF Prefix
<1>3. ops[n + 1] \in S
  BY <1>1, ElementOfSeq
<1>4. Prefix(ops, n) \in Seq(S)
  BY PrefixType
<1>5. <<ops[n + 1]>> \in Seq(S)
  BY <1>3
<1>6. held \o (Prefix(ops, n) \o <<ops[n + 1]>>)
        = (held \o Prefix(ops, n)) \o <<ops[n + 1]>>
  BY <1>4, <1>5, ConcatAssociative
<1>. QED
  BY <1>2, <1>3, <1>4, <1>6, ConcatProperties, AppendIsConcat

(* A prefix of a prefix is a prefix.                                       *)
LEMMA PrefixOfPrefix ==
  ASSUME NEW S, NEW ops \in Seq(S), NEW n \in 0..Len(ops), NEW m \in 0..n
  PROVE  Prefix(Prefix(ops, n), m) = Prefix(ops, m)
<1>1. m \in 0..Len(ops) /\ m <= n
  BY LenProperties
<1>2. /\ Prefix(ops, n) \in Seq(S) /\ Len(Prefix(ops, n)) = n
      /\ \A i \in 1..n : Prefix(ops, n)[i] = ops[i]
  BY PrefixType
<1>3. /\ Prefix(ops, m) \in Seq(S) /\ Len(Prefix(ops, m)) = m
      /\ \A i \in 1..m : Prefix(ops, m)[i] = ops[i]
  BY <1>1, PrefixType
<1>4. m \in 0..Len(Prefix(ops, n))
  BY <1>1, <1>2
<1>5. /\ Prefix(Prefix(ops, n), m) \in Seq(S)
      /\ Len(Prefix(Prefix(ops, n), m)) = m
      /\ \A i \in 1..m : Prefix(Prefix(ops, n), m)[i] = Prefix(ops, n)[i]
  BY <1>2, <1>4, PrefixType
<1>6. \A i \in 1..m : Prefix(Prefix(ops, n), m)[i] = Prefix(ops, m)[i]
  BY <1>1, <1>2, <1>3, <1>5
<1>. QED
  BY <1>3, <1>5, <1>6, SeqEqual

(* No operation at all is executed by every service.                       *)
LEMMA ReplaysNothing ==
  ASSUME NEW held
  PROVE  Replays(held, <<>>)
BY DEF Replays

(* Where a loop begins.                                                    *)
LEMMA LoopBegins ==
  ASSUME NEW S, NEW held \in Seq(S), NEW ops \in Seq(S)
  PROVE  held = held \o Prefix(ops, 0) /\ Replays(held, Prefix(ops, 0))
BY PrefixEnds, ConcatEmptySeq, ReplaysNothing

(* A service that executed the first operations and accepts the next one   *)
(* executes one more.                                                      *)
LEMMA ReplaysOneMore ==
  ASSUME NEW S, NEW held, NEW ops \in Seq(S), NEW n \in 0..Len(ops),
         n < Len(ops),
         Replays(held, Prefix(ops, n)),
         Accepts(held \o Prefix(ops, n), ops[n + 1])
  PROVE  Replays(held, Prefix(ops, n + 1))
<1>1. n + 1 \in 0..Len(ops) /\ n + 1 \in Nat /\ n \in Nat
  BY LenProperties
<1>2. /\ Len(Prefix(ops, n)) = n
      /\ \A i \in 1..n : Prefix(ops, n)[i] = ops[i]
  BY PrefixType
<1>3. /\ Len(Prefix(ops, n + 1)) = n + 1
      /\ \A i \in 1..(n + 1) : Prefix(ops, n + 1)[i] = ops[i]
  BY <1>1, PrefixType
<1>. SUFFICES ASSUME NEW i \in 1..(n + 1)
              PROVE  Accepts(held \o Prefix(Prefix(ops, n + 1), i - 1),
                             Prefix(ops, n + 1)[i])
  BY <1>3 DEF Replays
<1>4. i - 1 \in 0..(n + 1) /\ i - 1 \in 0..n
  BY <1>1
<1>5. Prefix(Prefix(ops, n + 1), i - 1) = Prefix(ops, i - 1)
  BY <1>1, <1>4, PrefixOfPrefix
<1>6. Prefix(ops, n + 1)[i] = ops[i]
  BY <1>3
<1>7. CASE i = n + 1
  <2>1. i - 1 = n
    BY <1>7, <1>1
  <2>. QED
    BY <2>1, <1>7, <1>5, <1>6
<1>8. CASE i \in 1..n
  <2>1. Accepts(held \o Prefix(Prefix(ops, n), i - 1), Prefix(ops, n)[i])
    BY <1>8, <1>2 DEF Replays
  <2>2. Prefix(Prefix(ops, n), i - 1) = Prefix(ops, i - 1)
    BY <1>4, PrefixOfPrefix
  <2>. QED
    BY <2>1, <2>2, <1>2, <1>5, <1>6, <1>8
<1>. QED
  BY <1>1, <1>7, <1>8

(* A group that ran up to some operation left a partly applied state.      *)
LEMMA PrefixIsPartlyApplied ==
  ASSUME NEW S, NEW held, NEW ops \in Seq(S), NEW n \in 0..Len(ops),
         Replays(held, Prefix(ops, n))
  PROVE  held \o Prefix(ops, n) \in PartlyApplied(held, ops)
BY DEF PartlyApplied

(* So did one that never ran.                                              *)
LEMMA NothingIsPartlyApplied ==
  ASSUME NEW S, NEW held \in Seq(S), NEW ops \in Seq(S)
  PROVE  held \in PartlyApplied(held, ops)
<1>1. 0 \in 0..Len(ops)
  BY LenProperties
<1>2. Prefix(ops, 0) = <<>> /\ held \o <<>> = held
  BY PrefixEnds, ConcatEmptySeq
<1>. QED
  BY <1>1, <1>2, ReplaysNothing, PrefixIsPartlyApplied

(* What was executed last is the end of what the service holds.            *)
LEMMA EndsWith ==
  ASSUME NEW S, NEW held \in Seq(S), NEW ops \in Seq(S)
  PROVE  /\ Len(ops) <= Len(held \o ops)
         /\ held \o ops
              = Prefix(held \o ops, Len(held \o ops) - Len(ops)) \o ops
<1>1. /\ held \o ops \in Seq(S)
      /\ Len(held \o ops) = Len(held) + Len(ops)
      /\ \A i \in 1..Len(held) + Len(ops) :
           (held \o ops)[i] = IF i <= Len(held) THEN held[i] ELSE ops[i - Len(held)]
  BY ConcatProperties
<1>2. Len(held) \in 0..Len(held \o ops) /\ Len(ops) \in Nat
  BY <1>1, LenProperties
<1>3. /\ Prefix(held \o ops, Len(held)) \in Seq(S)
      /\ Len(Prefix(held \o ops, Len(held))) = Len(held)
      /\ \A i \in 1..Len(held) :
           Prefix(held \o ops, Len(held))[i] = (held \o ops)[i]
  BY <1>1, <1>2, PrefixType
<1>4. \A i \in 1..Len(held) : Prefix(held \o ops, Len(held))[i] = held[i]
  BY <1>1, <1>2, <1>3
<1>5. Prefix(held \o ops, Len(held)) = held
  BY <1>3, <1>4, SeqEqual
<1>. QED
  BY <1>1, <1>2, <1>5

-----------------------------------------------------------------------------
(***************************************************************************)
(* The inductive invariant.                                                *)
(***************************************************************************)
(* A step belongs to its calls; a start runs while the engine is not       *)
(* started, an apply and a reset while it is; what is not started and does *)
(* not run owns nothing.                                                   *)
CallInv ==
  /\ pc = "build" => call = "start" /\ ~handle /\ ~live
  /\ pc = "run" => call = "start" /\ handle
  /\ pc = "migrate" => call = "start"
  /\ pc = "wipe" => call = "reset"
  /\ pc \in {"ready", "open"} => call \in {"start", "reset"}
  /\ pc = "execute" => call \in {"start", "apply", "reset"}
  /\ pc \in {"close", "remove"} => call \in {"start", "stop"}
  /\ pc \in {"ready", "open", "migrate", "execute"} => handle /\ live
  /\ pc \in {"idle", "close", "remove"} /\ ~handle => (live => stuck)
  /\ pc # "idle" /\ call = "start" => ~started /\ outcome = "none"
  /\ pc # "idle" /\ call \in {"apply", "reset"} => started
  /\ pc = "idle" /\ outcome = "none" => ~started /\ ~live
  /\ pc = "idle" /\ ~started => ~handle
  /\ started => handle /\ live

(* The client object of postgresql and redis lives as long as the engine   *)
(* is started; that of kafka is missing between a wipe and the next open,  *)
(* and after a reset that failed there.                                    *)
PlaneInv ==
  /\ pc \in {"migrate", "execute"} /\ call \in {"start", "reset"} => Connected
  /\ started /\ kind # "kafka" /\ pc \notin {"close", "remove"} => Connected
  /\ pc = "ready" /\ call = "reset" => kind \in Restarts
  /\ pc = "open" /\ call = "reset" => kind = "kafka"
  /\ pc = "execute" /\ done > 0 => Connected
  /\ pc = "idle" /\ started /\ outcome = "ok" => Connected

(* What the loop of the call runs, on what, and how far it is.             *)
PhaseInv ==
  /\ pc \in Steps \ {"execute", "close", "remove"} => done = 0
  /\ pc \in {"ready", "open", "migrate"} => content = <<>>
  /\ pc \in Steps \ {"close", "remove"} /\ call = "start" => batch = Startup
  /\ pc # "idle" /\ call = "reset" => batch = journal /\ before = <<>>
  /\ pc = "wipe" => content = shown
  /\ pc = "execute" /\ call = "start" => before \in {<<>>, Migrated}
  /\ pc = "execute" /\ call = "apply" => before = shown /\ batch \in Groups
  /\ pc = "idle" /\ call = "apply" /\ outcome = "ok" =>
       started /\ batch \in Groups /\ content = before \o batch

IInv == /\ TypeOK /\ CallInv /\ PlaneInv /\ PhaseInv
        /\ LoopInv /\ ResetRestoresJournal

(* Every step keeps the types.                                              *)
LEMMA TypeStep ==
  ASSUME IInv, [Next]_vars
  PROVE  TypeOK'
<1>. USE DEF IInv, TypeOK, Steps
<1>1. CASE CallStart
  BY <1>1, EngineAssumption, EmptySeq, LenProperties DEF CallStart, Begin,
     Loop, object, world
<1>2. CASE StartWithoutTopics
  BY <1>2 DEF StartWithoutTopics, Begin, object, world, loop
<1>3. CASE CallReset
  BY <1>3 DEF CallReset, Begin, Loop, object, world
<1>4. CASE CallUnstarted
  BY <1>4 DEF CallUnstarted, Begin, object, world, loop
<1>5. CASE CallRecord
  BY <1>5 DEF CallRecord, Begin, world, loop
<1>6. CASE CallStop
  BY <1>6 DEF CallStop, Begin, object, world, loop
<1>7. ASSUME NEW group \in Groups, CallApply(group) PROVE TypeOK'
  BY <1>7, EngineAssumption, LenProperties DEF CallApply, Begin, Loop,
     object, world
<1>8. CASE Build
  BY <1>8 DEF Build, Goto, world, loop, history
<1>9. CASE Run
  BY <1>9 DEF Run, Goto, object, loop, history
<1>10. CASE BecomeReady
  BY <1>10 DEF BecomeReady, Goto, object, world, loop, history
<1>11. CASE OpenPlane
  BY <1>11 DEF OpenPlane, Goto, world, loop, history
<1>12. CASE Migrate
  <2>1. content \o Migrated \in Seq(Ops)
    BY EngineAssumption, ConcatProperties
  <2>2. content' \in Seq(Ops)
    BY <1>12, <2>1 DEF Migrate
  <2>. QED
    BY <1>12, <2>2 DEF Migrate, Goto, object, history
<1>13. CASE Execute
  BY <1>13 DEF Execute, object, history
<1>14. CASE FinishStart
  BY <1>14 DEF FinishStart, Return, world, loop, history
<1>15. CASE FinishLoop
  BY <1>15 DEF FinishLoop, Return, object, world, loop, history
<1>16. CASE Wipe
  BY <1>16 DEF Wipe, Goto, loop, history
<1>17. CASE ClosePlane
  BY <1>17 DEF ClosePlane, Goto, world, loop, history
<1>18. CASE Remove
  BY <1>18, EmptySeq DEF Remove, Return, world, loop, history
<1>19. CASE Refuse
  BY <1>19 DEF Refuse, Raise, Return, object, world, loop, history
<1>20. CASE BuildFails
  BY <1>20 DEF BuildFails, Fault, Raise, Return, object, world, loop
<1>21. CASE RunFails
  BY <1>21 DEF RunFails, Fault, Raise, Return, object, loop
<1>22. CASE ReadyExpires
  BY <1>22 DEF ReadyExpires, Fault, Raise, Return, object, world, loop
<1>23. CASE OpenFails
  BY <1>23 DEF OpenFails, Fault, Raise, Return, world, loop
<1>24. CASE MigrateFails
  <2>1. \A n \in 0..Len(Migrated) : content \o Prefix(Migrated, n) \in Seq(Ops)
    BY EngineAssumption, PrefixType, ConcatProperties
  <2>2. content' \in Seq(Ops)
    BY <1>24, <2>1 DEF MigrateFails
  <2>. QED
    BY <1>24, <2>2 DEF MigrateFails, Fault, Raise, Return, object, loop
<1>25. CASE ExecuteTimesOut
  <2>1. done < Len(batch) => batch[done + 1] \in Ops
    BY LenProperties, ElementOfSeq
  <2>2. done < Len(batch) => Append(content, batch[done + 1]) \in Seq(Ops)
    BY <2>1, AppendProperties
  <2>3. content' \in Seq(Ops)
    BY <1>25, <2>2 DEF ExecuteTimesOut
  <2>. QED
    BY <1>25, <2>3 DEF ExecuteTimesOut, Fault, Raise, Return, object, loop
<1>26. CASE FlushFails
  BY <1>26 DEF FlushFails, Fault, Raise, Return, object, world, loop
<1>27. CASE WipeFails
  <2>1. content' \in Seq(Ops)
    BY <1>27, EmptySeq DEF WipeFails
  <2>2. faults' \in Nat
    BY <1>27 DEF WipeFails, Fault
  <2>. QED
    BY <1>27, <2>1, <2>2 DEF WipeFails, Raise, Return, loop
<1>28. CASE CloseFails
  BY <1>28 DEF CloseFails, Fault, Goto, world, loop
<1>29. CASE RemoveFails
  <2>1. stuck' \in BOOLEAN
    BY <1>29 DEF RemoveFails
  <2>2. /\ handle' = FALSE /\ started' = FALSE /\ pc' = "idle"
        /\ outcome' \in {"ok", "error"} /\ faults' \in Nat
    BY <1>29 DEF RemoveFails, Fault, Return
  <2>3. UNCHANGED <<kind, journal, plane, live, content, call, batch, done,
                    before, shown, calls>>
    BY <1>29 DEF RemoveFails, world, loop
  <2>. QED
    BY <1>29, <2>1, <2>2, <2>3
<1>30. CASE UNCHANGED vars
  BY <1>30 DEF vars
<1>. QED
  BY <1>1, <1>2, <1>3, <1>4, <1>5, <1>6, <1>7, <1>8, <1>9, <1>10, <1>11,
     <1>12, <1>13, <1>14, <1>15, <1>16, <1>17, <1>18, <1>19, <1>20, <1>21,
     <1>22, <1>23, <1>24, <1>25, <1>26, <1>27, <1>28, <1>29, <1>30 DEF
     Next, Calls, Progress, Failures

(* Every step keeps what the engine owns in line with the call it is in,   *)
(* and its client object with what it is about to do.                      *)
LEMMA ObjectStep ==
  ASSUME IInv, [Next]_vars
  PROVE  (CallInv /\ PlaneInv)'
<1>. USE DEF IInv, CallInv, PlaneInv, Connected, TypeOK, Steps, Kinds, HasClient, Restarts
<1>1. CASE CallStart
  BY <1>1 DEF CallStart, Begin, Loop, object, world
<1>2. CASE StartWithoutTopics
  BY <1>2 DEF StartWithoutTopics, Begin, object, world, loop
<1>3. CASE CallReset
  BY <1>3 DEF CallReset, Begin, Loop, object, world
<1>4. CASE CallUnstarted
  BY <1>4 DEF CallUnstarted, Begin, object, world, loop
<1>5. CASE CallRecord
  BY <1>5 DEF CallRecord, Begin, world, loop
<1>6. CASE CallStop
  BY <1>6 DEF CallStop, Begin, object, world, loop
<1>7. ASSUME NEW group \in Groups, CallApply(group) PROVE (CallInv /\ PlaneInv)'
  BY <1>7 DEF CallApply, Begin, Loop, object, world
<1>8. CASE Build
  BY <1>8 DEF Build, Goto, world, loop, history
<1>9. CASE Run
  BY <1>9 DEF Run, Goto, object, loop, history
<1>10. CASE BecomeReady
  BY <1>10 DEF BecomeReady, Goto, object, world, loop, history
<1>11. CASE OpenPlane
  BY <1>11 DEF OpenPlane, Goto, world, loop, history
<1>12. CASE Migrate
  BY <1>12 DEF Migrate, Goto, object, history
<1>13. CASE Execute
  BY <1>13 DEF Execute, object, history
<1>14. CASE FinishStart
  BY <1>14 DEF FinishStart, Return, world, loop, history
<1>15. CASE FinishLoop
  <2>1. call = "apply" => batch # <<>>
    BY <1>15, EngineAssumption DEF FinishLoop, PhaseInv
  <2>2. call = "apply" => done > 0
    BY <1>15, <2>1, EmptySeq DEF FinishLoop
  <2>. QED
    BY <1>15, <2>2 DEF FinishLoop, Return, object, world, loop, history
<1>16. CASE Wipe
  BY <1>16 DEF Wipe, Goto, loop, history
<1>17. CASE ClosePlane
  BY <1>17 DEF ClosePlane, Goto, world, loop, history
<1>18. CASE Remove
  BY <1>18 DEF Remove, Return, world, loop, history
<1>19. CASE Refuse
  BY <1>19 DEF Refuse, Raise, Return, object, world, loop, history
<1>20. CASE BuildFails
  BY <1>20 DEF BuildFails, Fault, Raise, Return, object, world, loop
<1>21. CASE RunFails
  BY <1>21 DEF RunFails, Fault, Raise, Return, object, loop
<1>22. CASE ReadyExpires
  BY <1>22 DEF ReadyExpires, Fault, Raise, Return, object, world, loop
<1>23. CASE OpenFails
  BY <1>23 DEF OpenFails, Fault, Raise, Return, world, loop
<1>24. CASE MigrateFails
  BY <1>24 DEF MigrateFails, Fault, Raise, Return, object, loop
<1>25. CASE ExecuteTimesOut
  BY <1>25 DEF ExecuteTimesOut, Fault, Raise, Return, object, loop
<1>26. CASE FlushFails
  BY <1>26 DEF FlushFails, Fault, Raise, Return, object, world, loop
<1>27. CASE WipeFails
  BY <1>27 DEF WipeFails, Fault, Raise, Return, loop
<1>28. CASE CloseFails
  BY <1>28 DEF CloseFails, Fault, Goto, world, loop
<1>29. CASE RemoveFails
  BY <1>29 DEF RemoveFails, Fault, Return, world, loop
<1>30. CASE UNCHANGED vars
  BY <1>30 DEF vars
<1>. QED
  BY <1>1, <1>2, <1>3, <1>4, <1>5, <1>6, <1>7, <1>8, <1>9, <1>10, <1>11,
     <1>12, <1>13, <1>14, <1>15, <1>16, <1>17, <1>18, <1>19, <1>20, <1>21,
     <1>22, <1>23, <1>24, <1>25, <1>26, <1>27, <1>28, <1>29, <1>30 DEF
     Next, Calls, Progress, Failures

(* One more operation executed keeps the invariant of the loop.            *)
LEMMA OneMoreExecuted ==
  ASSUME IInv, pc = "execute", done < Len(batch),
         Accepts(content, batch[done + 1])
  PROVE  /\ before \o Prefix(batch, done + 1) = Append(content, batch[done + 1])
         /\ Replays(before, Prefix(batch, done + 1))
<1>1. /\ before \in Seq(Ops) /\ batch \in Seq(Ops) /\ done \in 0..Len(batch)
      /\ content = before \o Prefix(batch, done)
      /\ Replays(before, Prefix(batch, done))
  BY DEF IInv, TypeOK, LoopInv
<1>. QED
  BY <1>1, PrefixStep, ReplaysOneMore

(* Every step keeps the loop on its batch: nothing is skipped, repeated or *)
(* executed on a service that has been changed in between.                 *)
LEMMA PhaseStep ==
  ASSUME IInv, [Next]_vars
  PROVE  (PhaseInv /\ LoopInv /\ ResetRestoresJournal)'
<1>. USE DEF IInv, PhaseInv, LoopInv, ResetRestoresJournal, CallInv, TypeOK, Steps
<1>1. CASE CallStart
  BY <1>1 DEF CallStart, Begin, Loop, object, world
<1>2. CASE StartWithoutTopics
  BY <1>2 DEF StartWithoutTopics, Begin, object, world, loop
<1>3. CASE CallReset
  BY <1>3 DEF CallReset, Begin, Loop, object, world
<1>4. CASE CallUnstarted
  BY <1>4 DEF CallUnstarted, Begin, object, world, loop
<1>5. CASE CallRecord
  BY <1>5 DEF CallRecord, Begin, world, loop
<1>6. CASE CallStop
  BY <1>6 DEF CallStop, Begin, object, world, loop
<1>7. ASSUME NEW group \in Groups, CallApply(group) PROVE (PhaseInv /\ LoopInv /\ ResetRestoresJournal)'
  <2>0. group \in Seq(Ops)
    BY EngineAssumption
  <2>1. /\ content = content \o Prefix(group, 0)
        /\ Replays(content, Prefix(group, 0))
    BY <2>0, LoopBegins
  <2>. QED
    BY <1>7, <2>1 DEF CallApply, Begin, Loop, object, world
<1>8. CASE Build
  BY <1>8 DEF Build, Goto, world, loop, history
<1>9. CASE Run
  BY <1>9 DEF Run, Goto, object, loop, history
<1>10. CASE BecomeReady
  <2>1. /\ content = content \o Prefix(batch, 0)
        /\ Replays(content, Prefix(batch, 0))
    BY LoopBegins
  <2>. QED
    BY <1>10, <2>1 DEF BecomeReady, Goto, object, world, loop, history
<1>11. CASE OpenPlane
  <2>1. /\ content = content \o Prefix(batch, 0)
        /\ Replays(content, Prefix(batch, 0))
    BY LoopBegins
  <2>. QED
    BY <1>11, <2>1 DEF OpenPlane, Goto, world, loop, history
<1>12. CASE Migrate
  <2>1. content \o Migrated = Migrated
    BY <1>12, EngineAssumption, ConcatEmptySeq DEF Migrate, Goto
  <2>2. content' \in {<<>>, Migrated} /\ content' \in Seq(Ops)
    BY <1>12, <2>1, EngineAssumption DEF Migrate, Goto
  <2>3. /\ content' = content' \o Prefix(batch, 0)
        /\ Replays(content', Prefix(batch, 0))
    BY <2>2, LoopBegins
  <2>. QED
    BY <1>12, <2>2, <2>3 DEF Migrate, Goto, object, history
<1>13. CASE Execute
  <2>1. /\ content' = before \o Prefix(batch, done + 1)
        /\ Replays(before, Prefix(batch, done + 1))
    BY <1>13, OneMoreExecuted DEF Execute
  <2>. QED
    BY <1>13, <2>1 DEF Execute, object, history
<1>14. CASE FinishStart
  BY <1>14 DEF FinishStart, Return, world, loop, history
<1>15. CASE FinishLoop
  <2>1. content = before \o batch
    BY <1>15, PrefixEnds DEF FinishLoop
  <2>2. <<>> \o journal = journal
    BY ConcatEmptySeq
  <2>. QED
    BY <1>15, <2>1, <2>2 DEF FinishLoop, Return, object, world, loop, history
<1>16. CASE Wipe
  <2>0. <<>> \in Seq(Ops)
    BY EmptySeq
  <2>1. /\ <<>> = <<>> \o Prefix(batch, 0)
        /\ Replays(<<>>, Prefix(batch, 0))
    BY <2>0, LoopBegins
  <2>. QED
    BY <1>16, <2>1 DEF Wipe, Goto, loop, history
<1>17. CASE ClosePlane
  BY <1>17 DEF ClosePlane, Goto, world, loop, history
<1>18. CASE Remove
  BY <1>18 DEF Remove, Return, world, loop, history
<1>19. CASE Refuse
  BY <1>19 DEF Refuse, Raise, Return, object, world, loop, history
<1>20. CASE BuildFails
  BY <1>20 DEF BuildFails, Fault, Raise, Return, object, world, loop
<1>21. CASE RunFails
  BY <1>21 DEF RunFails, Fault, Raise, Return, object, loop
<1>22. CASE ReadyExpires
  BY <1>22 DEF ReadyExpires, Fault, Raise, Return, object, world, loop
<1>23. CASE OpenFails
  BY <1>23 DEF OpenFails, Fault, Raise, Return, world, loop
<1>24. CASE MigrateFails
  BY <1>24 DEF MigrateFails, Fault, Raise, Return, object, loop
<1>25. CASE ExecuteTimesOut
  BY <1>25 DEF ExecuteTimesOut, Fault, Raise, Return, object, loop
<1>26. CASE FlushFails
  BY <1>26 DEF FlushFails, Fault, Raise, Return, object, world, loop
<1>27. CASE WipeFails
  BY <1>27 DEF WipeFails, Fault, Raise, Return, loop
<1>28. CASE CloseFails
  BY <1>28 DEF CloseFails, Fault, Goto, world, loop
<1>29. CASE RemoveFails
  BY <1>29 DEF RemoveFails, Fault, Return, world, loop
<1>30. CASE UNCHANGED vars
  BY <1>30 DEF vars
<1>. QED
  BY <1>1, <1>2, <1>3, <1>4, <1>5, <1>6, <1>7, <1>8, <1>9, <1>10, <1>11,
     <1>12, <1>13, <1>14, <1>15, <1>16, <1>17, <1>18, <1>19, <1>20, <1>21,
     <1>22, <1>23, <1>24, <1>25, <1>26, <1>27, <1>28, <1>29, <1>30 DEF
     Next, Calls, Progress, Failures

(* The initial states satisfy the invariant.                               *)
LEMMA InitIInv == Init => IInv
<1>. SUFFICES ASSUME Init PROVE IInv
  OBVIOUS
<1>1. <<>> \in Seq(Ops) /\ Len(<<>>) = 0
  BY EmptySeq
<1>2. TypeOK
  <2>1. done \in 0..Len(batch)
    BY <1>1 DEF Init
  <2>2. /\ {journal, content, batch, shown, before} \subseteq Seq(Ops)
        /\ {started, handle, plane, live, stuck} \subseteq BOOLEAN
        /\ kind \in Kinds /\ faults \in Nat /\ calls \in Nat
    BY <1>1 DEF Init
  <2>. QED
    BY <2>1, <2>2 DEF Init, TypeOK
<1>3. CallInv /\ PlaneInv /\ PhaseInv
  BY DEF Init, CallInv, PlaneInv, PhaseInv, Steps
<1>4. LoopInv /\ ResetRestoresJournal
  BY DEF Init, LoopInv, ResetRestoresJournal
<1>. QED
  BY <1>2, <1>3, <1>4 DEF IInv

(* The invariant is inductive.                                             *)
THEOREM EngineInvariant == Spec => []IInv
<1>1. IInv /\ [Next]_vars => IInv'
  BY TypeStep, ObjectStep, PhaseStep DEF IInv
<1>. QED
  BY InitIInv, <1>1, PTL DEF Spec

(* Every variable keeps its type, the executed part of a batch within it.  *)
THEOREM EngineTypeOK == Spec => []TypeOK
<1>1. IInv => TypeOK
  BY DEF IInv
<1>. QED
  BY EngineInvariant, <1>1, PTL

(* For any service and any group, a loop leaves no gap and reorders        *)
(* nothing: the service holds what it held and the executed prefix.        *)
THEOREM EngineLoop == Spec => []LoopInv
<1>1. IInv => LoopInv
  BY DEF IInv
<1>. QED
  BY EngineInvariant, <1>1, PTL

(* Between calls a started engine serves, whatever failed before: only a   *)
(* kafka engine whose reset failed lacks its client.                       *)
THEOREM EngineServes == Spec => []StartedServes
<1>1. IInv => StartedServes
  BY DEF IInv, TypeOK, CallInv, PlaneInv, StartedServes
<1>. QED
  BY EngineInvariant, <1>1, PTL

(* A failed start and a stop leave nothing that the daemon agreed to       *)
(* remove.                                                                 *)
THEOREM EngineLeavesNothing == Spec => []NothingLeftBehind
<1>1. IInv => NothingLeftBehind
  BY DEF IInv, CallInv, NothingLeftBehind
<1>. QED
  BY EngineInvariant, <1>1, PTL

(* A reset that returns has restored the journal, for every journal and    *)
(* whatever the service held.                                              *)
THEOREM EngineReset == Spec => []ResetRestoresJournal
<1>1. IInv => ResetRestoresJournal
  BY DEF IInv
<1>. QED
  BY EngineInvariant, <1>1, PTL

(* The journal grows by what the service has just executed, and by nothing *)
(* else: the two actions that change it follow a loop that ran to its end. *)
THEOREM EngineJournal == Spec => JournalFollowsService
<1>1. ASSUME IInv, [Next]_vars, journal' # journal
      PROVE  /\ journal' = journal \o batch
             /\ Len(batch) <= Len(content')
             /\ content' = Prefix(content', Len(content') - Len(batch)) \o batch
  <2>1. CallRecord \/ FinishStart
    BY <1>1 DEF Next, Calls, Progress, Failures, vars, object, CallStart,
       StartWithoutTopics, CallReset, CallUnstarted, CallStop, CallApply,
       Build, Run, BecomeReady, OpenPlane, Migrate, Execute, FinishLoop, Wipe,
       ClosePlane, Remove, Refuse, BuildFails, RunFails, ReadyExpires,
       OpenFails, MigrateFails, ExecuteTimesOut, FlushFails, WipeFails,
       CloseFails, RemoveFails
  <2>2. before \in Seq(Ops) /\ batch \in Seq(Ops)
    BY <1>1 DEF IInv, TypeOK
  <2>3. CASE CallRecord
    <3>1. journal' = journal \o batch /\ content' = content
      BY <2>3 DEF CallRecord, world
    <3>2. content = before \o batch
      BY <1>1, <2>3 DEF IInv, PhaseInv, CallRecord, Begin
    <3>. QED
      BY <2>2, <3>1, <3>2, EndsWith
  <2>4. CASE FinishStart
    <3>1. journal' = journal \o batch /\ content' = content
      BY <2>4 DEF FinishStart, world
    <3>2. content = before \o batch
      BY <1>1, <2>2, <2>4, PrefixEnds DEF IInv, LoopInv, FinishStart
    <3>. QED
      BY <2>2, <3>1, <3>2, EndsWith
  <2>. QED
    BY <2>1, <2>3, <2>4
<1>2. IInv /\ [Next]_vars =>
        [journal' # journal =>
           /\ journal' = journal \o batch
           /\ Len(batch) <= Len(content')
           /\ content' = Prefix(content', Len(content') - Len(batch)) \o batch]_vars
  BY <1>1
<1>. QED
  BY EngineInvariant, <1>2, PTL DEF Spec, JournalFollowsService

-----------------------------------------------------------------------------
(* The contract speaks of the same data plane.                             *)
LEMMA SameDataPlane ==
  ASSUME NEW held, NEW ops, NEW n
  PROVE  /\ Contract!Prefix(ops, n) = Prefix(ops, n)
         /\ Contract!Replays(held, ops) <=> Replays(held, ops)
         /\ Contract!PartlyApplied(held, ops) = PartlyApplied(held, ops)
         /\ Contract!AfterFailedReset(held, ops) = AfterFailedReset(held, ops)
<1>1. \A s, m : Contract!Prefix(s, m) = Prefix(s, m)
  BY DEF Contract!Prefix, Prefix
<1>2. \A s, op : Contract!Accepts(s, op) <=> Accepts(s, op)
  BY DEF Contract!Accepts, Accepts, Contract!Range, Range
<1>3. \A s, t : Contract!Replays(s, t) <=> Replays(s, t)
  BY <1>1, <1>2 DEF Contract!Replays, Replays
<1>4. \A s, t : Contract!PartlyApplied(s, t) = PartlyApplied(s, t)
  BY <1>1, <1>3 DEF Contract!PartlyApplied, PartlyApplied
<1>. QED
  BY <1>1, <1>3, <1>4 DEF Contract!AfterFailedReset, AfterFailedReset

(* While a loop runs, what it has executed so far is a partly applied      *)
(* group, and so it is when the operation in progress still goes through.  *)
LEMMA LoopIsPartlyApplied ==
  ASSUME IInv, pc = "execute"
  PROVE  /\ content \in PartlyApplied(before, batch)
         /\ done < Len(batch) /\ Accepts(content, batch[done + 1]) =>
              Append(content, batch[done + 1]) \in PartlyApplied(before, batch)
<1>1. /\ before \in Seq(Ops) /\ batch \in Seq(Ops) /\ done \in 0..Len(batch)
      /\ content = before \o Prefix(batch, done)
      /\ Replays(before, Prefix(batch, done))
  BY DEF IInv, TypeOK, LoopInv
<1>2. content \in PartlyApplied(before, batch)
  BY <1>1, PrefixIsPartlyApplied
<1>3. ASSUME done < Len(batch), Accepts(content, batch[done + 1])
      PROVE  Append(content, batch[done + 1]) \in PartlyApplied(before, batch)
  <2>1. done + 1 \in 0..Len(batch)
    BY <1>1, <1>3, LenProperties
  <2>. QED
    BY <1>1, <1>3, <2>1, OneMoreExecuted, PrefixIsPartlyApplied
<1>. QED
  BY <1>2, <1>3

(* A call that fails in its loop, or before it began, ends the way the     *)
(* contract allows.                                                        *)
LEMMA RaisedKeepsContract ==
  ASSUME IInv, pc # "idle", call \in {"apply", "reset"},
         pc' = "idle", outcome' = "error", UNCHANGED <<started, journal>>,
         \/ pc = "execute" /\ content' \in PartlyApplied(before, batch)
         \/ call = "reset" /\ content' \in {shown, <<>>}
  PROVE  Contract!Next
<1>1. started /\ started' /\ Holds = shown /\ Holds' = content'
  BY DEF IInv, CallInv, Holds
<1>2. CASE call = "apply"
  <2>1. before = shown /\ batch \in Groups
    BY <1>2 DEF IInv, PhaseInv
  <2>2. Contract!ApplyFails(batch)
    BY <1>1, <1>2, <2>1, SameDataPlane DEF Contract!ApplyFails
  <2>. QED
    BY <2>1, <2>2 DEF Contract!Next
<1>3. CASE call = "reset"
  <2>1. before = <<>> /\ batch = journal
    BY <1>3 DEF IInv, PhaseInv
  <2>2. <<>> \in PartlyApplied(<<>>, journal)
    BY EmptySeq, NothingIsPartlyApplied DEF IInv, TypeOK
  <2>3. content' \in AfterFailedReset(shown, journal)
    BY <2>1, <2>2 DEF AfterFailedReset
  <2>4. Contract!ResetFails
    BY <1>1, <2>3, SameDataPlane DEF Contract!ResetFails
  <2>. QED
    BY <2>4 DEF Contract!Next
<1>. QED
  BY <1>2, <1>3

(* Every step is a step of the contract, or one inside a call.             *)
LEMMA StepKeepsContract ==
  ASSUME IInv, [Next]_vars
  PROVE  [Contract!Next]_(Contract!vars)
<1>. USE DEF IInv, CallInv, TypeOK, Contract!vars, Holds, Steps
<1>1. CASE CallStart \/ CallReset \/ CallStop
           \/ \E group \in Groups : CallApply(group)
  BY <1>1 DEF CallStart, CallReset, CallStop, CallApply, Begin, object, world
<1>2. CASE Build \/ Run \/ BecomeReady \/ OpenPlane \/ Migrate \/ Execute
           \/ Wipe \/ ClosePlane
  BY <1>2 DEF Build, Run, BecomeReady, OpenPlane, Migrate, Execute, Wipe,
     ClosePlane, Goto, object, world, loop, history
<1>3. CASE BuildFails \/ RunFails \/ MigrateFails \/ CloseFails
  BY <1>3 DEF BuildFails, RunFails, MigrateFails, CloseFails, Goto, Raise,
     object, world, loop
<1>4. CASE StartWithoutTopics \/ CallUnstarted
  <2>1. Contract!Reject
    BY <1>4 DEF StartWithoutTopics, CallUnstarted, Begin, object, world,
       Contract!Reject
  <2>. QED
    BY <2>1 DEF Contract!Next
<1>5. CASE CallRecord
  <2>1. /\ started /\ outcome = "ok" /\ batch \in Groups
        /\ content = before \o batch
    BY <1>5 DEF PhaseInv, CallRecord, Begin
  <2>2. /\ Len(batch) <= Len(content)
        /\ content = Prefix(content, Len(content) - Len(batch)) \o batch
    BY <2>1, EndsWith
  <2>3. Contract!Record(batch)
    BY <1>5, <2>1, <2>2, SameDataPlane DEF CallRecord, Begin, object,
       world, loop, Contract!Record
  <2>. QED
    BY <2>1, <2>3 DEF Contract!Next
<1>6. CASE FinishStart
  <2>1. /\ content = before \o batch /\ before \in {<<>>, Migrated}
        /\ batch = Startup /\ ~started /\ outcome = "none"
    BY <1>6, PrefixEnds DEF FinishStart, LoopInv, PhaseInv
  <2>2. Contract!Boot
    BY <1>6, <2>1 DEF FinishStart, Return, world, loop, Contract!Boot
  <2>. QED
    BY <2>2 DEF Contract!Next
<1>7. CASE FinishLoop
  <2>1. started /\ content = before \o batch /\ Replays(before, batch)
    BY <1>7, PrefixEnds DEF FinishLoop, LoopInv
  <2>2. CASE call = "apply"
    <3>1. before = shown /\ batch \in Groups
      BY <1>7, <2>2 DEF FinishLoop, PhaseInv
    <3>2. Contract!Apply(batch)
      BY <1>7, <2>1, <3>1, SameDataPlane DEF FinishLoop, Return, object,
         world, Contract!Apply
    <3>. QED
      BY <3>1, <3>2 DEF Contract!Next
  <2>3. CASE call = "reset"
    <3>1. before = <<>> /\ batch = journal /\ <<>> \o journal = journal
      BY <1>7, <2>3, ConcatEmptySeq DEF FinishLoop, PhaseInv
    <3>2. Contract!Reset
      BY <1>7, <2>1, <3>1, SameDataPlane DEF FinishLoop, Return, object,
         world, Contract!Reset
    <3>. QED
      BY <3>2 DEF Contract!Next
  <2>. QED
    BY <1>7, <2>2, <2>3 DEF FinishLoop
<1>8. CASE Remove \/ RemoveFails
  <2>1. CASE call = "stop"
    <3>1. Contract!Halt
      BY <1>8, <2>1 DEF Remove, RemoveFails, Return, Contract!Halt
    <3>. QED
      BY <3>1 DEF Contract!Next
  <2>2. CASE call = "start"
    <3>1. Contract!Reject
      BY <1>8, <2>2 DEF Remove, RemoveFails, Return, Contract!Reject
    <3>. QED
      BY <3>1 DEF Contract!Next
  <2>. QED
    BY <1>8, <2>1, <2>2 DEF Remove, RemoveFails
<1>9. ASSUME ReadyExpires \/ OpenFails \/ Refuse \/ ExecuteTimesOut
             \/ FlushFails \/ WipeFails
      PROVE  [Contract!Next]_(Contract!vars)
  <2>. USE <1>9 DEF ReadyExpires, OpenFails, Refuse, ExecuteTimesOut,
           FlushFails, WipeFails, object, world, loop, history
  <2>1. pc # "idle" /\ UNCHANGED <<started, journal>> /\ Raise
    OBVIOUS
  <2>2. CASE call = "start"
    BY <2>1, <2>2 DEF Raise
  <2>3. CASE call # "start"
    <3>1. pc' = "idle" /\ outcome' = "error" /\ call \in {"apply", "reset"}
      BY <2>1, <2>3 DEF Raise, Return
    <3>2. CASE pc = "execute"
      <4>1. content' \in PartlyApplied(before, batch)
        BY <3>2, LoopIsPartlyApplied
      <4>. QED
        BY <2>1, <3>1, <3>2, <4>1, RaisedKeepsContract
    <3>3. CASE pc # "execute"
      <4>1. call = "reset" /\ content' \in {shown, <<>>}
        BY <3>1, <3>3 DEF PhaseInv
      <4>. QED
        BY <2>1, <3>1, <4>1, RaisedKeepsContract
    <3>. QED
      BY <3>2, <3>3
  <2>. QED
    BY <2>2, <2>3
<1>10. CASE UNCHANGED vars
  BY <1>10 DEF vars
<1>. QED
  BY <1>1, <1>2, <1>3, <1>4, <1>5, <1>6, <1>7, <1>8, <1>9, <1>10
     DEF Next, Calls, Progress, Failures

(* The steps of every call add up to the contract the sandbox relies on.   *)
THEOREM EngineKeepsContract == Spec => KeepsContract
<1>1. Init => Contract!Init
  BY DEF Init, Contract!Init, Holds
<1>2. IInv /\ [Next]_vars => [Contract!Next]_(Contract!vars)
  BY StepKeepsContract
<1>. QED
  BY EngineInvariant, <1>1, <1>2, PTL DEF Spec, KeepsContract, Contract!Spec
=============================================================================
