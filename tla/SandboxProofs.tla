---------------------------- MODULE SandboxProofs ----------------------------
(***************************************************************************)
(* Proofs about Sandbox, for every set of services in every order, every   *)
(* startup and migration data, every set of operations and every bound.    *)
(* Where a property needs the suite to do without one of the habits, the   *)
(* theorem says which.                                                     *)
(***************************************************************************)
EXTENDS Sandbox, SequenceTheorems, TLAPS

(* What exists is owned: as long as the session has not ended, whatever    *)
(* the daemon has can be reached through a handle that stop will visit, or *)
(* is something the daemon has refused to remove.                          *)
OwnInv ==
  /\ pc = "new" => present = {} /\ ~netHandle
  /\ pc # "ended" =>
       /\ \A s \in Services : s \in present => s \in started \cup stuck
       /\ "instance" \in present => instHandle \/ "instance" \in stuck
       /\ "network" \in present => netHandle
  /\ ~netHandle /\ pc # "ended" =>
       present = {} /\ pc \in {"new"} \cup StopSteps
  /\ pc \in {"stop engines", "stop network"} =>
       ("instance" \in present => "instance" \in stuck)
  /\ pc = "stop engines" => k <= Len(Order)
  /\ pc = "stop engines" =>
       \A i \in 1..Len(Order) : i > k /\ Order[i] \in present => Order[i] \in stuck
  /\ pc = "stop network" => present \ {"network"} \subseteq stuck

(* The services come before the instance and go after it.                  *)
OrderInv ==
  /\ pc = "new" => k = 1
  /\ pc \in {"engines", "clear"} => k >= 1
  /\ pc = "engines" => \A i \in 1..Len(Order) : i < k => Order[i] \in present
  /\ pc \in {"instance", "announce"} \cup TestSteps => Services \subseteq present
  /\ pc \in {"new", "engines", "instance"} => ~alive
  /\ alive /\ pc # "ended" => instHandle \/ "instance" \in stuck
  /\ alive => "instance" \in present \/ pc = "ended"
  /\ alive /\ pc \in {"stop engines", "stop network"} => "instance" \in stuck

(* A reset has come to the k-th service: nothing writes to the services or *)
(* their journals before it is through, an open boundary or not.           *)
ResetInv ==
  pc = "clear" =>
    \A i \in 1..Len(Order) : i < k => content[Order[i]] = journal[Order[i]]

(* The inductive invariant.                                                *)
IInv == /\ TypeOK /\ OwnInv /\ OrderInv /\ ResetInv
        /\ StopRemovesAll /\ InstanceHasServices /\ TestStartsAtBaseline

(* The three parts in which TypeOK is proved: what is in the sequences,    *)
(* what is in the handles and the control state, and the counters.         *)
TypeData ==
  /\ batch \in Seq(Ops) /\ todo \in Seq(Ops)
  /\ journal \in [Services -> Seq(Ops)]
  /\ content \in [Services -> Seq(Rows)]
  /\ expected \in [Services -> Seq(Rows)]

TypeState ==
  /\ boundary \in BOOLEAN /\ netHandle \in BOOLEAN /\ instHandle \in BOOLEAN
  /\ alive \in BOOLEAN /\ raised \in BOOLEAN
  /\ started \subseteq Services
  /\ present \subseteq Services \cup {"instance", "network"}
  /\ stuck \subseteq Services \cup {"instance", "network"}
  /\ unrecorded \subseteq Ops
  /\ pc \in StartSteps \cup TestSteps \cup StopSteps \cup {"ended"}
  /\ current \in Services
  /\ kept \in {"none", "boundary", "test", "stale"}

TypeCount ==
  /\ k \in 0..Len(Order) + 1
  /\ tests \in Nat /\ ops \in Nat /\ calls \in Nat /\ seeds \in Nat /\ faults \in Nat

(* There are finitely many services.                                       *)
LEMMA OrderLength == Len(Order) \in Nat
BY SandboxAssumption, LenProperties

(* The services are the elements of Order, each of them once, and neither  *)
(* the instance nor the network is one of them.                            *)
LEMMA OrderFacts ==
  /\ DOMAIN Order = 1..Len(Order)
  /\ \A i \in 1..Len(Order) : Order[i] \in Services
  /\ \A i, j \in 1..Len(Order) : Order[i] = Order[j] => i = j
  /\ \A s \in Services : \E i \in 1..Len(Order) : Order[i] = s
  /\ "instance" \notin Services
  /\ "network" \notin Services
<1>1. Order \in Seq(Range(Order)) /\ Order # <<>>
  BY SandboxAssumption
<1>2. DOMAIN Order = 1..Len(Order)
  BY <1>1, LenProperties
<1>3. \A i \in 1..Len(Order) : Order[i] \in Services
  BY <1>2 DEF Services, Range
<1>4. \A s \in Services : \E i \in 1..Len(Order) : Order[i] = s
  BY <1>2 DEF Services, Range
<1>. QED
  BY <1>2, <1>3, <1>4, SandboxAssumption

-----------------------------------------------------------------------------
(***************************************************************************)
(* Type correctness, in its three parts.                                   *)
(***************************************************************************)
(* Operations are rows.                                                    *)
LEMMA OpsAreRows == \A ops1 \in Seq(Ops) : ops1 \in Seq(Rows)
BY DEF Rows

(* The k-th service, while k is an index into Order, is a service.         *)
LEMMA InOrder ==
  ASSUME NEW i \in 0..Len(Order) + 1, i >= 1, i <= Len(Order)
  PROVE  Order[i] \in Services
BY OrderFacts, OrderLength

(* What is taken out of a batch are operations.                            *)
LEMMA FirstType ==
  ASSUME NEW s \in Seq(Ops), s # <<>>
  PROVE  s[1] \in Ops
BY EmptySeq, LenProperties, ElementOfSeq

(* What is left of a batch is one.                                         *)
LEMMA WithoutType ==
  ASSUME NEW s \in Seq(Ops), NEW i \in 1..Len(s)
  PROVE  Without(s, i) \in Seq(Ops)
<1>1. Len(s) \in Nat /\ \A j \in 1..Len(s) : s[j] \in Ops
  BY LenProperties, ElementOfSeq
<1>2. SubSeq(s, 1, i - 1) \in Seq(Ops) /\ SubSeq(s, i + 1, Len(s)) \in Seq(Ops)
  BY <1>1, SubSeqProperties
<1>. QED
  BY <1>2, ConcatProperties DEF Without

(* A prefix is a sequence of the same operations, of the given length.     *)
LEMMA PrefixType ==
  ASSUME NEW S, NEW log \in Seq(S), NEW n \in 0..Len(log)
  PROVE  /\ Prefix(log, n) \in Seq(S)
         /\ Len(Prefix(log, n)) = n
         /\ \A i \in 1..n : Prefix(log, n)[i] = log[i]
<1>1. \A i \in 1..n : log[i] \in S
  BY LenProperties, ElementOfSeq
<1>2. n \in Int /\ n >= 0
  BY LenProperties
<1>. QED
  BY <1>1, <1>2, SubSeqProperties DEF Prefix

(* A failed reset leaves rows.                                             *)
LEMMA ResetType ==
  ASSUME NEW held \in Seq(Rows), NEW log \in Seq(Ops)
  PROVE  AfterFailedReset(held, log) \subseteq Seq(Rows)
<1>1. \A n \in 0..Len(log) : Prefix(log, n) \in Seq(Ops)
  BY PrefixType
<1>2. \A n \in 0..Len(log) : <<>> \o Prefix(log, n) \in Seq(Ops)
  BY <1>1, ConcatProperties, EmptySeq
<1>3. PartlyApplied(<<>>, log) \subseteq Seq(Ops)
  BY <1>2 DEF PartlyApplied
<1>. QED
  BY <1>3, OpsAreRows DEF AfterFailedReset

(* One more operation on a service.                                        *)
LEMMA AppendType ==
  ASSUME TypeData, NEW op \in Ops, NEW s \in Services
  PROVE  /\ [content EXCEPT ![s] = Append(@, op)] \in [Services -> Seq(Rows)]
         /\ [journal EXCEPT ![s] = Append(@, op)] \in [Services -> Seq(Ops)]
         /\ [expected EXCEPT ![s] = Append(@, op)] \in [Services -> Seq(Rows)]
<1>1. Append(content[s], op) \in Seq(Rows) /\ Append(expected[s], op) \in Seq(Rows)
  BY AppendProperties DEF TypeData, Rows
<1>2. Append(journal[s], op) \in Seq(Ops)
  BY AppendProperties DEF TypeData
<1>. QED
  BY <1>1, <1>2 DEF TypeData

(* The sequences keep their type.                                          *)
LEMMA DataTypeStep ==
  ASSUME IInv, [Next]_vars
  PROVE  TypeData'
<1>. USE DEF IInv, TypeOK, TypeData
<1>1. CASE CreateNetwork
  BY <1>1 DEF CreateNetwork, Goto, loop, bounds, history
<1>2. CASE CreateNetworkFails
  BY <1>2 DEF CreateNetworkFails, Goto, Fault, world, loop, history
<1>3. CASE StartEngine
  <2>1. Order[k] \in Services
    BY <1>3, OrderFacts, OrderLength DEF StartEngine, OrderInv
  <2>2. Startup[Order[k]] \in Seq(Ops) /\ Migrated[Order[k]] \in Seq(Ops)
    BY <2>1, SandboxAssumption
  <2>3. \A held \in {<<>>, Migrated[Order[k]]} : held \o Startup[Order[k]] \in Seq(Rows)
    BY <2>2, EmptySeq, ConcatProperties, OpsAreRows
  <2>4. journal[Order[k]] \o Startup[Order[k]] \in Seq(Ops)
    BY <2>1, <2>2, ConcatProperties
  <2>5. content' \in [Services -> Seq(Rows)]
    <3>1. PICK held \in {<<>>, Migrated[Order[k]]} :
                content' = [content EXCEPT ![Order[k]] = held \o Startup[Order[k]]]
      BY <1>3 DEF StartEngine
    <3>. QED
      BY <2>1, <2>3, <3>1
  <2>6. journal' \in [Services -> Seq(Ops)]
    <3>1. journal \in [Services -> Seq(Ops)]
      OBVIOUS
    <3>. HIDE DEF IInv, TypeOK, TypeData
    <3>2. journal' = [journal EXCEPT ![Order[k]] = journal[Order[k]] \o Startup[Order[k]]]
      BY <1>3 DEF StartEngine
    <3>. QED
      BY <2>1, <2>4, <3>1, <3>2
  <2>7. UNCHANGED <<batch, todo, expected>>
    BY <1>3 DEF StartEngine, history
  <2>8. TypeData
    OBVIOUS
  <2>. HIDE DEF IInv, TypeOK
  <2>. QED
    BY <2>5, <2>6, <2>7, <2>8
<1>4. CASE StartEngineFails
  BY <1>4 DEF StartEngineFails, Fault, object, loop
<1>5. CASE AddressFails
  BY <1>5 DEF AddressFails, Goto, Fault, object, world, loop, history
<1>6. CASE EnginesStarted
  BY <1>6 DEF EnginesStarted, Goto, object, world, loop, bounds, history
<1>7. CASE StartInstance
  BY <1>7 DEF StartInstance, Goto, loop, bounds, history
<1>8. CASE StartInstanceFails
  BY <1>8 DEF StartInstanceFails, Goto, Fault, loop, history
<1>9. CASE Announce
  BY <1>9 DEF Announce, Goto, object, world, loop, bounds, history
<1>10. CASE AnnounceFails
  BY <1>10 DEF AnnounceFails, Goto, object, world, loop, bounds, history
<1>11. CASE OpenBoundary
  BY <1>11 DEF OpenBoundary, world, loop, history
<1>12. CASE CloseBoundary
  BY <1>12 DEF CloseBoundary, world, loop, bounds, history
<1>13. CASE KeepView
  BY <1>13 DEF KeepView, object, world, loop, bounds, history
<1>14. ASSUME NEW op \in Ops, Seed(op) PROVE TypeData'
  <2>1. ServiceOf[op] \in Services
    BY SandboxAssumption
  <2>. QED
    BY <1>14, <2>1, AppendType DEF Seed, AddToBaseline, loop, history
<1>15. ASSUME NEW op \in Ops, SeedFails(op) PROVE TypeData'
  <2>1. ServiceOf[op] \in Services
    BY SandboxAssumption
  <2>2. \/ content' = content
        \/ content' = [content EXCEPT ![ServiceOf[op]] = Append(@, op)]
    BY <1>15 DEF SeedFails, FailToAdd
  <2>3. [content EXCEPT ![ServiceOf[op]] = Append(@, op)] \in [Services -> Seq(Rows)]
    BY <2>1, AppendType
  <2>4. content' \in [Services -> Seq(Rows)]
    BY <2>2, <2>3
  <2>. QED
    BY <1>15, <2>4 DEF SeedFails, history, loop
<1>16. CASE BeginTest
  BY <1>16 DEF BeginTest, Goto, object, world, history
<1>17. CASE ResetEngine
  <2>1. Order[k] \in Services
    BY <1>17, OrderFacts, OrderLength DEF ResetEngine, OrderInv
  <2>2. journal[Order[k]] \in Seq(Rows)
    BY <2>1, OpsAreRows
  <2>. QED
    BY <1>17, <2>2 DEF ResetEngine, object, bounds, history
<1>18. CASE ResetEngineFails
  <2>1. Order[k] \in Services
    BY <1>18, OrderFacts, OrderLength DEF ResetEngineFails, Goto, OrderInv
  <2>2. AfterFailedReset(content[Order[k]], journal[Order[k]]) \subseteq Seq(Rows)
    BY <2>1, ResetType
  <2>. QED
    BY <1>18, <2>2 DEF ResetEngineFails, Goto, Fault, object, loop, history
<1>19. CASE NewTestBatch
  <2>1. journal \in [Services -> Seq(Rows)]
    BY OpsAreRows
  <2>2. <<>> \in Seq(Ops)
    BY EmptySeq
  <2>. QED
    BY <1>19, <2>1, <2>2 DEF NewTestBatch, Goto, world, loop
<1>20. CASE PresetsEnqueued
  BY <1>20 DEF PresetsEnqueued, Goto, object, world, loop, bounds, history
<1>21. CASE PresetsRejected
  BY <1>21 DEF PresetsRejected, Goto, object, world, loop, bounds, history
<1>22. CASE Call
  BY <1>22 DEF Call, Goto, world, history
<1>23. CASE ApplyNext
  <2>1. PICK i \in DOMAIN todo :
              /\ NextInGroup(i)
              /\ Accepts(content[current], todo[i])
              /\ content' = [content EXCEPT ![current] = Append(@, todo[i])]
              /\ todo' = Without(todo, i)
    BY <1>23 DEF ApplyNext
  <2>2. i \in 1..Len(todo)
    BY <2>1, LenProperties
  <2>3. todo[i] \in Ops /\ todo' \in Seq(Ops)
    BY <2>1, <2>2, ElementOfSeq, WithoutType
  <2>4. content' \in [Services -> Seq(Rows)]
    BY <2>1, <2>3, AppendType
  <2>. QED
    BY <1>23, <2>3, <2>4 DEF ApplyNext, object, bounds, history
<1>24. CASE NextGroup
  BY <1>24 DEF NextGroup, object, world, bounds, history
<1>25. CASE ApplyFails
  <2>1. PICK i \in DOMAIN todo : FailToAdd(todo[i])
    BY <1>25 DEF ApplyFails
  <2>2. todo[i] \in Ops
    BY <2>1, LenProperties, ElementOfSeq
  <2>3. ServiceOf[todo[i]] \in Services
    BY <2>2, SandboxAssumption
  <2>4. \/ content' = content
        \/ content' = [content EXCEPT ![ServiceOf[todo[i]]] = Append(@, todo[i])]
    BY <2>1 DEF FailToAdd
  <2>5. [content EXCEPT ![ServiceOf[todo[i]]] = Append(@, todo[i])]
          \in [Services -> Seq(Rows)]
    BY <2>2, <2>3, AppendType
  <2>6. content' \in [Services -> Seq(Rows)]
    BY <2>4, <2>5
  <2>7. <<>> \in Seq(Ops)
    BY EmptySeq
  <2>. QED
    BY <1>25, <2>6, <2>7 DEF ApplyFails, object, history
<1>26. CASE PendingApplied
  BY <1>26 DEF PendingApplied, Goto, object, world, loop, bounds, history
<1>27. CASE EnsureService
  BY <1>27 DEF EnsureService, Raise, object, world, loop, bounds, history
<1>28. CASE Send
  <2>1. PICK written, emptied \in SUBSET Services :
              content' = [s \in Services |->
                            IF s \in emptied THEN <<>>
                            ELSE IF s \in written THEN Append(content[s], Foreign)
                            ELSE content[s]]
    BY <1>28 DEF Send
  <2>2. \A s \in Services : /\ <<>> \in Seq(Rows)
                            /\ Append(content[s], Foreign) \in Seq(Rows)
    BY AppendProperties, EmptySeq DEF Rows
  <2>3. content' \in [Services -> Seq(Rows)]
    BY <2>1, <2>2
  <2>. QED
    BY <1>28, <2>3 DEF Send, Goto, object, loop, bounds
<1>29. CASE SendFails
  BY <1>29 DEF SendFails, Fault, Raise, object, world, loop, history
<1>30. CASE EndTest
  BY <1>30 DEF EndTest, Goto, object, world, loop, bounds, history
<1>31. ASSUME NEW op \in Ops, EnqueuePreset(op) PROVE TypeData'
  <2>1. ServiceOf[op] \in Services
    BY SandboxAssumption
  <2>2. batch' \in Seq(Ops)
    BY <1>31, AppendProperties DEF EnqueuePreset, Enqueue
  <2>. QED
    BY <1>31, <2>1, <2>2, AppendType DEF EnqueuePreset, Expect, Enqueue,
       world, loop
<1>32. ASSUME NEW op \in Ops, Declare(op) PROVE TypeData'
  <2>1. ServiceOf[op] \in Services
    BY SandboxAssumption
  <2>2. batch' \in Seq(Ops)
    BY <1>32, AppendProperties DEF Declare, Enqueue
  <2>. QED
    BY <1>32, <2>1, <2>2, AppendType DEF Declare, Expect, Enqueue, world, loop
<1>33. ASSUME NEW op \in Ops, DeclareOnKeptView(op) PROVE TypeData'
  <2>1. ServiceOf[op] \in Services
    BY SandboxAssumption
  <2>. QED
    BY <1>33, <2>1, AppendType DEF DeclareOnKeptView, Expect, object, world, loop
<1>34. CASE Finalize
  BY <1>34 DEF Finalize, Goto, object, world, loop, bounds, history
<1>35. CASE StopInstance
  BY <1>35 DEF StopInstance, Goto, TryRemove, Fault
<1>36. CASE StopEngine
  <2>1. <<>> \in Seq(Rows)
    BY EmptySeq
  <2>2. content' \in [Services -> Seq(Rows)]
    BY <1>36, <2>1 DEF StopEngine
  <2>. QED
    BY <1>36, <2>2 DEF StopEngine, TryRemove, Fault
<1>37. CASE EnginesStopped
  BY <1>37 DEF EnginesStopped, Goto, object, world, loop, bounds, history
<1>38. CASE RemoveNetwork
  BY <1>38 DEF RemoveNetwork, Goto, TryRemove, loop, Fault
<1>39. CASE InstanceDies
  BY <1>39 DEF InstanceDies, Fault, object, loop, history
<1>40. CASE InterruptStart
  BY <1>40 DEF InterruptStart, object, loop, bounds, history
<1>41. CASE InterruptTest
  BY <1>41 DEF InterruptTest, world, loop, bounds, history
<1>42. CASE InterruptStop
  BY <1>42 DEF InterruptStop, object, world, loop, bounds, history
<1>43. CASE Reap
  BY <1>43 DEF Reap, object, loop, bounds, history
<1>44. CASE UNCHANGED vars
  BY <1>44 DEF vars
<1>45. ASSUME NEW op \in Ops, DeclareAtOnce(op) PROVE TypeData'
  <2>1. ServiceOf[op] \in Services
    BY SandboxAssumption
  <2>2. /\ content' = [content EXCEPT ![ServiceOf[op]] = Append(@, op)]
        /\ journal' = [journal EXCEPT ![ServiceOf[op]] = Append(@, op)]
        /\ expected' = [expected EXCEPT ![ServiceOf[op]] = Append(@, op)]
    BY <1>45 DEF DeclareAtOnce, AddToBaseline, Expect
  <2>3. /\ content' \in [Services -> Seq(Rows)]
        /\ journal' \in [Services -> Seq(Ops)]
        /\ expected' \in [Services -> Seq(Rows)]
    BY <2>1, <2>2, AppendType
  <2>. QED
    BY <1>45, <2>3 DEF DeclareAtOnce, loop
<1>46. ASSUME NEW op \in Ops, DeclareAtOnceFails(op) PROVE TypeData'
  <2>1. ServiceOf[op] \in Services
    BY SandboxAssumption
  <2>2. \/ content' = content
        \/ content' = [content EXCEPT ![ServiceOf[op]] = Append(@, op)]
    BY <1>46 DEF DeclareAtOnceFails, FailToAdd
  <2>3. [content EXCEPT ![ServiceOf[op]] = Append(@, op)] \in [Services -> Seq(Rows)]
    BY <2>1, AppendType
  <2>4. content' \in [Services -> Seq(Rows)]
    BY <2>2, <2>3
  <2>. QED
    BY <1>46, <2>4 DEF DeclareAtOnceFails, loop
<1>. HIDE DEF IInv, TypeOK, TypeData
<1>. QED
  BY <1>1, <1>2, <1>3, <1>4, <1>5, <1>6, <1>7, <1>8, <1>9, <1>10, <1>11,
     <1>12, <1>13, <1>14, <1>15, <1>16, <1>17, <1>18, <1>19, <1>20, <1>21,
     <1>22, <1>23, <1>24, <1>25, <1>26, <1>27, <1>28, <1>29, <1>30, <1>31,
     <1>32, <1>33, <1>34, <1>35, <1>36, <1>37, <1>38, <1>39, <1>40, <1>41,
     <1>42, <1>43, <1>44, <1>45, <1>46 DEF Next, Session, Starting, Seeding, Testing,
     Stopping, Interrupts

(* So do the handles and the control state.                                *)
LEMMA StateTypeStep ==
  ASSUME IInv, [Next]_vars
  PROVE  TypeState'
<1>. USE DEF IInv, TypeOK, TypeState, StartSteps, TestSteps, StopSteps
<1>1. CASE CreateNetwork
  BY <1>1 DEF CreateNetwork, Goto, loop, bounds, history
<1>2. CASE CreateNetworkFails
  BY <1>2 DEF CreateNetworkFails, Goto, Fault, world, loop, history
<1>3. CASE StartEngine
  <2>1. Order[k] \in Services
    <3>1. k >= 1 /\ k <= Len(Order) /\ k \in 0..Len(Order) + 1
      BY <1>3 DEF StartEngine, OrderInv
    <3>. QED
      BY <3>1, InOrder
  <2>. QED
    BY <1>3, <2>1 DEF StartEngine, bounds, history
<1>4. CASE StartEngineFails
  <2>1. Order[k] \in Services
    <3>1. k >= 1 /\ k <= Len(Order) /\ k \in 0..Len(Order) + 1
      BY <1>4 DEF StartEngineFails, OrderInv
    <3>. QED
      BY <3>1, InOrder
  <2>. QED
    BY <1>4, <2>1 DEF StartEngineFails, Fault, object, loop
<1>5. CASE AddressFails
  BY <1>5 DEF AddressFails, Goto, Fault, object, world, loop, history
<1>6. CASE EnginesStarted
  BY <1>6 DEF EnginesStarted, Goto, object, world, loop, bounds, history
<1>7. CASE StartInstance
  BY <1>7 DEF StartInstance, Goto, loop, bounds, history
<1>8. CASE StartInstanceFails
  <2>1. CASE UNCHANGED <<instHandle, present, alive>>
    BY <1>8, <2>1 DEF StartInstanceFails, Goto, Fault, loop, history
  <2>2. CASE /\ instHandle' = TRUE /\ present' \in {present, present \cup {"instance"}}
             /\ alive' \in BOOLEAN /\ (alive' => "instance" \in present')
    BY <1>8, <2>2 DEF StartInstanceFails, Goto, Fault, loop, history
  <2>. QED
    BY <1>8, <2>1, <2>2 DEF StartInstanceFails, Goto, Fault, loop, history
<1>9. CASE Announce
  BY <1>9 DEF Announce, Goto, object, world, loop, bounds, history
<1>10. CASE AnnounceFails
  BY <1>10 DEF AnnounceFails, Goto, object, world, loop, bounds, history
<1>11. CASE OpenBoundary
  BY <1>11 DEF OpenBoundary, world, loop, history
<1>12. CASE CloseBoundary
  BY <1>12 DEF CloseBoundary, world, loop, bounds, history
<1>13. CASE KeepView
  BY <1>13 DEF KeepView, object, world, loop, bounds, history
<1>14. ASSUME NEW op \in Ops, Seed(op) PROVE TypeState'
  BY <1>14 DEF Seed, AddToBaseline, loop, history
<1>15. ASSUME NEW op \in Ops, SeedFails(op) PROVE TypeState'
  BY <1>15 DEF SeedFails, FailToAdd, loop, history, Fault
<1>16. CASE BeginTest
  BY <1>16 DEF BeginTest, Goto, object, world, history
<1>17. CASE ResetEngine
  BY <1>17 DEF ResetEngine, object, bounds, history
<1>18. CASE ResetEngineFails
  BY <1>18 DEF ResetEngineFails, Goto, Fault, object, loop, history
<1>19. CASE NewTestBatch
  BY <1>19 DEF NewTestBatch, Goto, world, loop
<1>20. CASE PresetsEnqueued
  BY <1>20 DEF PresetsEnqueued, Goto, object, world, loop, bounds, history
<1>21. CASE PresetsRejected
  BY <1>21 DEF PresetsRejected, Goto, object, world, loop, bounds, history
<1>22. CASE Call
  <2>1. batch # <<>> => ServiceOf[batch[1]] \in Services
    <3>1. ASSUME batch # <<>> PROVE batch[1] \in Ops
      BY <3>1, FirstType
    <3>. QED
      BY <3>1, SandboxAssumption
  <2>. QED
    BY <1>22, <2>1 DEF Call, Goto, world, history
<1>23. CASE ApplyNext
  BY <1>23 DEF ApplyNext, object, bounds, history
<1>24. CASE NextGroup
  <2>1. todo[1] \in Ops
    BY <1>24, EmptySeq, LenProperties, ElementOfSeq DEF NextGroup
  <2>2. ServiceOf[todo[1]] \in Services
    BY <2>1, SandboxAssumption
  <2>. QED
    BY <1>24, <2>2 DEF NextGroup, object, world, bounds, history
<1>25. CASE ApplyFails
  BY <1>25 DEF ApplyFails, FailToAdd, Raise, object, history, Fault
<1>26. CASE PendingApplied
  BY <1>26 DEF PendingApplied, Goto, object, world, loop, bounds, history
<1>27. CASE EnsureService
  BY <1>27 DEF EnsureService, Raise, object, world, loop, bounds, history
<1>28. CASE Send
  BY <1>28 DEF Send, Goto, object, loop, bounds
<1>29. CASE SendFails
  BY <1>29 DEF SendFails, Fault, Raise, object, world, loop, history
<1>30. CASE EndTest
  BY <1>30 DEF EndTest, Goto, object, world, loop, bounds, history
<1>31. ASSUME NEW op \in Ops, EnqueuePreset(op) PROVE TypeState'
  BY <1>31 DEF EnqueuePreset, Expect, Enqueue, world, loop
<1>32. ASSUME NEW op \in Ops, Declare(op) PROVE TypeState'
  BY <1>32 DEF Declare, Expect, Enqueue, world, loop
<1>33. ASSUME NEW op \in Ops, DeclareOnKeptView(op) PROVE TypeState'
  BY <1>33 DEF DeclareOnKeptView, Expect, object, world, loop
<1>34. CASE Finalize
  BY <1>34 DEF Finalize, Goto, object, world, loop, bounds, history
<1>35. CASE StopInstance
  BY <1>35 DEF StopInstance, Goto, TryRemove, Fault
<1>36. CASE StopEngine
  BY <1>36 DEF StopEngine, TryRemove, Fault
<1>37. CASE EnginesStopped
  BY <1>37 DEF EnginesStopped, Goto, object, world, loop, bounds, history
<1>38. CASE RemoveNetwork
  BY <1>38 DEF RemoveNetwork, Goto, TryRemove, loop, Fault
<1>39. CASE InstanceDies
  BY <1>39 DEF InstanceDies, Fault, object, loop, history
<1>40. CASE InterruptStart
  <2>1. present' \subseteq Services \cup {"instance", "network"}
    <3>1. CASE pc = "engines" /\ k <= Len(Order)
      <4>1. Order[k] \in Services
        BY <3>1, OrderFacts, OrderLength DEF OrderInv
      <4>. QED
        BY <1>40, <4>1 DEF InterruptStart
    <3>2. CASE ~(pc = "engines" /\ k <= Len(Order))
      BY <1>40, <3>2 DEF InterruptStart, StartSteps
    <3>. QED
      BY <3>1, <3>2
  <2>2. pc' = "ended" /\ UNCHANGED <<boundary, netHandle, instHandle, alive,
                                    raised, started, stuck, unrecorded,
                                    current, kept>>
    BY <1>40 DEF InterruptStart, object, loop, bounds, history
  <2>. QED
    BY <2>1, <2>2
<1>41. CASE InterruptTest
  BY <1>41 DEF InterruptTest, world, loop, bounds, history
<1>42. CASE InterruptStop
  BY <1>42 DEF InterruptStop, object, world, loop, bounds, history
<1>43. CASE Reap
  BY <1>43 DEF Reap, object, loop, bounds, history
<1>44. CASE UNCHANGED vars
  <2>1. UNCHANGED <<boundary, netHandle, instHandle, alive, raised, started,
                    present, stuck, unrecorded, pc, current, kept>>
    BY <1>44 DEF vars
  <2>2. TypeState
    OBVIOUS
  <2>. HIDE DEF IInv, TypeOK
  <2>. QED
    BY <2>1, <2>2
<1>45. ASSUME NEW op \in Ops, DeclareAtOnce(op) PROVE TypeState'
  BY <1>45 DEF DeclareAtOnce, AtOnce, AddToBaseline, Expect, loop
<1>46. ASSUME NEW op \in Ops, DeclareAtOnceFails(op) PROVE TypeState'
  BY <1>46 DEF DeclareAtOnceFails, AtOnce, FailToAdd, Fault, loop
<1>. HIDE DEF IInv, TypeOK, TypeState, StartSteps, TestSteps, StopSteps
<1>. QED
  BY <1>1, <1>2, <1>3, <1>4, <1>5, <1>6, <1>7, <1>8, <1>9, <1>10, <1>11,
     <1>12, <1>13, <1>14, <1>15, <1>16, <1>17, <1>18, <1>19, <1>20, <1>21,
     <1>22, <1>23, <1>24, <1>25, <1>26, <1>27, <1>28, <1>29, <1>30, <1>31,
     <1>32, <1>33, <1>34, <1>35, <1>36, <1>37, <1>38, <1>39, <1>40, <1>41,
     <1>42, <1>43, <1>44, <1>45, <1>46 DEF Next, Session, Starting, Seeding, Testing,
     Stopping, Interrupts

(* So do the counters.                                                     *)
LEMMA CountTypeStep ==
  ASSUME IInv, [Next]_vars
  PROVE  TypeCount'
<1>. USE DEF IInv, TypeOK, TypeCount
<1>1. CASE CreateNetwork
  BY <1>1 DEF CreateNetwork, Goto, loop, bounds, history
<1>2. CASE CreateNetworkFails
  <2>1. faults' \in {faults, faults + 1} /\ UNCHANGED <<k, tests, ops, calls, seeds>>
    BY <1>2 DEF CreateNetworkFails, Goto, Fault, world, loop, history
  <2>2. TypeCount
    OBVIOUS
  <2>. HIDE DEF IInv, TypeOK
  <2>. QED
    BY <2>1, <2>2, OrderLength
<1>3. CASE StartEngine
  BY <1>3 DEF StartEngine, bounds, history
<1>4. CASE StartEngineFails
  <2>1. faults' \in {faults + 1, faults + 2} /\ UNCHANGED <<k, tests, ops, calls, seeds>>
    BY <1>4 DEF StartEngineFails, Fault, object, loop
  <2>2. TypeCount
    OBVIOUS
  <2>. HIDE DEF IInv, TypeOK
  <2>. QED
    BY <2>1, <2>2, OrderLength
<1>5. CASE AddressFails
  <2>1. faults' \in {faults, faults + 1} /\ UNCHANGED <<k, tests, ops, calls, seeds>>
    BY <1>5 DEF AddressFails, Goto, Fault, object, world, loop, history
  <2>2. TypeCount
    OBVIOUS
  <2>. HIDE DEF IInv, TypeOK
  <2>. QED
    BY <2>1, <2>2, OrderLength
<1>6. CASE EnginesStarted
  BY <1>6 DEF EnginesStarted, Goto, object, world, loop, bounds, history
<1>7. CASE StartInstance
  BY <1>7 DEF StartInstance, Goto, loop, bounds, history
<1>8. CASE StartInstanceFails
  <2>1. faults' \in {faults, faults + 1} /\ UNCHANGED <<k, tests, ops, calls, seeds>>
    BY <1>8 DEF StartInstanceFails, Goto, Fault, loop, history
  <2>2. TypeCount
    OBVIOUS
  <2>. HIDE DEF IInv, TypeOK
  <2>. QED
    BY <2>1, <2>2, OrderLength
<1>9. CASE Announce
  BY <1>9 DEF Announce, Goto, object, world, loop, bounds, history
<1>10. CASE AnnounceFails
  BY <1>10 DEF AnnounceFails, Goto, object, world, loop, bounds, history
<1>11. CASE OpenBoundary
  <2>1. seeds' = seeds + 1 /\ UNCHANGED <<k, tests, ops, calls, faults>>
    BY <1>11 DEF OpenBoundary, world, loop, history
  <2>2. TypeCount
    OBVIOUS
  <2>. HIDE DEF IInv, TypeOK
  <2>. QED
    BY <2>1, <2>2, OrderLength
<1>12. CASE CloseBoundary
  BY <1>12 DEF CloseBoundary, world, loop, bounds, history
<1>13. CASE KeepView
  BY <1>13 DEF KeepView, object, world, loop, bounds, history
<1>14. ASSUME NEW op \in Ops, Seed(op) PROVE TypeCount'
  <2>1. seeds' = seeds + 1 /\ UNCHANGED <<k, tests, ops, calls, faults>>
    BY <1>14 DEF Seed, AddToBaseline, loop, history
  <2>2. TypeCount
    OBVIOUS
  <2>. HIDE DEF IInv, TypeOK
  <2>. QED
    BY <2>1, <2>2, OrderLength
<1>15. ASSUME NEW op \in Ops, SeedFails(op) PROVE TypeCount'
  <2>1. /\ seeds' = seeds + 1 /\ faults' \in {faults, faults + 1}
        /\ UNCHANGED <<k, tests, ops, calls>>
    BY <1>15 DEF SeedFails, FailToAdd, loop, history, Fault
  <2>2. TypeCount
    OBVIOUS
  <2>. HIDE DEF IInv, TypeOK
  <2>. QED
    BY <2>1, <2>2, OrderLength
<1>16. CASE BeginTest
  <2>1. k' = 1 /\ tests' = tests + 1 /\ UNCHANGED <<ops, calls, seeds, faults>>
    BY <1>16 DEF BeginTest
  <2>2. TypeCount
    OBVIOUS
  <2>. HIDE DEF IInv, TypeOK
  <2>. QED
    BY <2>1, <2>2, OrderLength
<1>17. CASE ResetEngine
  BY <1>17 DEF ResetEngine, object, bounds, history
<1>18. CASE ResetEngineFails
  <2>1. faults' \in {faults, faults + 1} /\ UNCHANGED <<k, tests, ops, calls, seeds>>
    BY <1>18 DEF ResetEngineFails, Goto, Fault, object, loop, history
  <2>2. TypeCount
    OBVIOUS
  <2>. HIDE DEF IInv, TypeOK
  <2>. QED
    BY <2>1, <2>2, OrderLength
<1>19. CASE NewTestBatch
  BY <1>19 DEF NewTestBatch, Goto, world, loop
<1>20. CASE PresetsEnqueued
  BY <1>20 DEF PresetsEnqueued, Goto, object, world, loop, bounds, history
<1>21. CASE PresetsRejected
  BY <1>21 DEF PresetsRejected, Goto, object, world, loop, bounds, history
<1>22. CASE Call
  BY <1>22 DEF Call, Goto, world, history
<1>23. CASE ApplyNext
  BY <1>23 DEF ApplyNext, object, bounds, history
<1>24. CASE NextGroup
  BY <1>24 DEF NextGroup, object, world, bounds, history
<1>25. CASE ApplyFails
  <2>1. faults' \in {faults, faults + 1} /\ UNCHANGED <<k, tests, ops, calls, seeds>>
    BY <1>25 DEF ApplyFails, FailToAdd, Raise, object, history, Fault
  <2>2. TypeCount
    OBVIOUS
  <2>. HIDE DEF IInv, TypeOK
  <2>. QED
    BY <2>1, <2>2, OrderLength
<1>26. CASE PendingApplied
  BY <1>26 DEF PendingApplied, Goto, object, world, loop, bounds, history
<1>27. CASE EnsureService
  BY <1>27 DEF EnsureService, Raise, object, world, loop, bounds, history
<1>28. CASE Send
  BY <1>28 DEF Send, Goto, object, loop, bounds
<1>29. CASE SendFails
  <2>1. faults' \in {faults, faults + 1} /\ UNCHANGED <<k, tests, ops, calls, seeds>>
    BY <1>29 DEF SendFails, Fault, Raise, object, world, loop, history
  <2>2. TypeCount
    OBVIOUS
  <2>. HIDE DEF IInv, TypeOK
  <2>. QED
    BY <2>1, <2>2, OrderLength
<1>30. CASE EndTest
  BY <1>30 DEF EndTest, Goto, object, world, loop, bounds, history
<1>31. ASSUME NEW op \in Ops, EnqueuePreset(op) PROVE TypeCount'
  BY <1>31 DEF EnqueuePreset, Expect, Enqueue, world, loop
<1>32. ASSUME NEW op \in Ops, Declare(op) PROVE TypeCount'
  BY <1>32 DEF Declare, Expect, Enqueue, world, loop
<1>33. ASSUME NEW op \in Ops, DeclareOnKeptView(op) PROVE TypeCount'
  BY <1>33 DEF DeclareOnKeptView, Expect, object, world, loop
<1>34. CASE Finalize
  BY <1>34 DEF Finalize, Goto, object, world, loop, bounds, history
<1>35. CASE StopInstance
  <2>1. k' = Len(Order) /\ faults' \in {faults, faults + 1} /\ UNCHANGED <<tests, ops, calls, seeds>>
    BY <1>35 DEF StopInstance, Goto, TryRemove, Fault
  <2>2. TypeCount
    OBVIOUS
  <2>. HIDE DEF IInv, TypeOK
  <2>. QED
    BY <2>1, <2>2, OrderLength
<1>36. CASE StopEngine
  <2>1. k >= 1 /\ k' = k - 1 /\ faults' \in {faults, faults + 1} /\ UNCHANGED <<tests, ops, calls, seeds>>
    BY <1>36 DEF StopEngine, TryRemove, Fault
  <2>2. TypeCount
    OBVIOUS
  <2>. HIDE DEF IInv, TypeOK
  <2>. QED
    BY <2>1, <2>2, OrderLength
<1>37. CASE EnginesStopped
  BY <1>37 DEF EnginesStopped, Goto, object, world, loop, bounds, history
<1>38. CASE RemoveNetwork
  <2>1. faults' \in {faults, faults + 1} /\ UNCHANGED <<k, tests, ops, calls, seeds>>
    BY <1>38 DEF RemoveNetwork, Goto, TryRemove, loop, Fault
  <2>2. TypeCount
    OBVIOUS
  <2>. HIDE DEF IInv, TypeOK
  <2>. QED
    BY <2>1, <2>2, OrderLength
<1>39. CASE InstanceDies
  BY <1>39 DEF InstanceDies, Fault, object, loop, history
<1>40. CASE InterruptStart
  BY <1>40 DEF InterruptStart, object, loop, bounds, history
<1>41. CASE InterruptTest
  BY <1>41 DEF InterruptTest, world, loop, bounds, history
<1>42. CASE InterruptStop
  BY <1>42 DEF InterruptStop, object, world, loop, bounds, history
<1>43. CASE Reap
  BY <1>43 DEF Reap, object, loop, bounds, history
<1>44. CASE UNCHANGED vars
  BY <1>44 DEF vars
<1>45. ASSUME NEW op \in Ops, DeclareAtOnce(op) PROVE TypeCount'
  BY <1>45 DEF DeclareAtOnce, AtOnce, AddToBaseline, Expect, loop
<1>46. ASSUME NEW op \in Ops, DeclareAtOnceFails(op) PROVE TypeCount'
  <2>1. /\ ops' = ops + 1 /\ faults' \in {faults, faults + 1}
        /\ UNCHANGED <<k, tests, calls, seeds>>
    BY <1>46 DEF DeclareAtOnceFails, FailToAdd, loop, Fault
  <2>2. TypeCount
    OBVIOUS
  <2>. HIDE DEF IInv, TypeOK
  <2>. QED
    BY <2>1, <2>2, OrderLength
<1>. HIDE DEF IInv, TypeOK, TypeCount
<1>. QED
  BY <1>1, <1>2, <1>3, <1>4, <1>5, <1>6, <1>7, <1>8, <1>9, <1>10, <1>11,
     <1>12, <1>13, <1>14, <1>15, <1>16, <1>17, <1>18, <1>19, <1>20, <1>21,
     <1>22, <1>23, <1>24, <1>25, <1>26, <1>27, <1>28, <1>29, <1>30, <1>31,
     <1>32, <1>33, <1>34, <1>35, <1>36, <1>37, <1>38, <1>39, <1>40, <1>41,
     <1>42, <1>43, <1>44, <1>45, <1>46 DEF Next, Session, Starting, Seeding, Testing,
     Stopping, Interrupts

-----------------------------------------------------------------------------
(***************************************************************************)
(* Every step keeps the invariant.                                         *)
(***************************************************************************)
(* Ownership survives every step, and so does what it is for.              *)
LEMMA OwnStep ==
  ASSUME IInv, [Next]_vars
  PROVE  (OwnInv /\ StopRemovesAll)'
<1>. USE DEF IInv, OwnInv, OrderInv, StopRemovesAll, NothingButRefused, TypeOK, StartSteps, TestSteps, StopSteps
<1>1. CASE CreateNetwork
  BY <1>1, OrderFacts DEF CreateNetwork, Goto, loop, bounds, history
<1>2. CASE CreateNetworkFails
  BY <1>2 DEF CreateNetworkFails, Goto, Fault, world, loop, history
<1>3. CASE StartEngine
  <2>1. Order[k] \in Services /\ Order[k] # "instance" /\ Order[k] # "network"
    BY <1>3, OrderFacts DEF StartEngine
  <2>2. /\ pc = "engines" /\ pc' = pc
        /\ present' = present \cup {Order[k]} /\ started' = started \cup {Order[k]}
        /\ UNCHANGED <<netHandle, instHandle, stuck>>
    BY <1>3 DEF StartEngine, bounds, history
  <2>. QED
    BY <2>1, <2>2
<1>4. CASE StartEngineFails
  BY <1>4 DEF StartEngineFails, Fault, object, loop
<1>5. CASE AddressFails
  BY <1>5 DEF AddressFails, Goto, Fault, object, world, loop, history
<1>6. CASE EnginesStarted
  BY <1>6 DEF EnginesStarted, Goto, object, world, loop, bounds, history
<1>7. CASE StartInstance
  BY <1>7, OrderFacts DEF StartInstance, Goto, loop, bounds, history
<1>8. CASE StartInstanceFails
  <2>1. /\ pc = "instance" /\ pc' = "stop instance"
        /\ present' = present \/ present' = present \cup {"instance"}
        /\ "instance" \in present' => "instance" \in present \/ instHandle'
        /\ instHandle => instHandle'
        /\ UNCHANGED <<netHandle, started, stuck>>
    <3>1. CASE UNCHANGED <<instHandle, present, alive>>
      BY <1>8, <3>1 DEF StartInstanceFails, Goto, Fault, loop, history
    <3>2. CASE instHandle' = TRUE /\ present' \in {present, present \cup {"instance"}}
      BY <1>8, <3>2 DEF StartInstanceFails, Goto, Fault, loop, history
    <3>. QED
      BY <1>8, <3>1, <3>2 DEF StartInstanceFails, Goto, Fault, loop, history
  <2>2. OwnInv
    OBVIOUS
  <2>. HIDE DEF IInv
  <2>. QED
    BY <2>1, <2>2, OrderFacts
<1>9. CASE Announce
  BY <1>9 DEF Announce, Goto, object, world, loop, bounds, history
<1>10. CASE AnnounceFails
  BY <1>10 DEF AnnounceFails, Goto, object, world, loop, bounds, history
<1>11. CASE OpenBoundary
  BY <1>11 DEF OpenBoundary, world, loop, history
<1>12. CASE CloseBoundary
  BY <1>12 DEF CloseBoundary, world, loop, bounds, history
<1>13. CASE KeepView
  BY <1>13 DEF KeepView, object, world, loop, bounds, history
<1>14. ASSUME NEW op \in Ops, Seed(op) PROVE (OwnInv /\ StopRemovesAll)'
  BY <1>14 DEF Seed, AddToBaseline, loop, history
<1>15. ASSUME NEW op \in Ops, SeedFails(op) PROVE (OwnInv /\ StopRemovesAll)'
  BY <1>15 DEF SeedFails, FailToAdd, loop, history, Fault
<1>16. CASE BeginTest
  BY <1>16 DEF BeginTest, Goto, object, world, history
<1>17. CASE ResetEngine
  BY <1>17 DEF ResetEngine, object, bounds, history
<1>18. CASE ResetEngineFails
  BY <1>18 DEF ResetEngineFails, Goto, Fault, object, loop, history
<1>19. CASE NewTestBatch
  BY <1>19 DEF NewTestBatch, Goto, world, loop
<1>20. CASE PresetsEnqueued
  BY <1>20 DEF PresetsEnqueued, Goto, object, world, loop, bounds, history
<1>21. CASE PresetsRejected
  BY <1>21 DEF PresetsRejected, Goto, object, world, loop, bounds, history
<1>22. CASE Call
  BY <1>22 DEF Call, Goto, world, history
<1>23. CASE ApplyNext
  BY <1>23 DEF ApplyNext, object, bounds, history
<1>24. CASE NextGroup
  BY <1>24 DEF NextGroup, object, world, bounds, history
<1>25. CASE ApplyFails
  BY <1>25 DEF ApplyFails, FailToAdd, Raise, object, history, Fault
<1>26. CASE PendingApplied
  BY <1>26 DEF PendingApplied, Goto, object, world, loop, bounds, history
<1>27. CASE EnsureService
  BY <1>27 DEF EnsureService, Raise, object, world, loop, bounds, history
<1>28. CASE Send
  BY <1>28 DEF Send, Goto, object, loop, bounds
<1>29. CASE SendFails
  BY <1>29 DEF SendFails, Fault, Raise, object, world, loop, history
<1>30. CASE EndTest
  BY <1>30 DEF EndTest, Goto, object, world, loop, bounds, history
<1>31. ASSUME NEW op \in Ops, EnqueuePreset(op) PROVE (OwnInv /\ StopRemovesAll)'
  BY <1>31 DEF EnqueuePreset, Expect, Enqueue, world, loop
<1>32. ASSUME NEW op \in Ops, Declare(op) PROVE (OwnInv /\ StopRemovesAll)'
  BY <1>32 DEF Declare, Expect, Enqueue, world, loop
<1>33. ASSUME NEW op \in Ops, DeclareOnKeptView(op) PROVE (OwnInv /\ StopRemovesAll)'
  BY <1>33 DEF DeclareOnKeptView, Expect, object, world, loop
<1>34. CASE Finalize
  BY <1>34 DEF Finalize, Goto, object, world, loop, bounds, history
<1>35. CASE StopInstance
  <2>1. /\ pc = "stop instance" /\ pc' = "stop engines"
        /\ present' \subseteq present /\ stuck \subseteq stuck'
        /\ instHandle /\ "instance" \in present' => "instance" \in stuck'
        /\ UNCHANGED <<netHandle, started>>
    BY <1>35 DEF StopInstance, Goto, TryRemove, Fault
  <2>2. OwnInv
    OBVIOUS
  <2>3. k' = Len(Order)
    BY <1>35 DEF StopInstance
  <2>. HIDE DEF IInv
  <2>4. k' <= Len(Order) /\ \A i \in 1..Len(Order) : ~(i > k')
    BY <2>3, OrderLength
  <2>. QED
    BY <2>1, <2>2, <2>4
<1>36. CASE StopEngine
  <2>1. /\ pc = "stop engines" /\ pc' = pc
        /\ present' \subseteq present /\ stuck \subseteq stuck'
        /\ started' = started \ {Order[k]}
        /\ Order[k] \in started /\ Order[k] \in present' => Order[k] \in stuck'
        /\ UNCHANGED <<netHandle, instHandle>>
    BY <1>36 DEF StopEngine, TryRemove, Fault
  <2>2. k >= 1 /\ k' = k - 1
    BY <1>36 DEF StopEngine
  <2>3. k <= Len(Order)
    BY <2>1
  <2>4. OwnInv
    OBVIOUS
  <2>5. k \in 0..Len(Order) + 1
    OBVIOUS
  <2>. HIDE DEF IInv
  <2>6. k \in 1..Len(Order) /\ k' <= Len(Order)
    BY <2>2, <2>3, <2>5, OrderLength
  <2>7. \A i \in 1..Len(Order) : i > k' => i = k \/ i > k
    BY <2>2, <2>6, OrderLength
  <2>8. Order[k] \in Services
    BY <2>6, OrderFacts
  <2>9. \A s \in Services : s \in present' => s \in started' \cup stuck'
    BY <2>1, <2>4
  <2>10. \A i \in 1..Len(Order) : i > k' /\ Order[i] \in present' => Order[i] \in stuck'
    <3>. SUFFICES ASSUME NEW i \in 1..Len(Order), i > k', Order[i] \in present'
                  PROVE  Order[i] \in stuck'
      OBVIOUS
    <3>1. CASE i = k
      BY <2>1, <2>8, <2>9, <3>1
    <3>2. CASE i > k
      BY <2>1, <2>4, <3>2
    <3>. QED
      BY <2>7, <3>1, <3>2
  <2>. QED
    BY <2>1, <2>4, <2>6, <2>9, <2>10
<1>37. CASE EnginesStopped
  <2>1. /\ pc = "stop engines" /\ pc' = "stop network"
        /\ UNCHANGED <<present, stuck, netHandle, instHandle, started>>
    BY <1>37 DEF EnginesStopped, Goto, object, world, loop, bounds, history
  <2>2. OwnInv /\ present \subseteq Services \cup {"instance", "network"}
    OBVIOUS
  <2>3. k = 0
    BY <1>37 DEF EnginesStopped
  <2>. HIDE DEF IInv
  <2>4. \A i \in 1..Len(Order) : i > k
    BY <2>3, OrderLength
  <2>5. \A i \in 1..Len(Order) : Order[i] \in present => Order[i] \in stuck
    BY <2>1, <2>2, <2>4
  <2>6. \A s \in Services : s \in present => s \in stuck
    BY <2>5, OrderFacts
  <2>7. present \ {"network"} \subseteq stuck
    BY <2>1, <2>2, <2>6
  <2>. QED
    BY <2>1, <2>2, <2>6, <2>7
<1>38. CASE RemoveNetwork
  BY <1>38 DEF RemoveNetwork, Goto, TryRemove, loop, Fault
<1>39. CASE InstanceDies
  BY <1>39 DEF InstanceDies, Fault, object, loop, history
<1>40. CASE InterruptStart
  BY <1>40 DEF InterruptStart, object, loop, bounds, history
<1>41. CASE InterruptTest
  BY <1>41 DEF InterruptTest, world, loop, bounds, history
<1>42. CASE InterruptStop
  BY <1>42 DEF InterruptStop, object, world, loop, bounds, history
<1>43. CASE Reap
  BY <1>43 DEF Reap, object, loop, bounds, history
<1>44. CASE UNCHANGED vars
  BY <1>44 DEF vars
<1>45. ASSUME NEW op \in Ops, DeclareAtOnce(op) PROVE (OwnInv /\ StopRemovesAll)'
  BY <1>45 DEF DeclareAtOnce, AtOnce, AddToBaseline, Expect, loop
<1>46. ASSUME NEW op \in Ops, DeclareAtOnceFails(op) PROVE (OwnInv /\ StopRemovesAll)'
  BY <1>46 DEF DeclareAtOnceFails, AtOnce, FailToAdd, Fault, loop
<1>. HIDE DEF IInv, OwnInv, OrderInv, StopRemovesAll, NothingButRefused, TypeOK, StartSteps, TestSteps, StopSteps
<1>. QED
  BY <1>1, <1>2, <1>3, <1>4, <1>5, <1>6, <1>7, <1>8, <1>9, <1>10, <1>11,
     <1>12, <1>13, <1>14, <1>15, <1>16, <1>17, <1>18, <1>19, <1>20, <1>21,
     <1>22, <1>23, <1>24, <1>25, <1>26, <1>27, <1>28, <1>29, <1>30, <1>31,
     <1>32, <1>33, <1>34, <1>35, <1>36, <1>37, <1>38, <1>39, <1>40, <1>41,
     <1>42, <1>43, <1>44, <1>45, <1>46 DEF Next, Session, Starting, Seeding, Testing,
     Stopping, Interrupts

(* So does the order of the services and the instance.                     *)
LEMMA OrderStep ==
  ASSUME IInv, [Next]_vars
  PROVE  (OrderInv /\ InstanceHasServices)'
<1>. USE DEF IInv, OrderInv, InstanceHasServices, OwnInv, TypeOK, StartSteps, TestSteps, StopSteps
<1>1. CASE CreateNetwork
  <2>1. /\ pc = "new" /\ pc' = "engines" /\ k' = k /\ alive' = alive
        /\ stuck' = stuck /\ instHandle' = instHandle
    BY <1>1 DEF CreateNetwork, Goto, loop, bounds, history
  <2>2. ~alive /\ k = 1
    BY <2>1
  <2>. HIDE DEF IInv
  <2>3. \A i \in 1..Len(Order) : ~(i < k')
    BY <2>1, <2>2, OrderLength
  <2>. QED
    BY <2>1, <2>2, <2>3
<1>2. CASE CreateNetworkFails
  BY <1>2 DEF CreateNetworkFails, Goto, Fault, world, loop, history
<1>3. CASE StartEngine
  BY <1>3, OrderFacts, OrderLength DEF StartEngine, bounds, history
<1>4. CASE StartEngineFails
  BY <1>4 DEF StartEngineFails, Fault, object, loop
<1>5. CASE AddressFails
  BY <1>5 DEF AddressFails, Goto, Fault, object, world, loop, history
<1>6. CASE EnginesStarted
  <2>1. /\ pc = "engines" /\ pc' = "instance"
        /\ UNCHANGED <<present, stuck, alive, instHandle, k>>
    BY <1>6 DEF EnginesStarted, Goto, object, world, loop, bounds, history
  <2>2. OrderInv /\ InstanceHasServices
    OBVIOUS
  <2>3. k > Len(Order) /\ k \in 0..Len(Order) + 1
    BY <1>6 DEF EnginesStarted
  <2>. HIDE DEF IInv
  <2>4. \A i \in 1..Len(Order) : i < k
    BY <2>3, OrderLength
  <2>5. \A i \in 1..Len(Order) : Order[i] \in present
    BY <2>1, <2>2, <2>4
  <2>6. Services \subseteq present
    BY <2>5, OrderFacts
  <2>. QED
    BY <2>1, <2>2, <2>6
<1>7. CASE StartInstance
  BY <1>7 DEF StartInstance, Goto, loop, bounds, history
<1>8. CASE StartInstanceFails
  <2>1. /\ pc = "instance" /\ pc' = "stop instance"
        /\ present \subseteq present'
        /\ alive' => alive \/ (instHandle' /\ "instance" \in present')
        /\ stuck' = stuck
    <3>1. CASE UNCHANGED <<instHandle, present, alive>>
      BY <1>8, <3>1 DEF StartInstanceFails, Goto, Fault, loop, history
    <3>2. CASE /\ instHandle' = TRUE /\ present' \in {present, present \cup {"instance"}}
               /\ alive' \in BOOLEAN /\ (alive' => "instance" \in present')
      BY <1>8, <3>2 DEF StartInstanceFails, Goto, Fault, loop, history
    <3>. QED
      BY <1>8, <3>1, <3>2 DEF StartInstanceFails, Goto, Fault, loop, history
  <2>2. Services \subseteq present /\ ~alive
    BY <2>1
  <2>. QED
    BY <2>1, <2>2
<1>9. CASE Announce
  BY <1>9 DEF Announce, Goto, object, world, loop, bounds, history
<1>10. CASE AnnounceFails
  BY <1>10 DEF AnnounceFails, Goto, object, world, loop, bounds, history
<1>11. CASE OpenBoundary
  BY <1>11 DEF OpenBoundary, world, loop, history
<1>12. CASE CloseBoundary
  BY <1>12 DEF CloseBoundary, world, loop, bounds, history
<1>13. CASE KeepView
  BY <1>13 DEF KeepView, object, world, loop, bounds, history
<1>14. ASSUME NEW op \in Ops, Seed(op) PROVE (OrderInv /\ InstanceHasServices)'
  BY <1>14 DEF Seed, AddToBaseline, loop, history
<1>15. ASSUME NEW op \in Ops, SeedFails(op) PROVE (OrderInv /\ InstanceHasServices)'
  BY <1>15 DEF SeedFails, FailToAdd, loop, history, Fault
<1>16. CASE BeginTest
  <2>1. /\ pc = "between" /\ pc' = "clear" /\ k' = 1
        /\ UNCHANGED <<instHandle, started, present, alive, stuck>>
    BY <1>16 DEF BeginTest, Goto, object, world, history
  <2>. QED
    BY <2>1
<1>17. CASE ResetEngine
  BY <1>17 DEF ResetEngine, object, bounds, history
<1>18. CASE ResetEngineFails
  BY <1>18 DEF ResetEngineFails, Goto, Fault, object, loop, history
<1>19. CASE NewTestBatch
  BY <1>19 DEF NewTestBatch, Goto, world, loop
<1>20. CASE PresetsEnqueued
  BY <1>20 DEF PresetsEnqueued, Goto, object, world, loop, bounds, history
<1>21. CASE PresetsRejected
  BY <1>21 DEF PresetsRejected, Goto, object, world, loop, bounds, history
<1>22. CASE Call
  BY <1>22 DEF Call, Goto, world, history
<1>23. CASE ApplyNext
  BY <1>23 DEF ApplyNext, object, bounds, history
<1>24. CASE NextGroup
  BY <1>24 DEF NextGroup, object, world, bounds, history
<1>25. CASE ApplyFails
  BY <1>25 DEF ApplyFails, FailToAdd, Raise, object, history, Fault
<1>26. CASE PendingApplied
  BY <1>26 DEF PendingApplied, Goto, object, world, loop, bounds, history
<1>27. CASE EnsureService
  BY <1>27 DEF EnsureService, Raise, object, world, loop, bounds, history
<1>28. CASE Send
  BY <1>28 DEF Send, Goto, object, loop, bounds
<1>29. CASE SendFails
  BY <1>29 DEF SendFails, Fault, Raise, object, world, loop, history
<1>30. CASE EndTest
  BY <1>30 DEF EndTest, Goto, object, world, loop, bounds, history
<1>31. ASSUME NEW op \in Ops, EnqueuePreset(op) PROVE (OrderInv /\ InstanceHasServices)'
  BY <1>31 DEF EnqueuePreset, Expect, Enqueue, world, loop
<1>32. ASSUME NEW op \in Ops, Declare(op) PROVE (OrderInv /\ InstanceHasServices)'
  BY <1>32 DEF Declare, Expect, Enqueue, world, loop
<1>33. ASSUME NEW op \in Ops, DeclareOnKeptView(op) PROVE (OrderInv /\ InstanceHasServices)'
  BY <1>33 DEF DeclareOnKeptView, Expect, object, world, loop
<1>34. CASE Finalize
  BY <1>34 DEF Finalize, Goto, object, world, loop, bounds, history
<1>35. CASE StopInstance
  <2>1. pc = "stop instance" /\ pc' = "stop engines"
    BY <1>35 DEF StopInstance, Goto
  <2>2. alive' => alive /\ "instance" \in present'
    BY <1>35 DEF StopInstance
  <2>3. alive => instHandle \/ "instance" \in stuck
    BY <2>1
  <2>4. alive' => "instance" \in stuck'
    <3>1. CASE instHandle
      <4>1. TryRemove("instance")
        BY <1>35, <3>1 DEF StopInstance
      <4>. QED
        BY <2>2, <4>1 DEF TryRemove
    <3>2. CASE ~instHandle
      <4>1. stuck' = stuck
        BY <1>35, <3>2 DEF StopInstance
      <4>. QED
        BY <2>2, <2>3, <3>2, <4>1
    <3>. QED
      BY <3>1, <3>2
  <2>. HIDE DEF IInv, OwnInv, TypeOK
  <2>. QED
    BY <2>1, <2>2, <2>4
<1>36. CASE StopEngine
  <2>1. /\ pc = "stop engines" /\ pc' = pc /\ alive' = alive
        /\ k >= 1 /\ k <= Len(Order) /\ k \in 0..Len(Order) + 1
    BY <1>36 DEF StopEngine
  <2>2. alive => "instance" \in stuck /\ "instance" \in present
    BY <2>1
  <2>. HIDE DEF IInv, OwnInv, TypeOK, OrderInv, InstanceHasServices, StartSteps, TestSteps, StopSteps
  <2>3. k \in 1..Len(Order)
    <3>1. 1 <= k /\ k <= Len(Order)
      BY <2>1
    <3>2. k \in 0..Len(Order) + 1
      BY <2>1
    <3>. QED
      BY <3>1, <3>2, OrderLength
  <2>4. Order[k] # "instance"
    BY <2>3, OrderFacts
  <2>5. present \ {Order[k]} \subseteq present' /\ stuck \subseteq stuck'
    <3>1. CASE Order[k] \in started
      <4>1. TryRemove(Order[k])
        BY <1>36, <3>1 DEF StopEngine
      <4>. QED
        BY <4>1 DEF TryRemove
    <3>2. CASE Order[k] \notin started
      BY <1>36, <3>2 DEF StopEngine
    <3>. QED
      BY <3>1, <3>2
  <2>. USE DEF OrderInv, InstanceHasServices, StartSteps, TestSteps
  <2>. QED
    BY <2>1, <2>2, <2>4, <2>5
<1>37. CASE EnginesStopped
  BY <1>37 DEF EnginesStopped, Goto, object, world, loop, bounds, history
<1>38. CASE RemoveNetwork
  BY <1>38 DEF RemoveNetwork, Goto, TryRemove, loop, Fault
<1>39. CASE InstanceDies
  BY <1>39 DEF InstanceDies, Fault, object, loop, history
<1>40. CASE InterruptStart
  BY <1>40 DEF InterruptStart, object, loop, bounds, history
<1>41. CASE InterruptTest
  BY <1>41 DEF InterruptTest, world, loop, bounds, history
<1>42. CASE InterruptStop
  BY <1>42 DEF InterruptStop, object, world, loop, bounds, history
<1>43. CASE Reap
  BY <1>43 DEF Reap, object, loop, bounds, history
<1>44. CASE UNCHANGED vars
  BY <1>44 DEF vars
<1>45. ASSUME NEW op \in Ops, DeclareAtOnce(op) PROVE (OrderInv /\ InstanceHasServices)'
  BY <1>45 DEF DeclareAtOnce, AtOnce, AddToBaseline, Expect, loop
<1>46. ASSUME NEW op \in Ops, DeclareAtOnceFails(op) PROVE (OrderInv /\ InstanceHasServices)'
  BY <1>46 DEF DeclareAtOnceFails, AtOnce, FailToAdd, Fault, loop
<1>. HIDE DEF IInv, OrderInv, InstanceHasServices, OwnInv, TypeOK, StartSteps, TestSteps, StopSteps
<1>. QED
  BY <1>1, <1>2, <1>3, <1>4, <1>5, <1>6, <1>7, <1>8, <1>9, <1>10, <1>11,
     <1>12, <1>13, <1>14, <1>15, <1>16, <1>17, <1>18, <1>19, <1>20, <1>21,
     <1>22, <1>23, <1>24, <1>25, <1>26, <1>27, <1>28, <1>29, <1>30, <1>31,
     <1>32, <1>33, <1>34, <1>35, <1>36, <1>37, <1>38, <1>39, <1>40, <1>41,
     <1>42, <1>43, <1>44, <1>45, <1>46 DEF Next, Session, Starting, Seeding, Testing,
     Stopping, Interrupts

(* A reset reaches every service before the batch of the test is made.     *)
LEMMA ResetStep ==
  ASSUME IInv, [Next]_vars
  PROVE  (ResetInv /\ TestStartsAtBaseline)'
<1>. USE DEF IInv, ResetInv, TestStartsAtBaseline, TypeOK, StartSteps, TestSteps, StopSteps
<1>1. CASE CreateNetwork
  BY <1>1 DEF CreateNetwork, Goto, loop, bounds, history
<1>2. CASE CreateNetworkFails
  BY <1>2 DEF CreateNetworkFails, Goto, Fault, world, loop, history
<1>3. CASE StartEngine
  BY <1>3 DEF StartEngine, bounds, history
<1>4. CASE StartEngineFails
  BY <1>4 DEF StartEngineFails, Fault, object, loop
<1>5. CASE AddressFails
  BY <1>5 DEF AddressFails, Goto, Fault, object, world, loop, history
<1>6. CASE EnginesStarted
  BY <1>6 DEF EnginesStarted, Goto, object, world, loop, bounds, history
<1>7. CASE StartInstance
  BY <1>7 DEF StartInstance, Goto, loop, bounds, history
<1>8. CASE StartInstanceFails
  BY <1>8 DEF StartInstanceFails, Goto, Fault, loop, history
<1>9. CASE Announce
  BY <1>9 DEF Announce, Goto, object, world, loop, bounds, history
<1>10. CASE AnnounceFails
  BY <1>10 DEF AnnounceFails, Goto, object, world, loop, bounds, history
<1>11. CASE OpenBoundary
  BY <1>11 DEF OpenBoundary, world, loop, history
<1>12. CASE CloseBoundary
  BY <1>12 DEF CloseBoundary, world, loop, bounds, history
<1>13. CASE KeepView
  BY <1>13 DEF KeepView, object, world, loop, bounds, history
<1>14. ASSUME NEW op \in Ops, Seed(op) PROVE (ResetInv /\ TestStartsAtBaseline)'
  BY <1>14 DEF Seed, AddToBaseline, loop, history
<1>15. ASSUME NEW op \in Ops, SeedFails(op) PROVE (ResetInv /\ TestStartsAtBaseline)'
  BY <1>15 DEF SeedFails, FailToAdd, loop, history, Fault
<1>16. CASE BeginTest
  <2>1. pc' = "clear" /\ k' = 1
    BY <1>16 DEF BeginTest, Goto
  <2>. HIDE DEF IInv, TypeOK
  <2>2. \A i \in 1..Len(Order) : ~(i < k')
    BY <2>1, OrderLength
  <2>. QED
    BY <2>1, <2>2
<1>17. CASE ResetEngine
  BY <1>17, OrderFacts, OrderLength DEF ResetEngine, object, bounds, history
<1>18. CASE ResetEngineFails
  BY <1>18 DEF ResetEngineFails, Goto, Fault, object, loop, history
<1>19. CASE NewTestBatch
  <2>1. /\ pc = "clear" /\ pc' = "presets" /\ k > Len(Order)
        /\ UNCHANGED <<content, journal, boundary>>
    BY <1>19 DEF NewTestBatch, Goto, world, loop
  <2>2. \A s \in Services : content[s] = journal[s]
    BY <2>1, OrderLength, OrderFacts
  <2>3. content = [s \in Services |-> content[s]] /\ journal = [s \in Services |-> journal[s]]
    OBVIOUS
  <2>4. content = journal
    BY <2>2, <2>3
  <2>. QED
    BY <2>1, <2>4
<1>20. CASE PresetsEnqueued
  BY <1>20 DEF PresetsEnqueued, Goto, object, world, loop, bounds, history
<1>21. CASE PresetsRejected
  BY <1>21 DEF PresetsRejected, Goto, object, world, loop, bounds, history
<1>22. CASE Call
  BY <1>22 DEF Call, Goto, world, history
<1>23. CASE ApplyNext
  BY <1>23 DEF ApplyNext, object, bounds, history
<1>24. CASE NextGroup
  BY <1>24 DEF NextGroup, object, world, bounds, history
<1>25. CASE ApplyFails
  BY <1>25 DEF ApplyFails, FailToAdd, Raise, object, history, Fault
<1>26. CASE PendingApplied
  BY <1>26 DEF PendingApplied, Goto, object, world, loop, bounds, history
<1>27. CASE EnsureService
  BY <1>27 DEF EnsureService, Raise, object, world, loop, bounds, history
<1>28. CASE Send
  BY <1>28 DEF Send, Goto, object, loop, bounds
<1>29. CASE SendFails
  BY <1>29 DEF SendFails, Fault, Raise, object, world, loop, history
<1>30. CASE EndTest
  BY <1>30 DEF EndTest, Goto, object, world, loop, bounds, history
<1>31. ASSUME NEW op \in Ops, EnqueuePreset(op) PROVE (ResetInv /\ TestStartsAtBaseline)'
  BY <1>31 DEF EnqueuePreset, Expect, Enqueue, world, loop
<1>32. ASSUME NEW op \in Ops, Declare(op) PROVE (ResetInv /\ TestStartsAtBaseline)'
  BY <1>32 DEF Declare, Expect, Enqueue, world, loop
<1>33. ASSUME NEW op \in Ops, DeclareOnKeptView(op) PROVE (ResetInv /\ TestStartsAtBaseline)'
  BY <1>33 DEF DeclareOnKeptView, Expect, object, world, loop
<1>34. CASE Finalize
  BY <1>34 DEF Finalize, Goto, object, world, loop, bounds, history
<1>35. CASE StopInstance
  BY <1>35 DEF StopInstance, Goto, TryRemove, Fault
<1>36. CASE StopEngine
  BY <1>36 DEF StopEngine, TryRemove, Fault
<1>37. CASE EnginesStopped
  BY <1>37 DEF EnginesStopped, Goto, object, world, loop, bounds, history
<1>38. CASE RemoveNetwork
  BY <1>38 DEF RemoveNetwork, Goto, TryRemove, loop, Fault
<1>39. CASE InstanceDies
  BY <1>39 DEF InstanceDies, Fault, object, loop, history
<1>40. CASE InterruptStart
  BY <1>40 DEF InterruptStart, object, loop, bounds, history
<1>41. CASE InterruptTest
  BY <1>41 DEF InterruptTest, world, loop, bounds, history
<1>42. CASE InterruptStop
  BY <1>42 DEF InterruptStop, object, world, loop, bounds, history
<1>43. CASE Reap
  BY <1>43 DEF Reap, object, loop, bounds, history
<1>44. CASE UNCHANGED vars
  BY <1>44 DEF vars
<1>45. ASSUME NEW op \in Ops, DeclareAtOnce(op) PROVE (ResetInv /\ TestStartsAtBaseline)'
  BY <1>45, SandboxAssumption DEF DeclareAtOnce, AtOnce, AddToBaseline, Expect, loop
<1>46. ASSUME NEW op \in Ops, DeclareAtOnceFails(op) PROVE (ResetInv /\ TestStartsAtBaseline)'
  BY <1>46 DEF DeclareAtOnceFails, AtOnce, FailToAdd, Fault, loop
<1>. HIDE DEF IInv, ResetInv, TestStartsAtBaseline, TypeOK, StartSteps, TestSteps, StopSteps
<1>. QED
  BY <1>1, <1>2, <1>3, <1>4, <1>5, <1>6, <1>7, <1>8, <1>9, <1>10, <1>11,
     <1>12, <1>13, <1>14, <1>15, <1>16, <1>17, <1>18, <1>19, <1>20, <1>21,
     <1>22, <1>23, <1>24, <1>25, <1>26, <1>27, <1>28, <1>29, <1>30, <1>31,
     <1>32, <1>33, <1>34, <1>35, <1>36, <1>37, <1>38, <1>39, <1>40, <1>41,
     <1>42, <1>43, <1>44, <1>45, <1>46 DEF Next, Session, Starting, Seeding, Testing,
     Stopping, Interrupts

(* A new session satisfies the invariant: nothing exists yet.              *)
LEMMA InitIInv == Init => IInv
<1>. SUFFICES ASSUME Init PROVE IInv
  OBVIOUS
<1>1. TypeData
  BY EmptySeq DEF Init, TypeData
<1>2. TypeState
  <2>1. Order[1] \in Services
    BY SandboxAssumption, EmptySeq, LenProperties, OrderFacts
  <2>. QED
    BY <2>1 DEF Init, TypeState, StartSteps
<1>3. TypeCount
  BY OrderLength DEF Init, TypeCount
<1>4. TypeOK
  BY <1>1, <1>2, <1>3 DEF TypeOK, TypeData, TypeState, TypeCount
<1>5. OwnInv /\ OrderInv /\ ResetInv
  BY DEF Init, OwnInv, OrderInv, ResetInv, TestSteps, StopSteps
<1>6. StopRemovesAll /\ InstanceHasServices /\ TestStartsAtBaseline
  BY DEF Init, StopRemovesAll, InstanceHasServices, TestStartsAtBaseline
<1>. QED
  BY <1>4, <1>5, <1>6 DEF IInv

(* Every reachable state of the session satisfies the invariant.           *)
THEOREM SandboxInvariant == Spec => []IInv
<1>1. IInv /\ [Next]_vars => IInv'
  <2>. SUFFICES ASSUME IInv, [Next]_vars PROVE IInv'
    OBVIOUS
  <2>1. TypeOK'
    BY DataTypeStep, StateTypeStep, CountTypeStep
       DEF TypeOK, TypeData, TypeState, TypeCount
  <2>. QED
    BY <2>1, OwnStep, OrderStep, ResetStep DEF IInv
<1>. QED
  BY <1>1, InitIInv, PTL DEF Spec

(* Type correctness of the session, whatever the suite does.               *)
THEOREM SandboxTypeOK == Spec => []TypeOK
BY SandboxInvariant, PTL DEF IInv

(* Sandbox.stop: when stop has run to its end, nothing is left but what    *)
(* the daemon has refused to remove, and the network if one of those is    *)
(* attached to it: for any number of services, failures and interruptions. *)
THEOREM SandboxStop == Spec => []StopRemovesAll
BY SandboxInvariant, PTL DEF IInv

(* Sandbox.start and stop: the instance does not run without the services  *)
(* its env points it to, unless the daemon has refused to remove it.       *)
THEOREM SandboxOrder == Spec => []InstanceHasServices
BY SandboxInvariant, PTL DEF IInv

(* clear: every test body finds in every service exactly what the journal  *)
(* of its engine says, whatever happened in the tests before.              *)
THEOREM SandboxReset == Spec => []TestStartsAtBaseline
BY SandboxInvariant, PTL DEF IInv

-----------------------------------------------------------------------------
(***************************************************************************)
(* What a suite gains by giving up a habit.                                *)
(***************************************************************************)
(* A view is kept only by a suite that keeps views.                        *)
NoneKept == kept = "none"

(* Engines start before the first test begins, and a boundary opens and    *)
(* closes before it in a suite that neither seeds late nor leaves one open. *)
SeededEarly == tests > 0 => ~boundary /\ pc \notin StartSteps

(* Declarations wait in the batch only of a test, and only while no        *)
(* boundary is open.                                                       *)
BatchInv ==
  /\ pc \in TestSteps \ {"between"} => tests > 0
  /\ tests = 0 \/ boundary => batch = <<>>

(* No test has begun in a new session, and nothing is declared.            *)
LEMMA InitSeeded == Init => SeededEarly /\ BatchInv
<1>1. Init => tests = 0 /\ batch = <<>> /\ pc = "new"
  BY DEF Init
<1>2. tests = 0 => ~(tests > 0)
  OBVIOUS
<1>. QED
  BY <1>1, <1>2 DEF SeededEarly, BatchInv, TestSteps

(* The first two survive every step of a suite without the habits that     *)
(* would end them, and a journal changes only while its engine starts or   *)
(* through the batch of an open boundary.                                  *)
LEMMA HabitStep ==
  ASSUME TypeCount, [Next]_vars
  PROVE  /\ "kept view" \notin Habits /\ NoneKept => NoneKept'
         /\ "late seeding" \notin Habits /\ "open boundary" \notin Habits /\ SeededEarly
              => SeededEarly'
         /\ NoneKept /\ journal' # journal => pc = "engines" \/ boundary
<1>. USE DEF Next, Session, Starting, Seeding, Testing, Stopping, Interrupts, CreateNetwork, CreateNetworkFails, StartEngine, StartEngineFails, AddressFails, EnginesStarted, StartInstance, StartInstanceFails, Announce, AnnounceFails, OpenBoundary, CloseBoundary, KeepView, Seed, SeedFails, BeginTest, ResetEngine, ResetEngineFails, NewTestBatch, PresetsEnqueued, PresetsRejected, Call, ApplyNext, NextGroup, ApplyFails, PendingApplied, EnsureService, Send, SendFails, EndTest, EnqueuePreset, Declare, AtOnce, DeclareAtOnce, DeclareAtOnceFails, DeclareOnKeptView, Finalize, StopInstance, StopEngine, EnginesStopped, RemoveNetwork, InstanceDies, InterruptStart, InterruptTest, InterruptStop, Reap, Goto, loop, bounds, history, Fault, world, object, AddToBaseline, FailToAdd, Raise, Expect, Enqueue, TryRemove, vars
<1>1. ASSUME "kept view" \notin Habits, NoneKept PROVE NoneKept'
  BY <1>1 DEF NoneKept
<1>2. ASSUME "late seeding" \notin Habits, "open boundary" \notin Habits, SeededEarly
      PROVE  SeededEarly'
  BY <1>2 DEF SeededEarly, TypeCount, StartSteps, TestSteps, StopSteps
<1>3. ASSUME NoneKept, journal' # journal PROVE pc = "engines" \/ boundary
  BY <1>3 DEF NoneKept
<1>. HIDE DEF Next, vars
<1>. QED
  BY <1>1, <1>2, <1>3

(* A count is zero or positive, and positive once it has been raised.      *)
LEMMA CountFacts ==
  \A n \in Nat : /\ n > 0 <=> n # 0
                 /\ n + 1 > 0 /\ n + 1 # 0
OBVIOUS

(* The batch is empty when a boundary opens before the first test, and     *)
(* stays so while it is open.                                              *)
LEMMA BatchStep ==
  ASSUME TypeOK, NoneKept, BatchInv, "late seeding" \notin Habits, [Next]_vars
  PROVE  BatchInv'
<1>0. tests \in Nat
  BY DEF TypeOK
<1>. USE DEF TestSteps
<1>1. ASSUME UNCHANGED <<batch, tests>>, boundary' => boundary,
             pc' \in TestSteps \ {"between"} => pc \in TestSteps \ {"between"}
      PROVE  BatchInv'
  BY <1>1 DEF BatchInv
<1>2. CASE Starting
  <2>1. pc' \notin TestSteps \ {"between"} /\ UNCHANGED <<batch, tests, boundary>>
    BY <1>2 DEF Starting, CreateNetwork, CreateNetworkFails, StartEngine, StartEngineFails,
       AddressFails, EnginesStarted, StartInstance, StartInstanceFails, Announce,
       AnnounceFails, Goto, object, bounds
  <2>. QED
    BY <1>1, <2>1
<1>3. CASE OpenBoundary
  <2>1. ~(tests > 0)
    BY <1>3 DEF OpenBoundary
  <2>2. tests = 0
    BY <1>0, <2>1, CountFacts
  <2>. QED
    BY <1>3, <2>2 DEF OpenBoundary, BatchInv
<1>4. CASE CloseBoundary \/ KeepView \/ InstanceDies \/ Finalize \/ Stopping \/ Interrupts
             \/ Reap
  <2>1. /\ pc' = pc \/ pc' \notin TestSteps
        /\ boundary' \in {boundary, FALSE} /\ UNCHANGED <<batch, tests>>
    BY <1>4 DEF CloseBoundary, KeepView, InstanceDies, Finalize, Stopping, StopInstance,
       StopEngine, EnginesStopped, RemoveNetwork, Interrupts, InterruptStart,
       InterruptTest, InterruptStop, Reap, Goto, object, bounds
  <2>2. boundary' => boundary
    BY <2>1
  <2>. QED
    BY <1>1, <2>1, <2>2
<1>5. ASSUME NEW op \in Ops, Seed(op) \/ SeedFails(op) PROVE BatchInv'
  <2>1. pc' = "between" /\ boundary' \in {boundary, FALSE} /\ UNCHANGED <<batch, tests>>
    BY <1>5 DEF Seed, SeedFails
  <2>. QED
    BY <1>1, <2>1
<1>6. CASE BeginTest
  <2>1. UNCHANGED <<batch, boundary>>
    BY <1>6 DEF BeginTest, object
  <2>2. tests' = tests + 1
    BY <1>6 DEF BeginTest
  <2>3. tests' > 0 /\ tests' # 0
    BY <1>0, <2>2, CountFacts
  <2>. QED
    BY <2>1, <2>3 DEF BatchInv
<1>7. CASE NewTestBatch \/ Call
  <2>1. /\ batch' = <<>> /\ tests' = tests
        /\ pc \in TestSteps \ {"between"}
    BY <1>7 DEF NewTestBatch, Call, Goto
  <2>. QED
    BY <2>1 DEF BatchInv
<1>8. ASSUME NEW op \in Ops, EnqueuePreset(op) \/ Declare(op) PROVE BatchInv'
  <2>1. /\ pc \in {"presets", "body"} /\ ~boundary
        /\ UNCHANGED <<pc, boundary, tests>>
    BY <1>8 DEF EnqueuePreset, Declare, NoneKept
  <2>2. tests > 0
    BY <2>1 DEF BatchInv
  <2>3. tests # 0
    BY <1>0, <2>2, CountFacts
  <2>. QED
    BY <2>1, <2>2, <2>3 DEF BatchInv
<1>9. ASSUME NEW op \in Ops,
             DeclareAtOnce(op) \/ DeclareAtOnceFails(op) \/ DeclareOnKeptView(op)
      PROVE  BatchInv'
  <2>1. /\ pc' \in {pc, "between"} /\ boundary' \in {boundary, FALSE}
        /\ UNCHANGED <<batch, tests>>
    BY <1>9 DEF DeclareAtOnce, DeclareAtOnceFails, DeclareOnKeptView, object
  <2>2. boundary' => boundary
    BY <2>1
  <2>. QED
    BY <1>1, <2>1, <2>2
<1>10. CASE ResetEngine \/ ResetEngineFails \/ PresetsEnqueued \/ PresetsRejected
              \/ ApplyNext \/ NextGroup \/ ApplyFails \/ PendingApplied
              \/ EnsureService \/ Send \/ SendFails \/ EndTest
  <2>1. /\ pc \in TestSteps \ {"between"} /\ UNCHANGED <<batch, tests, boundary>>
    BY <1>10 DEF ResetEngine, ResetEngineFails, PresetsEnqueued, PresetsRejected, ApplyNext,
       NextGroup, ApplyFails, PendingApplied, EnsureService, Send, SendFails, EndTest,
       Goto, object, bounds
  <2>. QED
    BY <1>1, <2>1
<1>11. CASE UNCHANGED vars
  BY <1>1, <1>11 DEF vars
<1>. QED
  BY <1>2, <1>3, <1>4, <1>5, <1>6, <1>7, <1>8, <1>9, <1>10, <1>11
     DEF Next, Session, Seeding, Testing

(* BaselineBoundary: where no fixture keeps a view, the journals change    *)
(* only while their engines start and while a boundary is open.            *)
THEOREM SandboxFrozen ==
  ASSUME "kept view" \notin Habits
  PROVE  Spec => JournalsFrozenOutsideBoundary
<1>1. Init => NoneKept
  BY DEF Init, NoneKept
<1>2. IInv /\ NoneKept /\ [Next]_vars => NoneKept'
  BY HabitStep DEF IInv, TypeOK, TypeCount
<1>3. IInv /\ NoneKept /\ [Next]_vars
        => [journal' # journal => pc = "engines" \/ boundary]_vars
  BY HabitStep DEF IInv, TypeOK, TypeCount
<1>. QED
  BY <1>1, <1>2, <1>3, SandboxInvariant, PTL
     DEF Spec, JournalsFrozenOutsideBoundary

-----------------------------------------------------------------------------
(***************************************************************************)
(* What a call sees: the declared operations, on their way through batch   *)
(* and todo to the services.                                               *)
(***************************************************************************)
(* The operations of seq on service s are at the places at[1] < at[2] ...  *)
(* at[n], and at no other.                                                 *)
PlacesOf(seq, s, n, at) ==
  /\ \A i, j \in 1..n : i < j => at[i] < at[j]
  /\ \A j \in 1..n : ServiceOf[seq[at[j]]] = s
  /\ \A i \in 1..Len(seq) : ServiceOf[seq[i]] = s => \E j \in 1..n : at[j] = i

(* want is held followed by the operations of seq on s, in their order.    *)
Matches(held, seq, s, want, n, at) ==
  /\ PlacesOf(seq, s, n, at)
  /\ Len(want) = Len(held) + n
  /\ \A i \in 1..Len(held) : want[i] = held[i]
  /\ \A j \in 1..n : want[Len(held) + j] = seq[at[j]]

FollowedBy(held, seq, s, want) ==
  \E n \in Nat : \E at \in [1..n -> 1..Len(seq)] :
    Matches(held, seq, s, want, n, at)

(* What the test has declared is on its way: in the batch, or in what a    *)
(* call has taken of it.                                                   *)
PendingInv ==
  /\ pc \in {"presets", "body"} /\ ~raised =>
       \A s \in Services : FollowedBy(content[s], batch, s, expected[s])
  /\ pc = "apply" =>
       \A s \in Services : FollowedBy(content[s], todo, s, expected[s])
  /\ pc \in {"apply", "ensure", "send"} => ~raised /\ batch = <<>>
  /\ pc \in {"ensure", "send"} => content = expected

(* What follows when there is nothing to follow, and the other way round.  *)
LEMMA FollowedByNothing ==
  ASSUME NEW held \in Seq(Rows), NEW want \in Seq(Rows), NEW s \in Services
  PROVE  FollowedBy(held, <<>>, s, want) <=> want = held
<1>1. Len(held) \in Nat /\ Len(want) \in Nat /\ Len(<<>>) = 0 /\ 0..0 = {0} /\ 1..0 = {}
  BY LenProperties, EmptySeq
<1>2. ASSUME FollowedBy(held, <<>>, s, want) PROVE want = held
  <2>1. PICK n \in Nat : \E at \in [1..n -> 1..Len(<<>>)] :
          Matches(held, <<>>, s, want, n, at)
    BY <1>2 DEF FollowedBy
  <2>2. PICK at \in [1..n -> {}] : Matches(held, <<>>, s, want, n, at)
    BY <1>1, <2>1
  <2>3. ~(1 \in 1..n)
    BY <2>2
  <2>4. n = 0
    BY <2>3
  <2>5. Len(want) = Len(held) /\ \A i \in 1..Len(held) : want[i] = held[i]
    BY <1>1, <2>2, <2>4 DEF Matches
  <2>. QED
    BY <2>5, SeqEqual
<1>3. FollowedBy(held, <<>>, s, held)
  <2>. DEFINE at == [j \in 1..0 |-> 0]
  <2>1. at \in [1..0 -> 1..Len(<<>>)]
    BY <1>1
  <2>2. PlacesOf(<<>>, s, 0, at)
    BY <1>1 DEF PlacesOf
  <2>. HIDE DEF at
  <2>3. Matches(held, <<>>, s, held, 0, at)
    BY <1>1, <2>2 DEF Matches
  <2>4. 0 \in 0..Len(<<>>)
    BY <1>1
  <2>. QED
    BY <2>1, <2>3, <2>4 DEF FollowedBy
<1>. QED
  BY <1>2, <1>3

(* One more operation is declared on the service ...                       *)
LEMMA DeclareHere ==
  ASSUME NEW held \in Seq(Rows), NEW want \in Seq(Rows), NEW seq \in Seq(Ops),
         NEW s \in Services, NEW op \in Ops, ServiceOf[op] = s,
         FollowedBy(held, seq, s, want)
  PROVE  FollowedBy(held, Append(seq, op), s, Append(want, op))
<1>0. PICK n \in Nat : \E at \in [1..n -> 1..Len(seq)] :
        Matches(held, seq, s, want, n, at)
  BY DEF FollowedBy
<1>1. PICK at \in [1..n -> 1..Len(seq)] :
        /\ PlacesOf(seq, s, n, at)
        /\ Len(want) = Len(held) + n
        /\ \A i \in 1..Len(held) : want[i] = held[i]
        /\ \A j \in 1..n : want[Len(held) + j] = seq[at[j]]
  BY <1>0 DEF Matches
<1>2. Len(held) \in Nat /\ Len(want) \in Nat /\ Len(seq) \in Nat
  BY LenProperties
<1>3. /\ Len(Append(seq, op)) = Len(seq) + 1
      /\ \A i \in 1..Len(seq) : Append(seq, op)[i] = seq[i]
      /\ Append(seq, op)[Len(seq) + 1] = op
  BY AppendProperties
<1>4. /\ op \in Rows
      /\ Len(Append(want, op)) = Len(want) + 1
      /\ \A i \in 1..Len(want) : Append(want, op)[i] = want[i]
      /\ Append(want, op)[Len(want) + 1] = op
  BY AppendProperties DEF Rows
<1>. DEFINE m == n + 1
            more == [j \in 1..m |-> IF j = m THEN Len(seq) + 1 ELSE at[j]]
<1>5. m \in Nat /\ more \in [1..m -> 1..Len(Append(seq, op))]
  BY <1>2, <1>3
<1>6. /\ more[m] = Len(seq) + 1 /\ \A j \in 1..n : more[j] = at[j]
      /\ \A j \in 1..m : j = m \/ j \in 1..n
      /\ m \in 1..m /\ n \in Nat /\ \A j \in 1..n : at[j] \in 1..Len(seq) /\ j \in 1..m
  BY <1>2
<1>. HIDE DEF more
<1>7. PlacesOf(Append(seq, op), s, m, more)
  <2>1. ASSUME NEW i \in 1..m, NEW j \in 1..m, i < j PROVE more[i] < more[j]
    <3>1. i \in 1..n /\ more[i] = at[i] /\ at[i] \in 1..Len(seq)
      BY <1>6, <2>1
    <3>2. CASE j = m
      BY <1>2, <1>6, <3>1, <3>2
    <3>3. CASE j \in 1..n
      BY <1>1, <1>6, <2>1, <3>1, <3>3 DEF PlacesOf
    <3>. QED
      BY <1>6, <3>2, <3>3
  <2>2. ASSUME NEW j \in 1..m PROVE ServiceOf[Append(seq, op)[more[j]]] = s
    <3>1. CASE j = m
      BY <1>3, <1>6, <3>1
    <3>2. CASE j \in 1..n
      BY <1>1, <1>3, <1>6, <3>2 DEF PlacesOf
    <3>. QED
      BY <1>6, <3>1, <3>2
  <2>3. ASSUME NEW i \in 1..Len(Append(seq, op)), ServiceOf[Append(seq, op)[i]] = s
        PROVE  \E j \in 1..m : more[j] = i
    <3>1. CASE i = Len(seq) + 1
      BY <1>6, <3>1
    <3>2. CASE i \in 1..Len(seq)
      <4>1. PICK j \in 1..n : at[j] = i
        BY <1>1, <1>3, <2>3, <3>2 DEF PlacesOf
      <4>. QED
        BY <1>6, <4>1
    <3>. QED
      BY <1>2, <1>3, <3>1, <3>2
  <2>. HIDE DEF m
  <2>. QED
    BY <2>1, <2>2, <2>3 DEF PlacesOf
<1>8. Len(Append(want, op)) = Len(held) + m
  BY <1>1, <1>2, <1>4
<1>9. \A i \in 1..Len(held) : Append(want, op)[i] = held[i]
  BY <1>1, <1>2, <1>4
<1>10. \A j \in 1..m : Append(want, op)[Len(held) + j] = Append(seq, op)[more[j]]
  <2>. TAKE j \in 1..m
  <2>1. CASE j = m
    BY <1>1, <1>2, <1>3, <1>4, <1>6, <2>1
  <2>2. CASE j \in 1..n
    <3>1. at[j] \in 1..Len(seq) /\ Len(held) + j \in 1..Len(want)
      BY <1>1, <1>2, <2>2
    <3>. QED
      BY <1>1, <1>3, <1>4, <1>6, <2>2, <3>1
  <2>. QED
    BY <1>6, <2>1, <2>2
<1>. HIDE DEF m
<1>. QED
  BY <1>5, <1>7, <1>8, <1>9, <1>10 DEF FollowedBy, Matches

(* ... or on another one.                                                  *)
LEMMA DeclareElsewhere ==
  ASSUME NEW held \in Seq(Rows), NEW want \in Seq(Rows), NEW seq \in Seq(Ops),
         NEW s \in Services, NEW op \in Ops, ServiceOf[op] # s,
         FollowedBy(held, seq, s, want)
  PROVE  FollowedBy(held, Append(seq, op), s, want)
<1>0. PICK n \in Nat : \E at \in [1..n -> 1..Len(seq)] :
        Matches(held, seq, s, want, n, at)
  BY DEF FollowedBy
<1>1. PICK at \in [1..n -> 1..Len(seq)] :
        /\ PlacesOf(seq, s, n, at)
        /\ Len(want) = Len(held) + n
        /\ \A i \in 1..Len(held) : want[i] = held[i]
        /\ \A j \in 1..n : want[Len(held) + j] = seq[at[j]]
  BY <1>0 DEF Matches
<1>2. Len(seq) \in Nat
  BY LenProperties
<1>3. /\ Len(Append(seq, op)) = Len(seq) + 1
      /\ \A i \in 1..Len(seq) : Append(seq, op)[i] = seq[i]
      /\ Append(seq, op)[Len(seq) + 1] = op
  BY AppendProperties
<1>4. n \in Nat /\ at \in [1..n -> 1..Len(Append(seq, op))]
  BY <1>2, <1>3
<1>5. \A j \in 1..n : Append(seq, op)[at[j]] = seq[at[j]]
  BY <1>2, <1>3
<1>6. PlacesOf(Append(seq, op), s, n, at)
  BY <1>1, <1>2, <1>3, <1>5 DEF PlacesOf
<1>7. Matches(held, Append(seq, op), s, want, n, at)
  BY <1>1, <1>5, <1>6 DEF Matches
<1>. QED
  BY <1>4, <1>7 DEF FollowedBy

(* What is left when the i-th operation is taken out.                      *)
LEMMA WithoutOne ==
  ASSUME NEW seq \in Seq(Ops), NEW i \in 1..Len(seq)
  PROVE  /\ Without(seq, i) \in Seq(Ops)
         /\ Len(Without(seq, i)) = Len(seq) - 1
         /\ \A j \in 1..(Len(seq) - 1) :
              Without(seq, i)[j] = IF j < i THEN seq[j] ELSE seq[j + 1]
<1>1. Len(seq) \in Nat /\ \A j \in 1..Len(seq) : seq[j] \in Ops
  BY LenProperties, ElementOfSeq
<1>. DEFINE front == SubSeq(seq, 1, i - 1)
            back  == SubSeq(seq, i + 1, Len(seq))
<1>2. /\ front \in Seq(Ops) /\ Len(front) = i - 1
      /\ \A j \in 1..(i - 1) : front[j] = seq[j]
  BY <1>1, SubSeqProperties
<1>3. /\ back \in Seq(Ops) /\ Len(back) = Len(seq) - i
      /\ \A j \in 1..(Len(seq) - i) : back[j] = seq[i + j]
  BY <1>1, SubSeqProperties
<1>4. Without(seq, i) = front \o back
  BY DEF Without
<1>. HIDE DEF front, back
<1>5. /\ front \o back \in Seq(Ops)
      /\ Len(front \o back) = Len(front) + Len(back)
      /\ \A j \in 1..(Len(front) + Len(back)) :
           (front \o back)[j] = IF j <= Len(front) THEN front[j] ELSE back[j - Len(front)]
  BY <1>2, <1>3, ConcatProperties
<1>6. Len(front) + Len(back) = Len(seq) - 1
  BY <1>1, <1>2, <1>3
<1>7. ASSUME NEW j \in 1..(Len(seq) - 1)
      PROVE  (front \o back)[j] = IF j < i THEN seq[j] ELSE seq[j + 1]
  <2>1. CASE j < i
    BY <1>1, <1>2, <1>5, <1>6, <2>1
  <2>2. CASE ~(j < i)
    <3>1. j - (i - 1) \in 1..(Len(seq) - i) /\ i + (j - (i - 1)) = j + 1
      BY <1>1, <2>2
    <3>2. /\ (front \o back)[j] = back[j - Len(front)]
          /\ j - Len(front) = j - (i - 1)
      BY <1>1, <1>2, <1>5, <1>6, <2>2
    <3>. QED
      BY <1>3, <2>2, <3>1, <3>2
  <2>. QED
    BY <2>1, <2>2
<1>. QED
  BY <1>4, <1>5, <1>6, <1>7

(* The first operation on the service has reached it ...                   *)
LEMMA ApplyHere ==
  ASSUME NEW held \in Seq(Rows), NEW want \in Seq(Rows), NEW seq \in Seq(Ops),
         NEW s \in Services, NEW i \in 1..Len(seq), ServiceOf[seq[i]] = s,
         \A j \in 1..(i - 1) : ServiceOf[seq[j]] # s,
         FollowedBy(held, seq, s, want)
  PROVE  FollowedBy(Append(held, seq[i]), Without(seq, i), s, want)
<1>0. PICK n \in Nat : \E at \in [1..n -> 1..Len(seq)] :
        Matches(held, seq, s, want, n, at)
  BY DEF FollowedBy
<1>1. PICK at \in [1..n -> 1..Len(seq)] :
        /\ PlacesOf(seq, s, n, at)
        /\ Len(want) = Len(held) + n
        /\ \A h \in 1..Len(held) : want[h] = held[h]
        /\ \A j \in 1..n : want[Len(held) + j] = seq[at[j]]
  BY <1>0 DEF Matches
<1>2. Len(seq) \in Nat /\ Len(held) \in Nat
  BY LenProperties
<1>3. n >= 1 /\ at[1] = i
  <2>1. PICK j \in 1..n : at[j] = i
    BY <1>1 DEF PlacesOf
  <2>2. n >= 1 /\ 1 \in 1..n /\ at[1] \in 1..Len(seq) /\ ServiceOf[seq[at[1]]] = s
    BY <1>1, <2>1 DEF PlacesOf
  <2>3. j # 1 => at[1] < i
    BY <1>1, <2>1, <2>2 DEF PlacesOf
  <2>4. ~(at[1] < i)
    BY <1>2, <2>2
  <2>. QED
    BY <2>1, <2>2, <2>3, <2>4
<1>4. /\ Len(Without(seq, i)) = Len(seq) - 1
      /\ \A j \in 1..(Len(seq) - 1) :
           Without(seq, i)[j] = IF j < i THEN seq[j] ELSE seq[j + 1]
  BY WithoutOne
<1>5. /\ seq[i] \in Rows
      /\ Len(Append(held, seq[i])) = Len(held) + 1
      /\ \A h \in 1..Len(held) : Append(held, seq[i])[h] = held[h]
      /\ Append(held, seq[i])[Len(held) + 1] = seq[i]
  BY ElementOfSeq, AppendProperties DEF Rows
<1>. DEFINE rest == [j \in 1..(n - 1) |-> at[j + 1] - 1]
<1>6. \A j \in 1..(n - 1) :
        /\ j + 1 \in 1..n /\ at[j + 1] \in 1..Len(seq) /\ i < at[j + 1]
        /\ rest[j] = at[j + 1] - 1 /\ rest[j] \in 1..(Len(seq) - 1) /\ rest[j] >= i
  <2>. TAKE j \in 1..(n - 1)
  <2>1. j + 1 \in 1..n /\ 1 \in 1..n /\ 1 < j + 1
    BY <1>3
  <2>2. at[j + 1] \in 1..Len(seq) /\ at[1] < at[j + 1]
    BY <1>1, <2>1 DEF PlacesOf
  <2>. QED
    BY <1>2, <1>3, <2>1, <2>2
<1>7. n - 1 \in Nat /\ rest \in [1..(n - 1) -> 1..Len(Without(seq, i))]
  BY <1>3, <1>4, <1>6
<1>. HIDE DEF rest
<1>8. \A j \in 1..(n - 1) : Without(seq, i)[rest[j]] = seq[at[j + 1]]
  <2>. TAKE j \in 1..(n - 1)
  <2>1. /\ rest[j] \in 1..(Len(seq) - 1) /\ ~(rest[j] < i) /\ rest[j] + 1 = at[j + 1]
    BY <1>2, <1>6
  <2>. QED
    BY <1>4, <2>1
<1>9. PlacesOf(Without(seq, i), s, n - 1, rest)
  <2>1. ASSUME NEW j \in 1..(n - 1), NEW l \in 1..(n - 1), j < l
        PROVE  rest[j] < rest[l]
    <3>1. j + 1 \in 1..n /\ l + 1 \in 1..n /\ j + 1 < l + 1
      BY <1>6, <2>1
    <3>2. at[j + 1] < at[l + 1]
      BY <1>1, <3>1 DEF PlacesOf
    <3>3. at[j + 1] \in Nat /\ at[l + 1] \in Nat
      BY <3>1
    <3>4. rest[j] = at[j + 1] - 1 /\ rest[l] = at[l + 1] - 1
      BY <1>6
    <3>. QED
      BY <3>2, <3>3, <3>4
  <2>2. ASSUME NEW j \in 1..(n - 1) PROVE ServiceOf[Without(seq, i)[rest[j]]] = s
    <3>1. j + 1 \in 1..n
      BY <1>6
    <3>2. ServiceOf[seq[at[j + 1]]] = s
      BY <1>1, <3>1 DEF PlacesOf
    <3>. QED
      BY <1>8, <3>2
  <2>3. ASSUME NEW h \in 1..Len(Without(seq, i)), ServiceOf[Without(seq, i)[h]] = s
        PROVE  \E j \in 1..(n - 1) : rest[j] = h
    <3>1. h \in 1..(Len(seq) - 1)
      BY <1>4
    <3>2. ~(h < i)
      <4>1. h < i => h \in 1..(i - 1) /\ Without(seq, i)[h] = seq[h]
        BY <1>4, <3>1
      <4>. QED
        BY <2>3, <4>1
    <3>3. h + 1 \in 1..Len(seq) /\ ServiceOf[seq[h + 1]] = s /\ h + 1 # i
      BY <1>2, <1>4, <2>3, <3>1, <3>2
    <3>4. PICK l \in 1..n : at[l] = h + 1
      BY <1>1, <3>3 DEF PlacesOf
    <3>5. l # 1 /\ l - 1 \in 1..(n - 1) /\ (l - 1) + 1 = l
      BY <1>3, <3>3, <3>4
    <3>6. rest[l - 1] = at[l] - 1
      BY <1>6, <3>5
    <3>7. rest[l - 1] = h
      BY <3>1, <3>4, <3>6
    <3>. QED
      BY <3>5, <3>7
  <2>. QED
    BY <2>1, <2>2, <2>3 DEF PlacesOf
<1>10. Matches(Append(held, seq[i]), Without(seq, i), s, want, n - 1, rest)
  <2>1. Len(want) = Len(Append(held, seq[i])) + (n - 1)
    BY <1>1, <1>2, <1>5
  <2>2. ASSUME NEW h \in 1..Len(Append(held, seq[i]))
        PROVE  want[h] = Append(held, seq[i])[h]
    <3>1. CASE h \in 1..Len(held)
      BY <1>1, <1>5, <3>1
    <3>2. CASE h = Len(held) + 1
      <4>1. 1 \in 1..n
        BY <1>3
      <4>. QED
        BY <1>1, <1>3, <1>5, <3>2, <4>1
    <3>. QED
      BY <1>2, <1>5, <3>1, <3>2
  <2>3. ASSUME NEW j \in 1..(n - 1)
        PROVE  want[Len(Append(held, seq[i])) + j] = Without(seq, i)[rest[j]]
    <3>1. Len(Append(held, seq[i])) + j = Len(held) + (j + 1)
      BY <1>2, <1>5
    <3>2. want[Len(held) + (j + 1)] = seq[at[j + 1]]
      <4>1. j + 1 \in 1..n
        BY <1>6
      <4>. QED
        BY <1>1, <4>1
    <3>. QED
      BY <1>8, <3>1, <3>2
  <2>. QED
    BY <1>9, <2>1, <2>2, <2>3 DEF Matches
<1>. QED
  BY <1>7, <1>10 DEF FollowedBy

(* ... or one on another service has reached that.                         *)
LEMMA ApplyElsewhere ==
  ASSUME NEW held \in Seq(Rows), NEW want \in Seq(Rows), NEW seq \in Seq(Ops),
         NEW s \in Services, NEW i \in 1..Len(seq), ServiceOf[seq[i]] # s,
         FollowedBy(held, seq, s, want)
  PROVE  FollowedBy(held, Without(seq, i), s, want)
<1>0. PICK n \in Nat : \E at \in [1..n -> 1..Len(seq)] :
        Matches(held, seq, s, want, n, at)
  BY DEF FollowedBy
<1>1. PICK at \in [1..n -> 1..Len(seq)] :
        /\ PlacesOf(seq, s, n, at)
        /\ Len(want) = Len(held) + n
        /\ \A h \in 1..Len(held) : want[h] = held[h]
        /\ \A j \in 1..n : want[Len(held) + j] = seq[at[j]]
  BY <1>0 DEF Matches
<1>2. Len(seq) \in Nat
  BY LenProperties
<1>3. /\ Len(Without(seq, i)) = Len(seq) - 1
      /\ \A j \in 1..(Len(seq) - 1) :
           Without(seq, i)[j] = IF j < i THEN seq[j] ELSE seq[j + 1]
  BY WithoutOne
<1>4. \A j \in 1..n : at[j] \in 1..Len(seq) /\ at[j] # i
  BY <1>1 DEF PlacesOf
<1>. DEFINE rest == [j \in 1..n |-> IF at[j] < i THEN at[j] ELSE at[j] - 1]
<1>5. \A j \in 1..n :
        /\ rest[j] \in 1..(Len(seq) - 1)
        /\ at[j] < i => rest[j] = at[j]
        /\ at[j] > i => rest[j] = at[j] - 1
        /\ at[j] < i \/ at[j] > i
  BY <1>2, <1>4
<1>6. rest \in [1..n -> 1..Len(Without(seq, i))]
  BY <1>3, <1>5
<1>. HIDE DEF rest
<1>7. \A j \in 1..n : Without(seq, i)[rest[j]] = seq[at[j]]
  <2>. TAKE j \in 1..n
  <2>1. CASE at[j] < i
    BY <1>3, <1>5, <2>1
  <2>2. CASE at[j] > i
    <3>1. ~(rest[j] < i) /\ rest[j] + 1 = at[j]
      BY <1>2, <1>4, <1>5, <2>2
    <3>. QED
      BY <1>3, <1>5, <3>1
  <2>. QED
    BY <1>5, <2>1, <2>2
<1>8. PlacesOf(Without(seq, i), s, n, rest)
  <2>1. ASSUME NEW j \in 1..n, NEW l \in 1..n, j < l
        PROVE  rest[j] < rest[l]
    <3>1. at[j] < at[l] /\ at[j] \in 1..Len(seq) /\ at[l] \in 1..Len(seq)
      BY <1>1, <2>1 DEF PlacesOf
    <3>2. /\ at[j] \in Nat /\ at[l] \in Nat /\ i \in Nat
          /\ rest[j] = at[j] \/ rest[j] = at[j] - 1
          /\ rest[l] = at[l] \/ rest[l] = at[l] - 1
      BY <1>5, <3>1
    <3>3. CASE at[l] < i
      <4>1. at[j] < i
        BY <3>1, <3>2, <3>3
      <4>. QED
        BY <1>5, <3>1, <3>3, <4>1
    <3>4. CASE at[j] > i
      <4>1. at[l] > i
        BY <3>1, <3>2, <3>4
      <4>2. rest[j] = at[j] - 1 /\ rest[l] = at[l] - 1
        BY <1>5, <3>4, <4>1
      <4>. QED
        BY <3>1, <3>2, <4>2
    <3>5. CASE at[j] < i /\ at[l] > i
      <4>1. rest[j] = at[j] /\ rest[l] = at[l] - 1
        BY <1>5, <3>5
      <4>. QED
        BY <3>2, <3>5, <4>1
    <3>. QED
      BY <1>5, <3>3, <3>4, <3>5
  <2>2. \A j \in 1..n : ServiceOf[Without(seq, i)[rest[j]]] = s
    BY <1>1, <1>7 DEF PlacesOf
  <2>3. ASSUME NEW h \in 1..Len(Without(seq, i)), ServiceOf[Without(seq, i)[h]] = s
        PROVE  \E j \in 1..n : rest[j] = h
    <3>0. h \in 1..(Len(seq) - 1)
      BY <1>3
    <3>1. CASE h < i
      <4>1. h \in 1..Len(seq) /\ ServiceOf[seq[h]] = s
        BY <1>2, <1>3, <2>3, <3>0, <3>1
      <4>2. PICK j \in 1..n : at[j] = h
        BY <1>1, <4>1 DEF PlacesOf
      <4>. QED
        BY <1>5, <3>1, <4>2
    <3>2. CASE ~(h < i)
      <4>1. h + 1 \in 1..Len(seq) /\ ServiceOf[seq[h + 1]] = s /\ h + 1 > i
        BY <1>2, <1>3, <2>3, <3>0, <3>2
      <4>2. PICK j \in 1..n : at[j] = h + 1
        BY <1>1, <4>1 DEF PlacesOf
      <4>3. rest[j] = at[j] - 1
        BY <1>5, <4>1, <4>2
      <4>4. rest[j] = h
        BY <3>0, <4>2, <4>3
      <4>. QED
        BY <4>4
    <3>. QED
      BY <3>1, <3>2
  <2>. QED
    BY <2>1, <2>2, <2>3 DEF PlacesOf
<1>9. Matches(held, Without(seq, i), s, want, n, rest)
  BY <1>1, <1>7, <1>8 DEF Matches
<1>. QED
  BY <1>6, <1>9 DEF FollowedBy

(* A declaration puts the operation where it is expected.                  *)
LEMMA DeclareStep ==
  ASSUME TypeOK, NEW op \in Ops, Expect(op), Enqueue(op), content' = content,
         \A s \in Services : FollowedBy(content[s], batch, s, expected[s])
  PROVE  \A s \in Services : FollowedBy(content'[s], batch', s, expected'[s])
<1>. TAKE s \in Services
<1>1. content[s] \in Seq(Rows) /\ expected[s] \in Seq(Rows) /\ batch \in Seq(Ops)
  BY DEF TypeOK
<1>2. /\ batch' = Append(batch, op)
      /\ expected'[s] = IF ServiceOf[op] = s THEN Append(expected[s], op) ELSE expected[s]
  BY DEF TypeOK, Expect, Enqueue
<1>3. FollowedBy(content[s], batch, s, expected[s])
  OBVIOUS
<1>4. CASE ServiceOf[op] = s
  BY <1>1, <1>2, <1>3, <1>4, DeclareHere
<1>5. CASE ServiceOf[op] # s
  BY <1>1, <1>2, <1>3, <1>5, DeclareElsewhere
<1>. QED
  BY <1>4, <1>5

(* An operation that is applied moves from the one to the other.           *)
LEMMA ApplyStep ==
  ASSUME TypeOK, ApplyNext,
         \A s \in Services : FollowedBy(content[s], todo, s, expected[s])
  PROVE  \A s \in Services : FollowedBy(content'[s], todo', s, expected'[s])
<1>1. PICK i \in DOMAIN todo :
        /\ NextInGroup(i)
        /\ content' = [content EXCEPT ![current] = Append(@, todo[i])]
        /\ todo' = Without(todo, i)
  BY DEF ApplyNext
<1>2. todo \in Seq(Ops) /\ DOMAIN todo = 1..Len(todo) /\ Len(todo) \in Nat
  BY LenProperties DEF TypeOK
<1>3. i \in 1..Len(todo) /\ ServiceOf[todo[i]] = current
  BY <1>1, <1>2 DEF NextInGroup, InGroup
<1>4. \A j \in 1..(i - 1) : ServiceOf[todo[j]] # current
  <2>. TAKE j \in 1..(i - 1)
  <2>1. j \in DOMAIN todo /\ ~InGroup(j)
    BY <1>1, <1>2, <1>3 DEF NextInGroup
  <2>. QED
    BY <2>1 DEF InGroup
<1>5. expected' = expected
  BY DEF ApplyNext, history
<1>. TAKE s \in Services
<1>6. content[s] \in Seq(Rows) /\ expected[s] \in Seq(Rows)
  BY DEF TypeOK
<1>7. content'[s] = IF s = current THEN Append(content[s], todo[i]) ELSE content[s]
  BY <1>1 DEF TypeOK
<1>8. FollowedBy(content[s], todo, s, expected[s])
  OBVIOUS
<1>9. CASE s = current
  BY <1>1, <1>2, <1>3, <1>4, <1>5, <1>6, <1>7, <1>8, <1>9, ApplyHere
<1>10. CASE s # current
  BY <1>1, <1>2, <1>3, <1>5, <1>6, <1>7, <1>8, <1>10, ApplyElsewhere
<1>. QED
  BY <1>9, <1>10

(* Nothing is on its way when a service holds what is expected of it.      *)
LEMMA NothingPending ==
  ASSUME NEW held \in [Services -> Seq(Rows)], NEW want \in [Services -> Seq(Rows)]
  PROVE  (\A s \in Services : FollowedBy(held[s], <<>>, s, want[s])) <=> held = want
<1>1. \A s \in Services : FollowedBy(held[s], <<>>, s, want[s]) <=> want[s] = held[s]
  BY FollowedByNothing
<1>2. held = [s \in Services |-> held[s]] /\ want = [s \in Services |-> want[s]]
  OBVIOUS
<1>. QED
  BY <1>1, <1>2

(* Between a declaration and the call it precedes, every step keeps what   *)
(* the test has declared on its way; a raised call ends the test.  What is *)
(* declared while a boundary is open is there at once, with nothing waiting *)
(* that should precede it.                                                 *)
LEMMA PendingStep ==
  ASSUME IInv, IInv', PendingInv, NoneKept, BatchInv, "retry" \notin Habits, [Next]_vars
  PROVE  PendingInv'
<1>0. TypeOK /\ TypeOK' /\ kept = "none"
  BY DEF IInv, NoneKept
<1>1. ASSUME pc' \notin {"presets", "body", "apply", "ensure", "send"} PROVE PendingInv'
  BY <1>1 DEF PendingInv
<1>2. ASSUME UNCHANGED <<pc, raised, content, expected, batch, todo>> PROVE PendingInv'
  BY <1>2 DEF PendingInv
<1>3. ASSUME pc' = "body", raised' PROVE PendingInv'
  BY <1>3 DEF PendingInv
<1>4. ASSUME Starting PROVE PendingInv'
  <2>1. pc' \notin {"presets", "body", "apply", "ensure", "send"}
    BY <1>4 DEF Starting, CreateNetwork, CreateNetworkFails, StartEngine, StartEngineFails,
       AddressFails, EnginesStarted, StartInstance, StartInstanceFails, Announce,
       AnnounceFails, Goto
  <2>. QED
    BY <1>1, <2>1
<1>5. ASSUME Seeding PROVE PendingInv'
  <2>1. CASE OpenBoundary \/ CloseBoundary \/ KeepView
    BY <1>2, <2>1 DEF OpenBoundary, CloseBoundary, KeepView, object, world, loop, history
  <2>2. ASSUME NEW op \in Ops, Seed(op) \/ SeedFails(op) PROVE PendingInv'
    <3>1. pc' = "between"
      BY <2>2 DEF Seed, SeedFails
    <3>. QED
      BY <1>1, <3>1
  <2>. QED
    BY <1>5, <2>1, <2>2 DEF Seeding
<1>6. ASSUME Finalize \/ Stopping \/ Interrupts \/ Reap PROVE PendingInv'
  <2>1. pc' \notin {"presets", "body", "apply", "ensure", "send"}
    BY <1>6 DEF Stopping, Finalize, StopInstance, StopEngine, EnginesStopped,
       RemoveNetwork, Interrupts, InterruptStart, InterruptTest, InterruptStop,
       Reap, Goto
  <2>. QED
    BY <1>1, <2>1
<1>7. ASSUME InstanceDies PROVE PendingInv'
  BY <1>2, <1>7 DEF InstanceDies, object, loop, history
<1>8. CASE BeginTest \/ ResetEngine \/ ResetEngineFails \/ PresetsRejected \/ EndTest
  <2>1. pc' \notin {"presets", "body", "apply", "ensure", "send"}
    BY <1>8 DEF BeginTest, ResetEngine, ResetEngineFails, PresetsRejected, EndTest, Goto
  <2>. QED
    BY <1>1, <2>1
<1>9. CASE NewTestBatch
  <2>1. /\ pc' = "presets" /\ batch' = <<>> /\ expected' = journal /\ journal' = journal
    BY <1>9 DEF NewTestBatch, Goto
  <2>2. content' = expected'
    BY <2>1 DEF IInv, TestStartsAtBaseline
  <2>3. \A s \in Services : FollowedBy(content'[s], batch', s, expected'[s])
    BY <1>0, <2>1, <2>2, NothingPending DEF TypeOK
  <2>. QED
    BY <2>1, <2>3 DEF PendingInv
<1>10. CASE PresetsEnqueued
  <2>1. pc = "presets" /\ pc' = "body" /\ UNCHANGED <<raised, content, expected, batch>>
    BY <1>10 DEF PresetsEnqueued, Goto, object, world, history
  <2>. QED
    BY <2>1 DEF PendingInv
<1>11. ASSUME NEW op \in Ops, EnqueuePreset(op) PROVE PendingInv'
  <2>1. /\ pc = "presets" /\ Expect(op) /\ Enqueue(op)
        /\ UNCHANGED <<pc, raised, content>>
    BY <1>11 DEF EnqueuePreset, world
  <2>2. ~raised => \A s \in Services : FollowedBy(content'[s], batch', s, expected'[s])
    BY <1>0, <2>1, DeclareStep DEF PendingInv
  <2>. QED
    BY <2>1, <2>2 DEF PendingInv
<1>12. ASSUME NEW op \in Ops, Declare(op) PROVE PendingInv'
  <2>1. /\ pc = "body" /\ ~raised /\ Expect(op) /\ Enqueue(op)
        /\ UNCHANGED <<pc, raised, content>>
    BY <1>12 DEF Declare, world
  <2>2. \A s \in Services : FollowedBy(content'[s], batch', s, expected'[s])
    BY <1>0, <2>1, DeclareStep DEF PendingInv
  <2>. QED
    BY <2>1, <2>2 DEF PendingInv
<1>13. ASSUME NEW op \in Ops, DeclareOnKeptView(op) PROVE PendingInv'
  BY <1>0, <1>13 DEF DeclareOnKeptView
<1>23. ASSUME NEW op \in Ops, DeclareAtOnce(op) PROVE PendingInv'
  <2>1. boundary /\ batch = <<>> /\ pc \in {"presets", "body"}
    BY <1>0, <1>23 DEF DeclareAtOnce, AtOnce, BatchInv
  <2>2. /\ content' = [content EXCEPT ![ServiceOf[op]] = Append(@, op)]
        /\ expected' = [expected EXCEPT ![ServiceOf[op]] = Append(@, op)]
        /\ UNCHANGED <<pc, raised, batch>>
    BY <1>23 DEF DeclareAtOnce, Expect, AddToBaseline
  <2>3. ASSUME ~raised
        PROVE  \A s \in Services : FollowedBy(content'[s], batch', s, expected'[s])
    <3>1. \A s \in Services : FollowedBy(content[s], <<>>, s, expected[s])
      BY <2>1, <2>3 DEF PendingInv
    <3>2. content = expected
      BY <1>0, <3>1, NothingPending DEF TypeOK
    <3>3. content' = expected'
      BY <2>2, <3>2
    <3>. QED
      BY <1>0, <2>1, <2>2, <3>3, NothingPending DEF TypeOK
  <2>. QED
    BY <2>1, <2>2, <2>3 DEF PendingInv
<1>24. ASSUME NEW op \in Ops, DeclareAtOnceFails(op) PROVE PendingInv'
  <2>1. \/ pc' = "between"
        \/ pc' = "body" /\ raised' = TRUE
    BY <1>24 DEF DeclareAtOnceFails
  <2>. QED
    BY <1>1, <1>3, <2>1
<1>14. CASE Call
  <2>1. /\ pc = "body" /\ pc' = "apply" /\ ~raised /\ ~raised'
        /\ todo' = batch /\ batch' = <<>> /\ UNCHANGED <<content, expected>>
    BY <1>0, <1>14 DEF Call, Goto, world, history, TypeOK
  <2>. QED
    BY <2>1 DEF PendingInv
<1>15. CASE ApplyNext
  <2>1. pc = "apply" /\ UNCHANGED <<pc, batch, raised>>
    BY <1>15 DEF ApplyNext, object
  <2>2. \A s \in Services : FollowedBy(content'[s], todo', s, expected'[s])
    BY <1>0, <1>15, <2>1, ApplyStep DEF PendingInv
  <2>. QED
    BY <2>1, <2>2 DEF PendingInv
<1>16. CASE NextGroup
  BY <1>2, <1>16 DEF NextGroup, object, world, history
<1>17. CASE ApplyFails
  BY <1>3, <1>17 DEF ApplyFails, Raise
<1>18. CASE PendingApplied
  <2>1. /\ pc = "apply" /\ pc' = "ensure" /\ todo = <<>>
        /\ UNCHANGED <<raised, batch, content, expected>>
    BY <1>18 DEF PendingApplied, Goto, object, world, history
  <2>2. content = expected
    BY <1>0, <2>1, NothingPending DEF PendingInv, TypeOK
  <2>. QED
    BY <2>1, <2>2 DEF PendingInv
<1>19. CASE EnsureService
  <2>1. pc = "ensure" /\ UNCHANGED <<batch, content, expected>>
    BY <1>19 DEF EnsureService, object, world, history
  <2>2. CASE alive
    <3>1. pc' = "send" /\ raised' = raised
      BY <1>19, <2>2 DEF EnsureService
    <3>. QED
      BY <2>1, <3>1 DEF PendingInv
  <2>3. CASE ~alive
    BY <1>3, <1>19, <2>3 DEF EnsureService, Raise
  <2>. QED
    BY <2>2, <2>3
<1>20. CASE Send
  <2>1. /\ pc = "send" /\ pc' = "body" /\ content' = expected'
        /\ UNCHANGED <<raised, batch>>
    BY <1>20 DEF Send, Goto, object
  <2>2. batch' = <<>>
    BY <2>1 DEF PendingInv
  <2>3. content' \in [Services -> Seq(Rows)] /\ expected' \in [Services -> Seq(Rows)]
    BY <1>0 DEF TypeOK
  <2>4. \A s \in Services : FollowedBy(content'[s], <<>>, s, expected'[s])
    BY <2>1, <2>3, NothingPending
  <2>5. \A s \in Services : FollowedBy(content'[s], batch', s, expected'[s])
    BY <2>2, <2>4
  <2>. QED
    BY <2>1, <2>5 DEF PendingInv
<1>21. CASE SendFails
  BY <1>3, <1>21 DEF SendFails, Raise
<1>22. CASE UNCHANGED vars
  BY <1>2, <1>22 DEF vars
<1>. QED
  BY <1>4, <1>5, <1>6, <1>7, <1>8, <1>9, <1>10, <1>11, <1>12, <1>13, <1>14,
     <1>15, <1>16, <1>17, <1>18, <1>19, <1>20, <1>21, <1>22, <1>23, <1>24
     DEF Next, Session, Testing

(* docs/sandbox/api.md: in a suite that keeps no views, opens its          *)
(* boundaries before the first test, closing them or not, and does not     *)
(* retry a raised call, a call reaches services that hold the baseline,    *)
(* what the earlier calls of the test left, and every operation declared   *)
(* before it.                                                              *)
THEOREM SandboxCallSees ==
  ASSUME "kept view" \notin Habits, "late seeding" \notin Habits, "retry" \notin Habits
  PROVE  Spec => []CallSeesDeclared
<1>1. Init => NoneKept /\ BatchInv /\ PendingInv
  BY InitSeeded DEF Init, NoneKept, PendingInv
<1>2. IInv /\ NoneKept /\ BatchInv /\ [Next]_vars => NoneKept' /\ BatchInv'
  BY HabitStep, BatchStep DEF IInv, TypeOK, TypeCount
<1>3. IInv /\ IInv' /\ NoneKept /\ BatchInv /\ PendingInv /\ [Next]_vars => PendingInv'
  BY PendingStep
<1>4. PendingInv => CallSeesDeclared
  BY DEF PendingInv, CallSeesDeclared
<1>. QED
  BY <1>1, <1>2, <1>3, <1>4, SandboxInvariant, PTL DEF Spec

-----------------------------------------------------------------------------
(***************************************************************************)
(* What a reset can replay: the journals against what the services hold    *)
(* before the first test.                                                  *)
(***************************************************************************)
(* What a reset does not bring back, although operations may refer to it.  *)
Orphans(s) == Range(Migrated[s]) \cup unrecorded

(* Every operation of a journal finds what it needs before it or among the *)
(* orphans, and its key free.                                              *)
Sound(log, orphans) ==
  \A i \in 1..Len(log) :
    LET before == {log[j] : j \in 1..(i - 1)} IN
    /\ log[i] \in Keyed => log[i] \notin before
    /\ Needs[log[i]] \subseteq before \cup orphans

JournalInv == \A s \in Services : Sound(journal[s], Orphans(s))

(* Before the first test a service holds its journal and orphans; an       *)
(* engine that has not started has no journal.                             *)
SeedInv ==
  /\ tests = 0 /\ pc \in StartSteps \cup {"between"} =>
       \A s \in Services : /\ Range(journal[s]) \subseteq Range(content[s])
                           /\ Range(content[s]) \subseteq Range(journal[s]) \cup Orphans(s)
  /\ pc \in {"new", "engines"} =>
       \A i \in 1..Len(Order) : i >= k => journal[Order[i]] = <<>>
  /\ pc \in TestSteps \ {"between"} => tests > 0

(* What a sequence holds, and one that is extended.                        *)
LEMMA RangeFacts ==
  ASSUME NEW S, NEW s \in Seq(S)
  PROVE  /\ Len(s) \in Nat
         /\ \A x : x \in Range(s) <=> \E j \in 1..Len(s) : s[j] = x
         /\ \A e \in S : Range(Append(s, e)) = Range(s) \cup {e}
         /\ \A t \in Seq(S) : Range(s \o t) = Range(s) \cup Range(t)
<1>1. ASSUME NEW t \in Seq(S)
      PROVE  Len(t) \in Nat /\ \A x : x \in Range(t) <=> \E j \in 1..Len(t) : t[j] = x
  BY LenProperties DEF Range
<1>2. ASSUME NEW e \in S PROVE Range(Append(s, e)) = Range(s) \cup {e}
  <2>1. /\ Append(s, e) \in Seq(S) /\ Len(Append(s, e)) = Len(s) + 1
        /\ \A i \in 1..Len(s) : Append(s, e)[i] = s[i]
        /\ Append(s, e)[Len(s) + 1] = e
    BY AppendProperties
  <2>2. /\ Len(s) \in Nat
        /\ \A x : x \in Range(s) <=> \E j \in 1..Len(s) : s[j] = x
        /\ \A x : x \in Range(Append(s, e)) <=>
                    \E j \in 1..(Len(s) + 1) : Append(s, e)[j] = x
    <3>1. /\ Len(s) \in Nat
          /\ \A x : x \in Range(s) <=> \E j \in 1..Len(s) : s[j] = x
      BY <1>1
    <3>2. \A x : x \in Range(Append(s, e)) <=>
                   \E j \in 1..Len(Append(s, e)) : Append(s, e)[j] = x
      BY <1>1, <2>1
    <3>. QED
      BY <2>1, <3>1, <3>2
  <2>3. \A j \in 1..(Len(s) + 1) : j \in 1..Len(s) \/ j = Len(s) + 1
    BY <2>2
  <2>4. \A j \in 1..Len(s) : j \in 1..(Len(s) + 1)
    BY <2>2
  <2>5. Len(s) + 1 \in 1..(Len(s) + 1)
    BY <2>2
  <2>. QED
    BY <2>1, <2>2, <2>3, <2>4, <2>5
<1>3. ASSUME NEW t \in Seq(S) PROVE Range(s \o t) = Range(s) \cup Range(t)
  <2>1. /\ s \o t \in Seq(S) /\ Len(s \o t) = Len(s) + Len(t)
        /\ \A i \in 1..(Len(s) + Len(t)) :
             (s \o t)[i] = IF i <= Len(s) THEN s[i] ELSE t[i - Len(s)]
    BY ConcatProperties
  <2>2. /\ Len(s) \in Nat /\ Len(t) \in Nat
        /\ \A x : x \in Range(s) <=> \E j \in 1..Len(s) : s[j] = x
        /\ \A x : x \in Range(t) <=> \E j \in 1..Len(t) : t[j] = x
        /\ \A x : x \in Range(s \o t) <=>
                    \E j \in 1..(Len(s) + Len(t)) : (s \o t)[j] = x
    <3>1. /\ Len(s) \in Nat /\ Len(t) \in Nat
          /\ \A x : x \in Range(s) <=> \E j \in 1..Len(s) : s[j] = x
          /\ \A x : x \in Range(t) <=> \E j \in 1..Len(t) : t[j] = x
      BY <1>1
    <3>2. \A x : x \in Range(s \o t) <=> \E j \in 1..Len(s \o t) : (s \o t)[j] = x
      BY <1>1, <2>1
    <3>. QED
      BY <2>1, <3>1, <3>2
  <2>3. ASSUME NEW x \in Range(s \o t) PROVE x \in Range(s) \cup Range(t)
    <3>1. PICK j \in 1..(Len(s) + Len(t)) : (s \o t)[j] = x
      BY <2>2, <2>3
    <3>2. CASE j <= Len(s)
      BY <2>1, <2>2, <3>1, <3>2
    <3>3. CASE ~(j <= Len(s))
      <4>1. j - Len(s) \in 1..Len(t) /\ t[j - Len(s)] = x
        BY <2>1, <2>2, <3>1, <3>3
      <4>. QED
        BY <2>2, <4>1
    <3>. QED
      BY <3>2, <3>3
  <2>4. ASSUME NEW x \in Range(s) PROVE x \in Range(s \o t)
    <3>1. PICK j \in 1..Len(s) : s[j] = x
      BY <2>2, <2>4
    <3>2. j \in 1..(Len(s) + Len(t)) /\ (s \o t)[j] = x
      BY <2>1, <2>2, <3>1
    <3>. QED
      BY <2>2, <3>2
  <2>5. ASSUME NEW x \in Range(t) PROVE x \in Range(s \o t)
    <3>1. PICK j \in 1..Len(t) : t[j] = x
      BY <2>2, <2>5
    <3>2. /\ Len(s) + j \in 1..(Len(s) + Len(t)) /\ ~(Len(s) + j <= Len(s))
          /\ (Len(s) + j) - Len(s) = j
      BY <2>2, <3>1
    <3>3. (s \o t)[Len(s) + j] = x
      BY <2>1, <3>1, <3>2
    <3>. QED
      BY <2>2, <3>2, <3>3
  <2>. QED
    BY <2>3, <2>4, <2>5
<1>. QED
  BY <1>1, <1>2, <1>3

(* The empty sequence holds nothing.                                       *)
LEMMA RangeEmpty == Len(<<>>) = 0 /\ 1..0 = {} /\ Range(<<>>) = {}
<1>1. <<>> \in Seq({}) /\ Len(<<>>) = 0 /\ 1..0 = {}
  BY EmptySeq
<1>2. \A x : x \in Range(<<>>) <=> \E j \in 1..Len(<<>>) : <<>>[j] = x
  BY <1>1, RangeFacts
<1>. QED
  BY <1>1, <1>2

(* The first operations of a journal.                                      *)
LEMMA RangePrefix ==
  ASSUME NEW S, NEW s \in Seq(S), NEW i \in 1..Len(s)
  PROVE  /\ Prefix(s, i - 1) \in Seq(S)
         /\ Range(Prefix(s, i - 1)) = {s[j] : j \in 1..(i - 1)}
<1>1. i - 1 \in 0..Len(s)
  BY LenProperties
<1>2. /\ Prefix(s, i - 1) \in Seq(S) /\ Len(Prefix(s, i - 1)) = i - 1
      /\ \A j \in 1..(i - 1) : Prefix(s, i - 1)[j] = s[j]
  BY <1>1, PrefixType
<1>3. \A x : x \in Range(Prefix(s, i - 1)) <=> \E j \in 1..(i - 1) : Prefix(s, i - 1)[j] = x
  BY <1>2, RangeFacts
<1>. QED
  BY <1>2, <1>3

(* A journal finds what it needs when the operation can be replayed, and   *)
(* it can be replayed when it needs no orphan.                             *)
LEMMA JournalReplays == TypeOK /\ JournalInv => BaselineReplays
<1>. SUFFICES ASSUME TypeOK, JournalInv, NEW s \in Services,
                     ~ Replays(<<>>, journal[s])
              PROVE  \E op \in Range(journal[s]) :
                       Needs[op] \cap (Range(Migrated[s]) \cup unrecorded) # {}
  BY DEF BaselineReplays
<1>1. journal[s] \in Seq(Ops)
  BY DEF TypeOK
<1>2. PICK i \in 1..Len(journal[s]) :
        ~ Accepts(<<>> \o Prefix(journal[s], i - 1), journal[s][i])
  BY DEF Replays
<1>. DEFINE before == {journal[s][j] : j \in 1..(i - 1)}
<1>3. Range(<<>> \o Prefix(journal[s], i - 1)) = before
  <2>1. /\ Prefix(journal[s], i - 1) \in Seq(Ops)
        /\ Range(Prefix(journal[s], i - 1)) = before
    BY <1>1, RangePrefix
  <2>2. <<>> \o Prefix(journal[s], i - 1) = Prefix(journal[s], i - 1)
    BY <2>1, ConcatEmptySeq
  <2>. QED
    BY <2>1, <2>2
<1>4. /\ journal[s][i] \in Keyed => journal[s][i] \notin before
      /\ Needs[journal[s][i]] \subseteq before \cup Orphans(s)
  BY DEF JournalInv, Sound
<1>5. ~ (Needs[journal[s][i]] \subseteq before)
  BY <1>2, <1>3, <1>4 DEF Accepts
<1>6. journal[s][i] \in Range(journal[s])
  BY <1>1, RangeFacts
<1>. HIDE DEF before
<1>. QED
  BY <1>4, <1>5, <1>6 DEF Orphans

(* Orphans only become more.                                               *)
LEMMA SoundKept ==
  ASSUME NEW log, NEW orphans, NEW more, Sound(log, orphans), orphans \subseteq more
  PROVE  Sound(log, more)
BY DEF Sound

(* An engine that starts replays its startup operations on what its        *)
(* migrations have left, and records them.                                 *)
LEMMA StartSeeds ==
  ASSUME IInv, JournalInv, SeedInv, StartEngine
  PROVE  (JournalInv /\ SeedInv)'
<1>1. TypeOK
  BY DEF IInv
<1>2. /\ pc = "engines" /\ pc' = "engines" /\ k <= Len(Order) /\ k' = k + 1
      /\ UNCHANGED <<tests, unrecorded>>
  BY DEF StartEngine, bounds, history
<1>3. k >= 1 /\ k \in Nat /\ Len(Order) \in Nat /\ k \in 1..Len(Order)
  BY <1>1, <1>2, OrderLength DEF IInv, OrderInv, TypeOK
<1>4. PICK e \in Services : e = Order[k]
  BY <1>3, OrderFacts
<1>5. PICK held \in {<<>>, Migrated[e]} :
        /\ Replays(held, Startup[e])
        /\ content' = [content EXCEPT ![e] = held \o Startup[e]]
        /\ journal' = [journal EXCEPT ![e] = @ \o Startup[e]]
  BY <1>4 DEF StartEngine
<1>6. /\ Startup[e] \in Seq(Ops) /\ Migrated[e] \in Seq(Ops) /\ held \in Seq(Ops)
      /\ Range(held) \subseteq Range(Migrated[e])
  <2>1. Startup[e] \in Seq(Ops) /\ Migrated[e] \in Seq(Ops)
    BY SandboxAssumption
  <2>2. <<>> \in Seq(Ops) /\ Range(<<>>) = {}
    BY EmptySeq, RangeEmpty
  <2>. QED
    BY <1>5, <2>1, <2>2
<1>7. journal[e] = <<>>
  BY <1>2, <1>3, <1>4 DEF SeedInv
<1>8. journal[e] \o Startup[e] = Startup[e]
  BY <1>6, <1>7, ConcatEmptySeq
<1>9. /\ journal'[e] = Startup[e] /\ content'[e] = held \o Startup[e]
      /\ \A s \in Services \ {e} : journal'[s] = journal[s] /\ content'[s] = content[s]
  BY <1>1, <1>5, <1>8 DEF TypeOK
<1>10. JournalInv'
  <2>1. Sound(Startup[e], Orphans(e))
    <3>1. ASSUME NEW i \in 1..Len(Startup[e])
          PROVE  LET before == {Startup[e][j] : j \in 1..(i - 1)} IN
                 /\ Startup[e][i] \in Keyed => Startup[e][i] \notin before
                 /\ Needs[Startup[e][i]] \subseteq before \cup Orphans(e)
      <4>1. /\ Prefix(Startup[e], i - 1) \in Seq(Ops)
            /\ Range(Prefix(Startup[e], i - 1)) = {Startup[e][j] : j \in 1..(i - 1)}
        BY <1>6, RangePrefix
      <4>2. Range(held \o Prefix(Startup[e], i - 1))
              = Range(held) \cup {Startup[e][j] : j \in 1..(i - 1)}
        BY <1>6, <4>1, RangeFacts
      <4>3. Accepts(held \o Prefix(Startup[e], i - 1), Startup[e][i])
        BY <1>5 DEF Replays
      <4>. QED
        BY <1>6, <4>2, <4>3 DEF Accepts, Orphans
    <3>. QED
      BY <3>1 DEF Sound
  <2>2. \A s \in Services : (Orphans(s))' = Orphans(s)
    BY <1>2 DEF Orphans
  <2>. QED
    BY <1>9, <2>1, <2>2 DEF JournalInv
<1>11. ASSUME tests = 0, NEW s \in Services
       PROVE  /\ Range(journal'[s]) \subseteq Range(content'[s])
              /\ Range(content'[s])
                   \subseteq Range(journal'[s]) \cup Range(Migrated[s]) \cup unrecorded
  <2>1. CASE s = e
    <3>1. Range(held \o Startup[e]) = Range(held) \cup Range(Startup[e])
      BY <1>6, RangeFacts
    <3>. QED
      BY <1>6, <1>9, <2>1, <3>1
  <2>2. CASE s # e
    BY <1>2, <1>9, <1>11, <2>2 DEF SeedInv, StartSteps, Orphans
  <2>. QED
    BY <2>1, <2>2
<1>12. ASSUME NEW i \in 1..Len(Order), i >= k' PROVE journal'[Order[i]] = <<>>
  <2>1. i >= k /\ i # k
    BY <1>2, <1>3, <1>12
  <2>2. Order[i] \in Services /\ Order[i] # e
    BY <1>3, <1>4, <2>1, OrderFacts
  <2>. QED
    BY <1>2, <1>9, <2>1, <2>2 DEF SeedInv
<1>13. SeedInv'
  BY <1>2, <1>11, <1>12 DEF SeedInv, TestSteps, Orphans
<1>. QED
  BY <1>10, <1>13

(* An operation of a boundary is recorded on the service that accepts it.  *)
LEMMA SeedSeeds ==
  ASSUME IInv, JournalInv, SeedInv, SeededEarly, NEW op \in Ops, Seed(op)
  PROVE  (JournalInv /\ SeedInv)'
<1>. DEFINE e == ServiceOf[op]
<1>1. TypeOK /\ pc = "between" /\ e \in Services
  BY SandboxAssumption DEF IInv, Seed
<1>2. tests = 0
  BY <1>1 DEF Seed, SeededEarly, TypeOK
<1>3. /\ Accepts(content[e], op)
      /\ content' = [content EXCEPT ![e] = Append(@, op)]
      /\ journal' = [journal EXCEPT ![e] = Append(@, op)]
      /\ UNCHANGED <<pc, tests, k, unrecorded>>
  BY DEF Seed, AddToBaseline, loop, history
<1>4. /\ journal'[e] = Append(journal[e], op) /\ content'[e] = Append(content[e], op)
      /\ \A s \in Services \ {e} : journal'[s] = journal[s] /\ content'[s] = content[s]
  BY <1>1, <1>3 DEF TypeOK
<1>. HIDE DEF e
<1>5. journal[e] \in Seq(Ops) /\ content[e] \in Seq(Rows) /\ op \in Rows
  BY <1>1 DEF TypeOK, Rows
<1>6. /\ Range(journal[e]) \subseteq Range(content[e])
      /\ Range(content[e]) \subseteq Range(journal[e]) \cup Orphans(e)
  BY <1>1, <1>2 DEF SeedInv
<1>7. /\ Len(Append(journal[e], op)) = Len(journal[e]) + 1
      /\ \A i \in 1..Len(journal[e]) : Append(journal[e], op)[i] = journal[e][i]
      /\ Append(journal[e], op)[Len(journal[e]) + 1] = op
      /\ Len(journal[e]) \in Nat
      /\ Range(journal[e]) = {journal[e][j] : j \in 1..Len(journal[e])}
  BY <1>5, AppendProperties, RangeFacts
<1>8. JournalInv'
  <2>1. Sound(Append(journal[e], op), Orphans(e))
    <3>1. ASSUME NEW i \in 1..Len(Append(journal[e], op))
          PROVE  LET log    == Append(journal[e], op)
                     before == {log[j] : j \in 1..(i - 1)} IN
                 /\ log[i] \in Keyed => log[i] \notin before
                 /\ Needs[log[i]] \subseteq before \cup Orphans(e)
      <4>1. {Append(journal[e], op)[j] : j \in 1..(i - 1)}
              = {journal[e][j] : j \in 1..(i - 1)}
        <5>1. \A j \in 1..(i - 1) : j \in 1..Len(journal[e])
          BY <1>7
        <5>2. \A j \in 1..(i - 1) : Append(journal[e], op)[j] = journal[e][j]
          BY <1>7, <5>1
        <5>. QED
          BY <5>2
      <4>2. CASE i \in 1..Len(journal[e])
        <5>1. Append(journal[e], op)[i] = journal[e][i] /\ Sound(journal[e], Orphans(e))
          BY <1>1, <1>7, <4>2 DEF JournalInv
        <5>. QED
          BY <4>1, <4>2, <5>1 DEF Sound
      <4>3. CASE i = Len(journal[e]) + 1
        <5>1. Append(journal[e], op)[i] = op /\ 1..(i - 1) = 1..Len(journal[e])
          BY <1>7, <4>3
        <5>2. /\ op \in Keyed => op \notin Range(content[e])
              /\ Needs[op] \subseteq Range(content[e])
          BY <1>3 DEF Accepts
        <5>. QED
          BY <1>6, <1>7, <4>1, <5>1, <5>2
      <4>. QED
        BY <1>7, <4>2, <4>3
    <3>. QED
      BY <3>1 DEF Sound
  <2>2. \A s \in Services : (Orphans(s))' = Orphans(s)
    BY <1>3 DEF Orphans
  <2>. QED
    BY <1>4, <2>1, <2>2 DEF JournalInv
<1>9. ASSUME NEW s \in Services
      PROVE  /\ Range(journal'[s]) \subseteq Range(content'[s])
             /\ Range(content'[s]) \subseteq Range(journal'[s]) \cup (Orphans(s))'
  <2>1. CASE s = e
    <3>1. /\ Range(journal'[s]) = Range(journal[e]) \cup {op}
          /\ Range(content'[s]) = Range(content[e]) \cup {op}
          /\ (Orphans(s))' = Orphans(e)
      BY <1>3, <1>4, <1>5, <2>1, RangeFacts DEF Orphans
    <3>. QED
      BY <1>6, <3>1
  <2>2. CASE s # e
    BY <1>1, <1>2, <1>3, <1>4, <2>2 DEF SeedInv, Orphans
  <2>. QED
    BY <2>1, <2>2
<1>10. SeedInv'
  BY <1>1, <1>3, <1>9 DEF SeedInv, TestSteps
<1>. QED
  BY <1>8, <1>10

(* One that fails is not recorded; what it has left becomes an orphan.     *)
LEMMA SeedFailsSeeds ==
  ASSUME IInv, JournalInv, SeedInv, SeededEarly, NEW op \in Ops, SeedFails(op)
  PROVE  (JournalInv /\ SeedInv)'
<1>. DEFINE e == ServiceOf[op]
<1>1. TypeOK /\ pc = "between" /\ e \in Services
  BY SandboxAssumption DEF IInv, SeedFails
<1>2. tests = 0
  BY <1>1 DEF SeedFails, SeededEarly, TypeOK
<1>3. /\ UNCHANGED <<pc, tests, k, journal>>
      /\ unrecorded' = IF content' = content THEN unrecorded ELSE unrecorded \cup {op}
      /\ content' = content \/ content' = [content EXCEPT ![e] = Append(@, op)]
  BY DEF SeedFails, FailToAdd, loop
<1>4. unrecorded \subseteq unrecorded'
  BY <1>3
<1>5. JournalInv'
  <2>1. \A s \in Services : Orphans(s) \subseteq (Orphans(s))'
    BY <1>4 DEF Orphans
  <2>2. \A s \in Services : Sound(journal'[s], (Orphans(s))')
    BY <1>3, <2>1, SoundKept DEF JournalInv
  <2>. QED
    BY <2>2 DEF JournalInv
<1>6. ASSUME NEW s \in Services
      PROVE  /\ Range(journal'[s]) \subseteq Range(content'[s])
             /\ Range(content'[s]) \subseteq Range(journal'[s]) \cup (Orphans(s))'
  <2>1. /\ Range(journal[s]) \subseteq Range(content[s])
        /\ Range(content[s]) \subseteq Range(journal[s]) \cup Orphans(s)
    BY <1>1, <1>2 DEF SeedInv
  <2>2. CASE content'[s] = content[s]
    BY <1>3, <1>4, <2>1, <2>2 DEF Orphans
  <2>3. CASE content'[s] # content[s]
    <3>1. s = e /\ content'[s] = Append(content[s], op) /\ op \in unrecorded'
      BY <1>1, <1>3, <2>3 DEF TypeOK
    <3>2. content[s] \in Seq(Rows) /\ op \in Rows
      BY <1>1 DEF TypeOK, Rows
    <3>3. Range(content'[s]) = Range(content[s]) \cup {op}
      BY <3>1, <3>2, RangeFacts
    <3>. QED
      BY <1>3, <1>4, <2>1, <3>1, <3>3 DEF Orphans
  <2>. QED
    BY <2>2, <2>3
<1>7. SeedInv'
  BY <1>1, <1>3, <1>6 DEF SeedInv, TestSteps
<1>. QED
  BY <1>5, <1>7

(* No other step touches a journal, nor a service before the first test.   *)
LEMMA SeedStep ==
  ASSUME IInv, JournalInv, SeedInv, NoneKept, SeededEarly, [Next]_vars
  PROVE  (JournalInv /\ SeedInv)'
<1>1. TypeOK /\ kept = "none"
  BY DEF IInv, NoneKept
<1>2. ASSUME UNCHANGED <<journal, unrecorded>>, SeedInv' PROVE (JournalInv /\ SeedInv)'
  <2>1. \A s \in Services : journal'[s] = journal[s] /\ (Orphans(s))' = Orphans(s)
    BY <1>2 DEF Orphans
  <2>. QED
    BY <1>2, <2>1 DEF JournalInv
<1>3. ASSUME UNCHANGED <<journal, unrecorded, content, tests>>,
             (pc' = pc /\ k' = k) \/ pc' \notin {"new", "engines"},
             pc' \in StartSteps \cup {"between"} =>
               tests > 0 \/ pc \in StartSteps \cup {"between"},
             pc' \in TestSteps \ {"between"} => pc \in TestSteps \ {"between"}
      PROVE  (JournalInv /\ SeedInv)'
  <2>1. \A s \in Services : (Orphans(s))' = Orphans(s)
    BY <1>3 DEF Orphans
  <2>2. tests \in Nat
    BY <1>1 DEF TypeOK
  <2>3. tests = 0 /\ pc' \in StartSteps \cup {"between"} => pc \in StartSteps \cup {"between"}
    BY <1>3, <2>2
  <2>4. SeedInv'
    BY <1>3, <2>1, <2>3 DEF SeedInv
  <2>. QED
    BY <1>2, <1>3, <2>4
<1>. USE DEF StartSteps, TestSteps, StopSteps
<1>4. ASSUME UNCHANGED <<journal, unrecorded>>,
             pc' \in {"presets", "body", "apply", "ensure", "send", "clear"}, tests' > 0
      PROVE  (JournalInv /\ SeedInv)'
  <2>1. tests' # 0
    BY <1>4
  <2>. QED
    BY <1>2, <1>4, <2>1 DEF SeedInv
<1>5. ASSUME UNCHANGED <<journal, unrecorded>>, pc' \in StopSteps \cup {"ended"}
      PROVE  (JournalInv /\ SeedInv)'
  BY <1>2, <1>5 DEF SeedInv
<1>6. CASE CreateNetwork
  <2>1. /\ pc = "new" /\ pc' = "engines"
        /\ UNCHANGED <<journal, unrecorded, content, tests, k>>
    BY <1>6 DEF CreateNetwork, Goto, loop, bounds, history
  <2>2. SeedInv'
    BY <2>1 DEF SeedInv, Orphans
  <2>. QED
    BY <1>2, <2>1, <2>2
<1>7. CASE StartEngine
  BY <1>7, StartSeeds
<1>8. CASE EnginesStarted \/ StartInstance \/ Announce
  <2>1. /\ pc \in StartSteps /\ pc' \in {"instance", "announce", "between"}
        /\ UNCHANGED <<journal, unrecorded, content, tests>>
    BY <1>8 DEF EnginesStarted, StartInstance, Announce, Goto, object, world, bounds,
       history
  <2>. QED
    BY <1>3, <2>1
<1>9. CASE CreateNetworkFails \/ StartEngineFails \/ AddressFails \/ StartInstanceFails
             \/ AnnounceFails \/ Finalize \/ Stopping \/ Interrupts \/ Reap
  <2>1. pc' \in StopSteps \cup {"ended"} /\ UNCHANGED <<journal, unrecorded>>
    BY <1>9 DEF CreateNetworkFails, StartEngineFails, AddressFails, StartInstanceFails,
       AnnounceFails, Stopping, Finalize, StopInstance, StopEngine, EnginesStopped,
       RemoveNetwork, Interrupts, InterruptStart, InterruptTest, InterruptStop, Reap,
       Goto, object, history
  <2>. QED
    BY <1>5, <2>1
<1>10. CASE OpenBoundary \/ CloseBoundary \/ KeepView \/ InstanceDies
              \/ PresetsEnqueued \/ NextGroup \/ PendingApplied \/ EnsureService
  <2>1. /\ UNCHANGED <<journal, unrecorded, content, tests, k>>
        /\ pc' = pc \/ {pc, pc'} \subseteq {"presets", "body", "apply", "ensure", "send"}
    BY <1>10 DEF OpenBoundary, CloseBoundary, KeepView, InstanceDies, PresetsEnqueued,
       NextGroup, PendingApplied, EnsureService, Raise, Goto, object, world, loop,
       bounds, history
  <2>. QED
    BY <1>3, <2>1
<1>11. CASE PresetsRejected \/ EndTest
  <2>1. /\ UNCHANGED <<journal, unrecorded, content, tests>>
        /\ pc \in {"presets", "body"} /\ pc' = "between"
    BY <1>11 DEF PresetsRejected, EndTest, Goto, object, world, bounds, history
  <2>2. tests > 0
    BY <2>1 DEF SeedInv
  <2>. QED
    BY <1>3, <2>1, <2>2
<1>12. CASE ResetEngineFails
  <2>1. pc = "clear" /\ pc' = "between" /\ UNCHANGED <<journal, unrecorded, tests>>
    BY <1>12 DEF ResetEngineFails, Goto, object, history
  <2>2. tests' # 0
    BY <1>1, <2>1 DEF SeedInv, TypeOK
  <2>3. SeedInv'
    BY <2>1, <2>2 DEF SeedInv
  <2>. QED
    BY <1>2, <2>1, <2>3
<1>13. CASE BeginTest
  <2>1. pc' = "clear" /\ tests' = tests + 1 /\ UNCHANGED <<journal, unrecorded>>
    BY <1>13 DEF BeginTest, Goto, object, history
  <2>2. tests \in Nat /\ tests' = tests + 1
    BY <1>1, <2>1 DEF TypeOK
  <2>3. tests' > 0
    BY <2>2
  <2>. QED
    BY <1>4, <2>1, <2>3
<1>14. CASE ResetEngine \/ NewTestBatch \/ Call \/ ApplyNext \/ ApplyFails \/ Send
              \/ SendFails
  <2>1. /\ pc \in TestSteps \ {"between"}
        /\ pc' \in {"presets", "body", "apply", "ensure", "send", "clear"}
        /\ UNCHANGED <<journal, unrecorded, tests>>
    BY <1>14 DEF ResetEngine, NewTestBatch, Call, ApplyNext, ApplyFails, Raise, Send,
       SendFails, Goto, object, bounds, history
  <2>. QED
    BY <1>4, <2>1 DEF SeedInv
<1>15. ASSUME NEW op \in Ops, EnqueuePreset(op) \/ Declare(op)
       PROVE  (JournalInv /\ SeedInv)'
  <2>1. /\ pc \in {"presets", "body"} /\ pc' = pc /\ UNCHANGED <<journal, unrecorded, tests>>
    BY <1>15 DEF EnqueuePreset, Declare
  <2>. QED
    BY <1>4, <2>1 DEF SeedInv
<1>16. ASSUME NEW op \in Ops, DeclareOnKeptView(op) PROVE (JournalInv /\ SeedInv)'
  BY <1>1, <1>16 DEF DeclareOnKeptView
<1>20. ASSUME NEW op \in Ops, DeclareAtOnce(op) \/ DeclareAtOnceFails(op)
       PROVE  (JournalInv /\ SeedInv)'
  <2>1. pc \in {"presets", "body"} /\ boundary
    BY <1>1, <1>20 DEF DeclareAtOnce, DeclareAtOnceFails, AtOnce
  <2>. QED
    BY <2>1 DEF SeedInv, SeededEarly
<1>17. ASSUME NEW op \in Ops, Seed(op) PROVE (JournalInv /\ SeedInv)'
  BY <1>17, SeedSeeds
<1>18. ASSUME NEW op \in Ops, SeedFails(op) PROVE (JournalInv /\ SeedInv)'
  BY <1>18, SeedFailsSeeds
<1>19. CASE UNCHANGED vars
  <2>1. UNCHANGED <<journal, unrecorded, content, tests, k, pc>>
    BY <1>19 DEF vars
  <2>. QED
    BY <1>3, <2>1
<1>. HIDE DEF StartSteps, TestSteps, StopSteps
<1>. QED
  BY <1>6, <1>7, <1>8, <1>9, <1>10, <1>11, <1>12, <1>13, <1>14, <1>15, <1>16,
     <1>17, <1>18, <1>19, <1>20 DEF Next, Session, Starting, Seeding, Testing

(* docs/sandbox/api.md: in a suite that opens and closes its boundaries    *)
(* before its first test and keeps no view, a reset can replay every       *)
(* journal that refers neither to what a migration nor to what a failed    *)
(* operation has left: however often boundaries are opened, and whatever   *)
(* fails in them.                                                          *)
THEOREM SandboxReplays ==
  ASSUME "kept view" \notin Habits, "late seeding" \notin Habits,
         "open boundary" \notin Habits
  PROVE  Spec => []BaselineReplays
<1>1. Init => JournalInv /\ SeedInv /\ NoneKept /\ SeededEarly
  <2>. SUFFICES ASSUME Init PROVE JournalInv /\ SeedInv
    BY InitSeeded DEF Init, NoneKept
  <2>1. /\ pc = "new" /\ \A s \in Services : journal[s] = <<>> /\ content[s] = <<>>
    BY DEF Init
  <2>3. JournalInv
    BY <2>1, RangeEmpty DEF JournalInv, Sound
  <2>4. SeedInv
    BY <2>1, RangeEmpty, OrderFacts DEF SeedInv, TestSteps
  <2>. QED
    BY <2>3, <2>4
<1>2. IInv /\ NoneKept /\ SeededEarly /\ [Next]_vars => NoneKept' /\ SeededEarly'
  BY HabitStep DEF IInv, TypeOK, TypeCount
<1>3. IInv /\ NoneKept /\ SeededEarly /\ JournalInv /\ SeedInv /\ [Next]_vars
        => (JournalInv /\ SeedInv)'
  BY SeedStep
<1>4. IInv /\ JournalInv => BaselineReplays
  BY JournalReplays DEF IInv
<1>. QED
  BY <1>1, <1>2, <1>3, <1>4, SandboxInvariant, PTL DEF Spec

=============================================================================
