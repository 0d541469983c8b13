----------------------- MODULE ClusterObjectsProofs -----------------------
(***************************************************************************)
(* What holds of the objects of runs for any number of namespaces,         *)
(* threads, runs and failures.                                             *)
(***************************************************************************)
EXTENDS ClusterObjects, TLAPS

USE DEF Object, Kinds, Obj

---------------------------------------------------------------------------
(* Commands that change the cluster. *)

LEMMA IndexZero == 0 \in Index
BY SizeAssumption DEF Index

LEMMA PlanNames == ASSUME plan \in Plans, NEW i \in Index
                   PROVE plan[i] \in Names /\ plan[i] \in Spaces /\ plan[i] # SyncSpace
BY NameAssumption DEF Plans, Spaces

LEMMA SyncNsIsSpace == ASSUME plan \in Plans PROVE SyncNs \in Spaces
BY IndexZero, PlanNames DEF SyncNs, Spaces

\* Whatever becomes of a command, some of its objects that the cluster takes are there after it.
LEMMA CommandAccepts ==
  ASSUME NEW os, Submitted(os) \/ NotSubmitted(os), failures \in 0 .. MaxFailures
  PROVE  /\ \E part \in SUBSET os : (\A o \in part : Acceptable(o)) /\ Accept(part)
         /\ failures' \in 0 .. MaxFailures
<1>1. CASE Submitted(os)
  BY <1>1 DEF Submitted, Works
<1>2. CASE NotSubmitted(os)
  <2>1. CASE Accept({o \in os : Acceptable(o)}) /\ Works
    BY <2>1 DEF Works
  <2>2. CASE Fails /\ \E part \in SUBSET {o \in os : Acceptable(o)} : Accept(part)
    BY <2>2, BoundAssumption DEF Fails
  <2> QED BY <1>2, <2>1, <2>2 DEF NotSubmitted
<1> QED BY <1>1, <1>2

LEMMA AcceptKeepsCluster ==
  ASSUME ClusterOK, NEW os, os \subseteq Object, \A o \in os : Acceptable(o), Accept(os)
  PROVE  ClusterOK'
<1> DEFINE new == {o.ns : o \in {p \in os : p.kind = "Namespace"}}
<1>1. /\ spaces' = spaces \cup new /\ labelled' = labelled \cup new
      /\ objects' = objects \cup {o \in os : o.kind # "Namespace"} /\ terminating' = terminating
  BY DEF Accept
<1>2. new \subseteq Spaces
  OBVIOUS
<1>3. \A o \in os : o.kind # "Namespace" => o.ns \in spaces
  BY DEF Acceptable
<1> QED BY <1>1, <1>2, <1>3 DEF ClusterOK

LEMMA CommandKeepsCluster ==
  ASSUME ClusterOK, failures \in 0 .. MaxFailures, NEW os, os \subseteq Object,
         Submitted(os) \/ NotSubmitted(os)
  PROVE  ClusterOK' /\ failures' \in 0 .. MaxFailures
BY CommandAccepts, AcceptKeepsCluster

LEMMA WithoutKeepsCluster ==
  ASSUME ClusterOK, NEW gone, Without(gone)
  PROVE  ClusterOK'
BY DEF ClusterOK, Without

LEMMA DeletesKeepCluster ==
  ASSUME ClusterOK, NEW kinds, failures \in 0 .. MaxFailures,
         DeletesSpaces \/ LeavesSpaces \/ DeletesObjects(kinds) \/ LeavesObjects(kinds)
  PROVE  ClusterOK' /\ failures' \in 0 .. MaxFailures
<1>1. CASE DeletesSpaces
  BY <1>1, WithoutKeepsCluster DEF DeletesSpaces, Works
<1>2. CASE LeavesSpaces
  BY <1>2, BoundAssumption DEF LeavesSpaces, Fails, ClusterOK
<1>3. CASE DeletesObjects(kinds)
  BY <1>3 DEF DeletesObjects, Works, ClusterOK
<1>4. CASE LeavesObjects(kinds)
  BY <1>4, BoundAssumption DEF LeavesObjects, Fails, ClusterOK
<1> QED BY <1>1, <1>2, <1>3, <1>4

LEMMA BuiltObjects ==
  ASSUME NEW type \in Types, NEW n \in Spaces
  PROVE  Built(type, n) \subseteq Object
BY ObjectAssumption DEF Types, Built, SecretsOf

LEMMA FlushTyped ==
  ASSUME ClusterOK, failures \in 0 .. MaxFailures, strides \in [Strides -> StrideRecords],
         NEW s \in Strides, NEW stride \in StrideRecords, Flush(s, stride)
  PROVE  ClusterOK' /\ failures' \in 0 .. MaxFailures /\ strides' \in [Strides -> StrideRecords]
<1>1. stride.buffer \subseteq Object
  BY DEF StrideRecords
<1>2. ClusterOK' /\ failures' \in 0 .. MaxFailures
  BY <1>1, CommandKeepsCluster DEF Flush
<1>3. strides' \in [Strides -> StrideRecords]
  BY DEF Flush, Put, StrideRecords
<1> QED BY <1>2, <1>3

LEMMA StridesBegin == /\ AllIdle \in [Strides -> StrideRecords] /\ Begun \in [Strides -> StrideRecords]
BY DEF AllIdle, Idle, Begun, Share, StrideRecords

---------------------------------------------------------------------------
(* Types. *)

LEMMA NoPlanTyped == NoPlan \in Plans
BY NameAssumption DEF NoPlan, Plans

LEMMA InitTypeOK == Init => TypeOK
<1> SUFFICES ASSUME Init PROVE TypeOK
  OBVIOUS
<1>1. ClusterOK BY NameAssumption DEF Init, ClusterOK
<1>2. RunOK BY NoPlanTyped DEF Init, RunOK, Phases, Over
<1>3. StridesOK BY StridesBegin DEF Init, StridesOK
<1>4. SweepOK
  <2>1. misses \in 0 .. MaxQueryFailures - 1 BY BoundAssumption DEF Init
  <2>2. sweep \in {"pre", "final"} /\ removes \in BOOLEAN /\ ok \in BOOLEAN BY Zenon DEF Init
  <2> QED BY <2>1, <2>2 DEF SweepOK
<1>5. HistoryOK
  <2>1. failures \in 0 .. MaxFailures /\ runs \in 0 .. MaxRuns BY BoundAssumption DEF Init
  <2>2. before \subseteq Spaces /\ doomed \subseteq Spaces BY DEF Init
  <2>3. blind \in BOOLEAN /\ swept \in BOOLEAN BY Zenon DEF Init
  <2> QED BY <2>1, <2>2, <2>3 DEF HistoryOK
<1> QED BY <1>1, <1>2, <1>3, <1>4, <1>5 DEF TypeOK

LEMMA StrideTyped ==
  ASSUME TypeOK, NEW s \in Strides, Stride(s)
  PROVE  TypeOK'
<1> USE DEF TypeOK
<1>1. RunOK' /\ SweepOK'
  BY DEF Stride, Build, Add, StrideEnds, strideRest, runVars, endVars, sweepVars, RunOK, SweepOK
<1>2. strides[s] \in StrideRecords /\ strides[s].state = "busy" /\ pc \in Types /\ pc' = pc
  <2>1. strides[s] \in StrideRecords
    BY DEF StridesOK
  <2>2. strides[s].state = "busy" /\ pc' = pc
    BY DEF Stride, Build, Add, StrideEnds, strideRest
  <2>3. pc \in Types
    BY <2>2 DEF StridesOK, AllIdle, Idle
  <2> QED BY <2>1, <2>2, <2>3
<1>3. ClusterOK' /\ failures' \in 0 .. MaxFailures /\ strides' \in [Strides -> StrideRecords]
  <2>1. CASE Build(s)
    <3>1. PICK i \in strides[s].left :
            Put(s, [strides[s] EXCEPT !.left = @ \ {i}, !.todo = Built(pc, plan[i])])
      BY <2>1 DEF Build
    <3>2. i \in Index
      BY <1>2 DEF StrideRecords
    <3>3. Built(pc, plan[i]) \subseteq Object
      BY <1>2, <3>2, PlanNames, BuiltObjects DEF RunOK
    <3>4. strides' \in [Strides -> StrideRecords]
      BY <1>2, <3>1, <3>3 DEF Put, StrideRecords, StridesOK
    <3> QED BY <2>1, <3>4 DEF Build, clusterVars, ClusterOK, HistoryOK
  <2>2. CASE Add(s)
    <3>1. PICK o \in strides[s].todo :
            LET added == [strides[s] EXCEPT !.todo = @ \ {o}, !.buffer = @ \cup {o}] IN
            Flush(s, added) \/ (Put(s, added) /\ UNCHANGED <<clusterVars, failures>>)
      BY <2>2 DEF Add
    <3> DEFINE added == [strides[s] EXCEPT !.todo = @ \ {o}, !.buffer = @ \cup {o}]
    <3>2. added \in StrideRecords
      BY <1>2 DEF StrideRecords
    <3>3. CASE Flush(s, added)
      BY <3>2, <3>3, FlushTyped DEF StridesOK, HistoryOK
    <3>4. CASE Put(s, added) /\ UNCHANGED <<clusterVars, failures>>
      BY <3>2, <3>4 DEF Put, StridesOK, HistoryOK, ClusterOK, clusterVars
    <3> QED BY <3>1, <3>3, <3>4
  <2>3. CASE StrideEnds(s)
    <3>1. [strides[s] EXCEPT !.state = "done"] \in StrideRecords
      BY <1>2 DEF StrideRecords
    <3> QED BY <2>3, <3>1, FlushTyped DEF StrideEnds, StridesOK, HistoryOK
  <2> QED BY <2>1, <2>2, <2>3 DEF Stride
<1>4. HistoryOK'
  BY <1>3 DEF Stride, Build, Add, StrideEnds, strideRest, historyVars, HistoryOK
<1> QED BY <1>1, <1>2, <1>3, <1>4 DEF StridesOK

\* The steps of the main thread that leave the cluster alone.
LEMMA QuietTyped ==
  ASSUME TypeOK,
         Refuse \/ SetUp \/ Allocate \/ CheckNamespaces \/ EndStrides \/ Creates \/ WaitForSecrets
         \/ DoLogging \/ Signal
  PROVE  TypeOK'
<1> USE DEF TypeOK
<1>1. ClusterOK' /\ SweepOK'
  BY DEF Refuse, SetUp, Allocate, CheckNamespaces, EndStrides, Creates, CreateStrides,
         WaitForSecrets, DoLogging, Signal, mainRest, clusterVars, sweepVars, ClusterOK, SweepOK
<1>2. HistoryOK'
  <2>1. failures' \in 0 .. MaxFailures
    <3>1. Fails \/ failures' = failures
      BY DEF Refuse, SetUp, Allocate, CheckNamespaces, EndStrides, Creates, CreateStrides,
         WaitForSecrets, DoLogging, Signal, Works
    <3> QED BY <3>1, BoundAssumption DEF Fails, HistoryOK
  <2>2. CASE CheckNamespaces
    BY <2>1, <2>2 DEF CheckNamespaces, HistoryOK, ClusterOK
  <2>3. CASE ~CheckNamespaces
    BY <2>1, <2>3 DEF Refuse, SetUp, Allocate, EndStrides, Creates,
         CreateStrides, WaitForSecrets, DoLogging, Signal, historyVars, HistoryOK
  <2> QED BY <2>2, <2>3
<1>3. RunOK'
  <2> USE DEF RunOK, mainRest, runVars, endVars
  <2>1. CASE Refuse \/ SetUp \/ Creates \/ WaitForSecrets
    BY <2>1 DEF Refuse, SetUp, Creates, CreateStrides, WaitForSecrets, Phases
  <2>5. CASE DoLogging
    BY <2>5 DEF DoLogging, Phases
  <2>6. CASE Signal
    BY <2>6 DEF Signal
  <2>2. CASE Allocate
    BY <2>2 DEF Allocate, PlansAround, Phases
  <2>3. CASE CheckNamespaces
    <3>1. existing' \subseteq Spaces
      BY <2>3 DEF CheckNamespaces, ClusterOK
    <3>2. effective' \in Policies \cup {"undecided"}
      BY <2>3, ConfigurationAssumption DEF CheckNamespaces, Options, Policies
    <3> QED BY <2>3, <3>1, <3>2 DEF CheckNamespaces, Phases, Types
  <2>4. CASE EndStrides
    <3>1. pc' \in Phases /\ status' \in {0, 1}
      <4>1. pc \in Types => AfterStrides(pc) \in Phases
        BY DEF AfterStrides, Types, Phases
      <4>2. pc \in Types /\ (pc' = "final" \/ pc' = AfterStrides(pc))
        BY <2>4 DEF EndStrides
      <4>3. status' \in {0, 1}
        BY <2>4 DEF EndStrides
      <4> QED BY <4>1, <4>2, <4>3 DEF Phases
    <3>2. started' \in BOOLEAN
      BY <2>4 DEF EndStrides
    <3> QED BY <2>4, <3>1, <3>2 DEF EndStrides
  <2> QED BY <2>1, <2>2, <2>3, <2>4, <2>5, <2>6
<1>4. StridesOK'
  <2> USE DEF StridesOK
  <2>1. CASE Refuse
    BY <2>1, StridesBegin DEF Refuse
  <2>2. CASE SetUp \/ Allocate \/ WaitForSecrets \/ DoLogging \/ Signal
    BY <2>2 DEF SetUp, Allocate, WaitForSecrets, DoLogging, Signal, Types
  <2>3. CASE CheckNamespaces \/ Creates
    BY <2>3, StridesBegin DEF CheckNamespaces, Creates, CreateStrides, Start, Types
  <2>4. CASE EndStrides
    BY <2>4, StridesBegin DEF EndStrides
  <2> QED BY <2>1, <2>2, <2>3, <2>4
<1> QED BY <1>1, <1>2, <1>3, <1>4

\* The main thread's commands.
LEMMA ApplyTyped ==
  ASSUME TypeOK, NEW os, os \subseteq Object, NEW next, next \in Phases, Apply(os, next)
  PROVE  ClusterOK' /\ RunOK' /\ SweepOK' /\ HistoryOK'
<1>1. ClusterOK' /\ failures' \in 0 .. MaxFailures
  BY CommandKeepsCluster DEF Apply, TypeOK, HistoryOK
<1>2. RunOK'
  BY DEF Apply, TypeOK, RunOK, mainRest, runVars, endVars, Phases
<1>3. SweepOK'
  BY DEF Apply, TypeOK, SweepOK, mainRest, sweepVars, endVars
<1>4. HistoryOK'
  BY <1>1 DEF Apply, TypeOK, HistoryOK, mainRest, historyVars, endVars
<1> QED BY <1>1, <1>2, <1>3, <1>4

LEMMA CommandTyped ==
  ASSUME TypeOK, SyncNamespace \/ SyncFiles \/ SyncService \/ SyncPod \/ Services
  PROVE  TypeOK'
<1> USE DEF TypeOK
<1>1. SyncNs \in Spaces /\ Used \subseteq Spaces /\ SyncSpace \in Spaces
  BY PlanNames, SyncNsIsSpace DEF RunOK, Used, Spaces
<1>2. CASE SyncNamespace
  <2>1. {Obj("Namespace", SyncSpace, 0)} \subseteq Object /\ {} \subseteq Object
    BY <1>1
  <2>2. Apply({Obj("Namespace", SyncSpace, 0)}, "configmaps") \/ Apply({}, "configmaps")
    BY <1>2 DEF SyncNamespace
  <2> QED BY <1>2, <2>1, <2>2, ApplyTyped DEF SyncNamespace, StridesOK, Types, Phases
<1>3. CASE SyncFiles
  <2>1. {Obj("System", SyncSpace, 0)} \subseteq Object /\ {} \subseteq Object
    BY <1>1
  <2>2. Apply({Obj("System", SyncSpace, 0)}, "sync service") \/ Apply({}, "sync service")
    BY <1>3 DEF SyncFiles
  <2> QED BY <1>3, <2>1, <2>2, ApplyTyped DEF SyncFiles, Start, StridesOK, Types, Phases
<1>4. CASE SyncService
  <2>1. {Obj("Service", SyncNs, 0)} \subseteq Object
    BY <1>1
  <2>2. Apply({Obj("Service", SyncNs, 0)}, "sync pod")
    BY <1>4 DEF SyncService
  <2> QED BY <1>4, <2>1, <2>2, ApplyTyped DEF SyncService, StridesOK, Types, Phases
<1>5. CASE SyncPod
  <2>1. {Obj("SyncPod", SyncNs, 0)} \subseteq Object
    BY <1>1
  <2>2. Apply({Obj("SyncPod", SyncNs, 0)}, "services")
    BY <1>5 DEF SyncPod
  <2> QED BY <1>5, <2>1, <2>2, ApplyTyped DEF SyncPod, StridesOK, Types, Phases
<1>6. CASE Services
  <2>1. ExternalServices \subseteq Object
    BY <1>1 DEF ExternalServices
  <2>2. ClusterOK' /\ RunOK' /\ SweepOK' /\ HistoryOK'
    BY <1>6, <2>1, ApplyTyped DEF Services, Phases, Types
  <2>3. StridesOK'
    BY <1>6, StridesBegin DEF Services, Apply, StridesOK, Types
  <2> QED BY <2>2, <2>3
<1> QED BY <1>2, <1>3, <1>4, <1>5, <1>6

\* cleanup.py
LEMMA SweepEndsTyped == ASSUME SweepEnds PROVE pc' \in Phases \ Types
BY DEF SweepEnds, Phases, Over, Types

LEMMA SweepTyped ==
  ASSUME TypeOK, Sweep
  PROVE  TypeOK'
<1> USE DEF TypeOK
<1>1. pc' \in Phases \ Types /\ pc \notin Types
  <2>1. CASE Precleanup BY <2>1 DEF Precleanup, BeginSweep, Phases, Over, Types
  <2>2. CASE FinalCleanup BY <2>2 DEF FinalCleanup, BeginSweep, Phases, Over, Types
  <2>3. CASE DeleteSync BY <2>3 DEF DeleteSync, Phases, Over, Types
  <2>4. CASE Delete BY <2>4 DEF Delete, AfterDelete, SweepEnds, Phases, Over, Types
  <2>5. CASE ForceCleanup BY <2>5 DEF ForceCleanup, SweepEnds, Phases, Over, Types
  <2>6. CASE ForceSpaces BY <2>6 DEF ForceSpaces, Phases, Over, Types
  <2>7. CASE Poll BY <2>7 DEF Poll, SweepEnds, Phases, Over, Types
  <2> QED BY <2>1, <2>2, <2>3, <2>4, <2>5, <2>6, <2>7 DEF Sweep
<1>2. UNCHANGED <<cfg, runVars, endVars, strides, before, doomed, runs>>
  <2>1. CASE Precleanup BY <2>1 DEF Precleanup, sweepRest
  <2>2. CASE FinalCleanup BY <2>2 DEF FinalCleanup, sweepRest
  <2>3. CASE DeleteSync BY <2>3 DEF DeleteSync, sweepRest
  <2>4. CASE Delete BY <2>4 DEF Delete, sweepRest
  <2>5. CASE ForceCleanup BY <2>5 DEF ForceCleanup, sweepRest
  <2>6. CASE ForceSpaces BY <2>6 DEF ForceSpaces, sweepRest
  <2>7. CASE Poll BY <2>7 DEF Poll, sweepRest
  <2> QED BY <2>1, <2>2, <2>3, <2>4, <2>5, <2>6, <2>7 DEF Sweep
<1>3. RunOK' /\ StridesOK'
  BY <1>1, <1>2 DEF runVars, endVars, RunOK, StridesOK
<1>4. ClusterOK' /\ failures' \in 0 .. MaxFailures
  <2>1. CASE \/ DeletesSpaces \/ LeavesSpaces
            \/ \E kinds \in {Kinds, {"SyncPod"}} : DeletesObjects(kinds) \/ LeavesObjects(kinds)
    BY <2>1, DeletesKeepCluster DEF HistoryOK
  <2>2. CASE UNCHANGED clusterVars /\ (Works \/ Fails)
    BY <2>2, BoundAssumption DEF clusterVars, ClusterOK, Works, Fails, HistoryOK
  <2>3. CASE Precleanup \/ FinalCleanup \/ Poll
    BY <2>2, <2>3 DEF Precleanup, FinalCleanup, Poll, Works
  <2>4. CASE DeleteSync
    BY <2>1, <2>2, <2>4 DEF DeleteSync
  <2>5. CASE Delete
    BY <2>1, <2>5 DEF Delete
  <2>6. CASE ForceCleanup
    BY <2>1, <2>6 DEF ForceCleanup
  <2>7. CASE ForceSpaces
    BY <2>1, <2>7 DEF ForceSpaces
  <2> QED BY <2>3, <2>4, <2>5, <2>6, <2>7 DEF Sweep
<1>5. SweepOK'
  <2>1. CASE Precleanup \/ FinalCleanup
    <3>1. CASE UNCHANGED sweepVars
      BY <3>1 DEF sweepVars, SweepOK
    <3>2. ASSUME NEW which \in {"pre", "final"}, NEW policy, BeginSweep(which, policy)
          PROVE  SweepOK'
      <4>1. sweep' \in {"pre", "final"}
        BY <3>2 DEF BeginSweep
      <4>2. misses' \in 0 .. MaxQueryFailures - 1
        <5>1. misses' = 0 BY <3>2, Zenon DEF BeginSweep
        <5> QED BY <5>1, BoundAssumption
      <4>3. removes' \in BOOLEAN
        BY <3>2, Zenon DEF BeginSweep
      <4>4. ok' \in BOOLEAN
        BY <3>2, Zenon DEF BeginSweep
      <4> QED BY <4>1, <4>2, <4>3, <4>4 DEF SweepOK
    <3> QED BY <2>1, <3>1, <3>2 DEF Precleanup, FinalCleanup
  <2>2. CASE DeleteSync \/ Delete \/ ForceCleanup \/ ForceSpaces
    <3>1. ok' \in BOOLEAN
      <4>1. CASE DeleteSync BY <4>1, Zenon DEF DeleteSync
      <4>2. CASE Delete BY <4>2, Zenon DEF Delete, SweepOK
      <4>3. CASE ForceCleanup BY <4>3, Zenon DEF ForceCleanup, SweepOK
      <4>4. CASE ForceSpaces BY <4>4, Zenon DEF ForceSpaces
      <4> QED BY <2>2, <4>1, <4>2, <4>3, <4>4
    <3>2. sweep' = sweep /\ removes' = removes /\ misses' = misses
      <4>1. CASE DeleteSync BY <4>1 DEF DeleteSync
      <4>2. CASE Delete BY <4>2 DEF Delete
      <4>3. CASE ForceCleanup BY <4>3 DEF ForceCleanup
      <4>4. CASE ForceSpaces BY <4>4 DEF ForceSpaces
      <4> QED BY <2>2, <4>1, <4>2, <4>3, <4>4
    <3> QED BY <3>1, <3>2 DEF SweepOK
  <2>3. CASE Poll
    <3>1. misses' \in 0 .. MaxQueryFailures - 1
      BY <2>3, BoundAssumption DEF Poll, GiveUp, SweepOK
    <3> QED BY <2>3, <3>1 DEF Poll, SweepOK
  <2> QED BY <2>1, <2>2, <2>3 DEF Sweep
<1>6. HistoryOK'
  <2>1. blind' \in BOOLEAN
    <3>1. CASE Precleanup BY <3>1, Zenon DEF Precleanup, HistoryOK
    <3>2. CASE FinalCleanup BY <3>2 DEF FinalCleanup, HistoryOK
    <3>3. CASE DeleteSync BY <3>3 DEF DeleteSync, HistoryOK
    <3>4. CASE Delete BY <3>4 DEF Delete, HistoryOK
    <3>5. CASE ForceCleanup BY <3>5 DEF ForceCleanup, HistoryOK
    <3>6. CASE ForceSpaces BY <3>6 DEF ForceSpaces, HistoryOK
    <3>7. CASE Poll BY <3>7 DEF Poll, HistoryOK
    <3> QED BY <3>1, <3>2, <3>3, <3>4, <3>5, <3>6, <3>7 DEF Sweep
  <2>2. swept' \in BOOLEAN
    <3>1. CASE Precleanup BY <3>1 DEF Precleanup, HistoryOK
    <3>2. CASE FinalCleanup BY <3>2 DEF FinalCleanup, HistoryOK
    <3>3. CASE DeleteSync BY <3>3 DEF DeleteSync, HistoryOK
    <3>4. CASE Delete BY <3>4, Zenon DEF Delete, HistoryOK
    <3>5. CASE ForceCleanup BY <3>5, Zenon DEF ForceCleanup, HistoryOK
    <3>6. CASE ForceSpaces BY <3>6, Zenon DEF ForceSpaces, HistoryOK
    <3>7. CASE Poll BY <3>7 DEF Poll, HistoryOK
    <3> QED BY <3>1, <3>2, <3>3, <3>4, <3>5, <3>6, <3>7 DEF Sweep
  <2> QED BY <1>2, <1>4, <2>1, <2>2 DEF HistoryOK
<1> QED BY <1>3, <1>4, <1>5, <1>6

LEMMA AroundTyped ==
  ASSUME TypeOK, Terminates \/ NewRun \/ Kill
  PROVE  TypeOK'
<1> USE DEF TypeOK
<1>1. CASE Terminates
  <2>1. PICK n \in Spaces : Terminate(n) BY <1>1 DEF Terminates
  <2>2. ClusterOK' BY <2>1, WithoutKeepsCluster DEF Terminate
  <2> QED BY <2>1, <2>2 DEF Terminate, runVars, endVars, sweepVars, historyVars, RunOK, StridesOK,
             SweepOK, HistoryOK
<1>2. CASE NewRun
  <2>1. ClusterOK' BY <1>2 DEF NewRun, clusterVars, ClusterOK
  <2>2. RunOK'
    <3>1. /\ cfg' \in Configurations /\ pc' \in Phases /\ plan' \in Plans /\ existing' \subseteq Spaces
          /\ effective' \in Policies \cup {"undecided"} /\ status' \in {0, 1}
      BY <1>2, NoPlanTyped DEF NewRun, Reset, Phases
    <3>2. failed' \in BOOLEAN /\ started' \in BOOLEAN BY <1>2, Zenon DEF NewRun, Reset
    <3> QED BY <3>1, <3>2 DEF RunOK
  <2>3. StridesOK' BY <1>2, StridesBegin DEF NewRun, Reset, StridesOK
  <2>4. SweepOK'
    <3>1. sweep' \in {"pre", "final"} /\ misses' \in 0 .. MaxQueryFailures - 1
      BY <1>2, BoundAssumption DEF NewRun, Reset
    <3>2. removes' \in BOOLEAN /\ ok' \in BOOLEAN BY <1>2, Zenon DEF NewRun, Reset
    <3> QED BY <3>1, <3>2 DEF SweepOK
  <2>5. HistoryOK'
    <3>1. /\ before' \subseteq Spaces /\ doomed' \subseteq Spaces /\ failures' \in 0 .. MaxFailures
          /\ runs' \in 0 .. MaxRuns
      BY <1>2, BoundAssumption DEF NewRun, Reset, ClusterOK, HistoryOK
    <3>2. blind' \in BOOLEAN /\ swept' \in BOOLEAN BY <1>2, Zenon DEF NewRun, Reset
    <3> QED BY <3>1, <3>2 DEF HistoryOK
  <2> QED BY <2>1, <2>2, <2>3, <2>4, <2>5
<1>3. CASE Kill
  <2>1. ClusterOK' /\ SweepOK' BY <1>3 DEF Kill, clusterVars, sweepVars, ClusterOK, SweepOK
  <2>2. RunOK' BY <1>3 DEF Kill, runVars, endVars, RunOK, Phases, Over
  <2>3. StridesOK' BY <1>3, StridesBegin DEF Kill, StridesOK
  <2>4. HistoryOK' BY <1>3, BoundAssumption DEF Kill, Fails, historyVars, HistoryOK
  <2> QED BY <2>1, <2>2, <2>3, <2>4
<1> QED BY <1>1, <1>2, <1>3

LEMMA NextTypeOK == TypeOK /\ [Next]_vars => TypeOK'
<1> SUFFICES ASSUME TypeOK, [Next]_vars PROVE TypeOK'
  OBVIOUS
<1>1. CASE Threads
  BY <1>1, StrideTyped, QuietTyped, CommandTyped, SweepTyped DEF Threads, Main
<1>2. CASE Terminates \/ Signal \/ NewRun \/ Kill
  BY <1>2, QuietTyped, AroundTyped
<1>3. CASE UNCHANGED vars
  BY <1>3 DEF vars, clusterVars, runVars, endVars, sweepVars, historyVars, TypeOK, ClusterOK, RunOK,
     StridesOK, SweepOK, HistoryOK
<1> QED BY <1>1, <1>2, <1>3 DEF Next

\* Every variable of the runs and of the cluster keeps to its states, for any number of
\* namespaces, threads, runs and failures (run(), cleanup.py and ObjectBatcher).
THEOREM TypeCorrect == Spec => []TypeOK
BY InitTypeOK, NextTypeOK, PTL DEF Spec
---------------------------------------------------------------------------
(* Namespaces of earlier runs. *)

Sweeping == {"delete sync", "delete", "force", "force spaces", "wait"}

\* Nothing has been taken or created yet.
Early == pc \in {"precleanup", "setup", "allocate", "check"} \/ (pc \in Sweeping /\ sweep = "pre")

\* Why a cleanup removes namespaces.
MayRemove ==
  \/ cfg.remove = "remove"
  \/ /\ cfg.remove = "auto"
     /\ \/ blind
        \/ sweep = "pre" /\ labelled = {}
        \/ sweep = "final" /\ effective \in {"undecided", "auto"}

KInv ==
  /\ Early => effective = "undecided"
  /\ Early /\ cfg.remove = "auto" /\ ~blind => before \subseteq labelled \ terminating
  /\ effective \in {"undecided", "keep", cfg.remove}
  /\ effective = "auto" /\ ~blind => before \cap Used = {}
  /\ pc \in Sweeping /\ removes => MayRemove
  /\ pc = "force spaces" => removes

Kept == labelled \subseteq labelled' /\ terminating' = terminating

LEMMA CommandKeeps == ASSUME NEW os, Submitted(os) \/ NotSubmitted(os) PROVE Kept
BY DEF Submitted, NotSubmitted, Accept, Kept

LEMMA StrideKeeps == ASSUME NEW s \in Strides, Stride(s) PROVE Kept
<1>1. CASE Build(s) BY <1>1 DEF Build, clusterVars, Kept
<1>2. CASE Add(s)
  <2>1. \/ \E stride : Flush(s, stride)
        \/ UNCHANGED clusterVars
    BY <1>2 DEF Add
  <2> QED BY <2>1, CommandKeeps DEF Flush, clusterVars, Kept
<1>3. CASE StrideEnds(s) BY <1>3, CommandKeeps DEF StrideEnds, Flush
<1> QED BY <1>1, <1>2, <1>3 DEF Stride

Creating == SyncNamespace \/ SyncFiles \/ SyncService \/ SyncPod \/ Services
Running == Refuse \/ SetUp \/ EndStrides \/ Creates \/ WaitForSecrets \/ DoLogging \/ Signal

LEMMA CreatingKeeps == ASSUME Creating PROVE Kept
<1>1. \E os, next : Apply(os, next)
  BY DEF Creating, SyncNamespace, SyncFiles, SyncService, SyncPod, Services
<1> QED BY <1>1, CommandKeeps DEF Apply

LEMMA RunningKeeps == ASSUME Running \/ Allocate \/ CheckNamespaces \/ NewRun \/ Kill PROVE Kept
BY DEF Running, Refuse, SetUp, EndStrides, Creates, CreateStrides, WaitForSecrets, DoLogging, Signal,
       Allocate, CheckNamespaces, NewRun, Kill, clusterVars, Kept

\* What KInv is about, but for the cluster and pc.
kVars == <<cfg, plan, effective, before, blind, sweep, removes>>

\* A step that leaves all that and does not go back to the beginning keeps KInv.
LEMMA KeptPreserves ==
  ASSUME KInv, Kept, UNCHANGED kVars, Early' => Early, pc' \notin Sweeping
  PROVE  KInv'
<1>1. Used' = Used BY DEF kVars, Used, SyncNs
<1> QED BY <1>1 DEF KInv, Kept, kVars, Early, Sweeping

LEMMA StridePreservesK == ASSUME TypeOK, KInv, NEW s \in Strides, Stride(s) PROVE KInv'
<1>1. pc' = pc /\ UNCHANGED kVars
  BY DEF Stride, Build, Add, StrideEnds, strideRest, runVars, sweepVars, historyVars, kVars
<1>2. pc \in Types
  <2>1. strides[s].state = "busy" BY DEF Stride, Build, Add, StrideEnds
  <2> QED BY <2>1 DEF TypeOK, StridesOK, AllIdle, Idle
<1>3. ~Early' /\ pc' \notin Sweeping
  BY <1>1, <1>2 DEF Types, Early, Sweeping
<1> QED BY <1>1, <1>3, StrideKeeps, KeptPreserves

LEMMA CreatingPreservesK == ASSUME KInv, Creating PROVE KInv'
<1>1. \E os : \E next \in {"configmaps", "sync service", "sync pod", "services", "deployments"} :
        Apply(os, next)
  BY DEF Creating, SyncNamespace, SyncFiles, SyncService, SyncPod, Services
<1>2. UNCHANGED kVars
  BY <1>1 DEF Apply, mainRest, runVars, historyVars, sweepVars, kVars
<1>3. ~Early' /\ pc' \notin Sweeping
  BY <1>1 DEF Apply, Early, Sweeping
<1> QED BY <1>2, <1>3, CreatingKeeps, KeptPreserves

LEMMA RunningPreservesK == ASSUME TypeOK, KInv, Running PROVE KInv'
<1>1. UNCHANGED kVars
  BY DEF Running, Refuse, SetUp, EndStrides, Creates, CreateStrides, WaitForSecrets, DoLogging, Signal,
         mainRest, runVars, historyVars, sweepVars, kVars
<1>2. CASE Refuse \/ EndStrides \/ Creates \/ WaitForSecrets \/ DoLogging
  <2>1. ~Early' /\ pc' \notin Sweeping
    BY <1>2 DEF Refuse, EndStrides, AfterStrides, Types, Creates, CreateStrides, Start, WaitForSecrets,
       DoLogging, Early, Sweeping
  <2> QED BY <1>1, <2>1, RunningKeeps, KeptPreserves
<1>3. CASE SetUp
  <2>1. (Early' => Early) /\ pc' \notin Sweeping
    BY <1>3 DEF SetUp, Early, Sweeping
  <2> QED BY <1>1, <2>1, RunningKeeps, KeptPreserves
<1>4. CASE Signal
  <2>1. pc' = pc /\ UNCHANGED clusterVars
    BY <1>4 DEF Signal
  <2>2. Used' = Used BY <1>1 DEF kVars, Used, SyncNs
  <2> QED BY <1>1, <2>1, <2>2 DEF KInv, kVars, clusterVars, Early, MayRemove
<1> QED BY <1>2, <1>3, <1>4 DEF Running

LEMMA TakingPreservesK == ASSUME TypeOK, KInv, Allocate \/ CheckNamespaces PROVE KInv'
<1>1. CASE Allocate
  <2>1. Early /\ effective = "undecided"
    BY <1>1 DEF Allocate, KInv, Early
  <2>2. /\ UNCHANGED <<cfg, effective, before, blind, sweep, removes>> /\ pc' = "check"
        /\ labelled' = labelled /\ terminating' = terminating
    BY <1>1 DEF Allocate, mainRest, historyVars, sweepVars, clusterVars
  <2> QED BY <2>1, <2>2 DEF KInv, Early, Sweeping
<1>2. CASE CheckNamespaces
  <2>1. Early /\ effective = "undecided"
    BY <1>2 DEF CheckNamespaces, Start, KInv, Early
  <2>2. /\ UNCHANGED <<cfg, plan, before, sweep, removes, labelled, terminating>> /\ pc' = "namespaces"
    BY <1>2 DEF CheckNamespaces, mainRest, sweepVars, clusterVars
  <2>3. Used' = Used BY <2>2 DEF Used, SyncNs
  <2>4. effective' \in {"keep", cfg.remove}
    BY <1>2 DEF CheckNamespaces
  <2>5. ASSUME effective' = "auto", ~blind' PROVE before \cap Used = {}
    <3>1. PICK missed \in SUBSET (Used \cap spaces) :
            existing' = (Used \cap spaces) \ missed /\ blind' = (blind \/ missed # {})
      BY <1>2 DEF CheckNamespaces
    <3>2. missed = {} /\ ~blind
      BY <2>5, <3>1, Zenon
    <3>3. cfg.remove = "auto" /\ existing' = {}
      BY <1>2, <2>5 DEF CheckNamespaces
    <3>4. before \subseteq spaces
      BY <2>1, <3>2, <3>3 DEF KInv, TypeOK, ClusterOK
    <3> QED BY <3>1, <3>2, <3>3, <3>4
  <2> QED BY <2>2, <2>3, <2>4, <2>5 DEF KInv, Early, Sweeping
<1> QED BY <1>1, <1>2

LEMMA AroundPreservesK == ASSUME TypeOK, KInv, Terminates \/ NewRun \/ Kill PROVE KInv'
<1>1. CASE Terminates
  <2>1. PICK n \in Spaces : Terminate(n) BY <1>1 DEF Terminates
  <2>2. pc' = pc /\ UNCHANGED kVars
    BY <2>1 DEF Terminate, runVars, sweepVars, historyVars, kVars
  <2>3. Used' = Used BY <2>2 DEF kVars, Used, SyncNs
  <2>4. n \in terminating /\ labelled' = labelled \ {n} /\ terminating' = terminating \ {n}
    BY <2>1 DEF Terminate, Without
  <2> QED BY <2>2, <2>3, <2>4 DEF KInv, kVars, Early, MayRemove
<1>2. CASE NewRun
  BY <1>2, ConfigurationAssumption DEF NewRun, Reset, clusterVars, KInv, Early, Sweeping
<1>3. CASE Kill
  <2>1. UNCHANGED kVars /\ pc' = "killed"
    BY <1>3 DEF Kill, runVars, sweepVars, historyVars, kVars
  <2> QED BY <1>3, <2>1, RunningKeeps, KeptPreserves DEF Early, Sweeping
<1> QED BY <1>1, <1>2, <1>3

LEMMA BeginSweepShape ==
  ASSUME NEW which, NEW policy, BeginSweep(which, policy)
  PROVE  pc' = "delete sync" /\ sweep' = which /\ (removes' => policy # "keep")
<1>1. removes' => policy # "keep" BY Zenon DEF BeginSweep
<1> QED BY <1>1 DEF BeginSweep

LEMMA SweepBeginsK == ASSUME TypeOK, KInv, Precleanup \/ FinalCleanup PROVE KInv'
<1>1. /\ UNCHANGED <<cfg, plan, effective, before, labelled, terminating>>
  BY DEF Precleanup, FinalCleanup, sweepRest, runVars, clusterVars
<1>2. Used' = Used BY <1>1 DEF Used, SyncNs
<1>3. cfg.remove \in {"auto", "keep", "remove"}
  BY ConfigurationAssumption DEF TypeOK, RunOK, Options, Policies
<1>4. CASE Precleanup
  <2>1. Early /\ effective = "undecided" BY <1>4 DEF Precleanup, KInv, Early
  <2>2. CASE ~cfg.precleanup
    <3>1. pc' = "setup" /\ UNCHANGED <<sweep, removes, blind>>
      BY <1>4, <2>2 DEF Precleanup, sweepVars
    <3> QED BY <1>1, <1>2, <2>1, <3>1 DEF KInv, Early, Sweeping
  <2>3. CASE /\ UNCHANGED blind
             /\ BeginSweep("pre", IF cfg.remove = "auto" /\ labelled # {} THEN "keep" ELSE cfg.remove)
    <3>1. /\ pc' = "delete sync" /\ sweep' = "pre" /\ blind' = blind
          /\ removes' => (IF cfg.remove = "auto" /\ labelled # {} THEN "keep" ELSE cfg.remove) # "keep"
      BY <2>3, BeginSweepShape
    <3>2. removes' => cfg.remove = "remove" \/ (cfg.remove = "auto" /\ labelled = {})
      BY <1>3, <3>1
    <3> QED BY <1>1, <1>2, <2>1, <3>1, <3>2 DEF KInv, Early, MayRemove
  <2>4. CASE cfg.remove = "auto" /\ blind' = TRUE /\ BeginSweep("pre", "auto")
    <3>1. pc' = "delete sync" /\ sweep' = "pre" /\ blind'
      BY <2>4, BeginSweepShape
    <3> QED BY <1>1, <1>2, <2>1, <2>4, <3>1 DEF KInv, Early, MayRemove
  <2> QED BY <1>4, <2>2, <2>3, <2>4 DEF Precleanup
<1>5. CASE FinalCleanup
  <2>1. blind' = blind BY <1>5 DEF FinalCleanup
  <2>2. CASE pc' = "ended"
    BY <1>1, <1>2, <2>1, <2>2 DEF KInv, Early, Sweeping
  <2>3. CASE BeginSweep("final", FinalPolicy)
    <3>1. pc' = "delete sync" /\ sweep' = "final" /\ (removes' => FinalPolicy # "keep")
      BY <2>3, BeginSweepShape
    <3>2. removes' => cfg.remove = "remove" \/ (cfg.remove = "auto" /\ effective \in {"undecided", "auto"})
      BY <1>3, <3>1 DEF FinalPolicy, KInv
    <3> QED BY <1>1, <1>2, <2>1, <3>1, <3>2 DEF KInv, Early, Sweeping, MayRemove
  <2> QED BY <1>5, <2>2, <2>3 DEF FinalCleanup
<1> QED BY <1>4, <1>5

\* A turn of a cleanup that has begun: namespaces go only if it removes them.
LEMMA SweepTurn ==
  ASSUME DeleteSync \/ Delete \/ ForceCleanup \/ ForceSpaces \/ Poll
  PROVE  /\ pc \in Sweeping /\ UNCHANGED kVars
         /\ pc' \in Sweeping \/ (pc' = IF sweep = "pre" THEN "setup" ELSE "ended")
         /\ (Delete \/ ForceSpaces) \/ UNCHANGED <<labelled, terminating>>
         /\ \/ UNCHANGED <<labelled, terminating>>
            \/ labelled' = {}
            \/ labelled' = labelled /\ terminating' \subseteq terminating \cup labelled
<1> USE DEF sweepRest, runVars, kVars, Sweeping, SweepEnds, AfterDelete, clusterVars,
            DeletesObjects, LeavesObjects, DeletesSpaces, LeavesSpaces, Without
<1>1. CASE DeleteSync BY <1>1 DEF DeleteSync
<1>2. CASE Delete
  <2>1. pc \in Sweeping /\ UNCHANGED kVars BY <1>2 DEF Delete
  <2>2. pc' \in Sweeping \/ (pc' = IF sweep = "pre" THEN "setup" ELSE "ended") BY <1>2 DEF Delete
  <2>3. DeletesSpaces \/ LeavesSpaces \/ DeletesObjects(Kinds) \/ LeavesObjects(Kinds)
    BY <1>2 DEF Delete
  <2> QED BY <1>2, <2>1, <2>2, <2>3
<1>3. CASE ForceCleanup
  <2>1. pc \in Sweeping /\ UNCHANGED kVars BY <1>3 DEF ForceCleanup
  <2>2. pc' \in Sweeping \/ (pc' = IF sweep = "pre" THEN "setup" ELSE "ended")
    BY <1>3 DEF ForceCleanup
  <2>3. DeletesObjects(Kinds) \/ LeavesObjects(Kinds) BY <1>3 DEF ForceCleanup
  <2> QED BY <2>1, <2>2, <2>3
<1>4. CASE ForceSpaces BY <1>4 DEF ForceSpaces
<1>5. CASE Poll
  <2>1. pc \in Sweeping /\ UNCHANGED kVars BY <1>5 DEF Poll
  <2>2. pc' \in Sweeping \/ (pc' = IF sweep = "pre" THEN "setup" ELSE "ended") BY <1>5 DEF Poll
  <2> QED BY <1>5, <2>1, <2>2 DEF Poll
<1> QED BY <1>1, <1>2, <1>3, <1>4, <1>5

\* Only a cleanup that removes namespaces removes them.
LEMMA RemovalsAsked ==
  ASSUME KInv, Delete \/ ForceSpaces
  PROVE  removes \/ UNCHANGED <<labelled, terminating>>
BY DEF KInv, Delete, ForceSpaces, DeletesObjects, LeavesObjects

LEMMA SweepPreservesK == ASSUME TypeOK, KInv, Sweep PROVE KInv'
<1>1. CASE Precleanup \/ FinalCleanup
  BY <1>1, SweepBeginsK
<1>2. CASE DeleteSync \/ Delete \/ ForceCleanup \/ ForceSpaces \/ Poll
  <2>1. pc \in Sweeping /\ UNCHANGED kVars
    BY <1>2, SweepTurn
  <2>2. Used' = Used BY <2>1 DEF kVars, Used, SyncNs
  <2>3. pc' \in Sweeping \/ (pc' = IF sweep = "pre" THEN "setup" ELSE "ended")
    BY <1>2, SweepTurn
  <2>4. Early' => Early BY <2>1, <2>3 DEF Early, kVars, Sweeping
  <2>5. /\ removes \/ UNCHANGED <<labelled, terminating>>
        /\ \/ UNCHANGED <<labelled, terminating>>
           \/ labelled' = {}
           \/ labelled' = labelled /\ terminating' \subseteq terminating \cup labelled
    BY <1>2, SweepTurn, RemovalsAsked
  <2>6. labelled = {} => labelled' = {}
    BY <2>5
  <2>7. Early' /\ cfg.remove = "auto" /\ ~blind => before \subseteq labelled' \ terminating'
    <3>1. CASE UNCHANGED <<labelled, terminating>> BY <2>4, <3>1 DEF KInv
    <3>2. CASE removes
      <4>1. Early' /\ cfg.remove = "auto" /\ ~blind => sweep = "pre" /\ MayRemove
        BY <2>1, <2>4, <3>2 DEF KInv, Early, Sweeping
      <4>2. Early' /\ cfg.remove = "auto" /\ ~blind => before = {}
        BY <2>4, <4>1 DEF KInv, MayRemove
      <4> QED BY <4>2
    <3> QED BY <2>5, <3>1, <3>2
  <2>8. pc' \in Sweeping /\ removes' => MayRemove'
    BY <2>1, <2>6 DEF KInv, MayRemove, kVars
  <2>9. pc' = "force spaces" => removes'
    BY <1>2, <2>1 DEF KInv, DeleteSync, Delete, AfterDelete, SweepEnds, ForceCleanup, ForceSpaces, Poll, kVars
  <2> QED BY <2>1, <2>2, <2>4, <2>7, <2>8, <2>9 DEF KInv, kVars
<1> QED BY <1>1, <1>2 DEF Sweep

LEMMA InitKInv == Init => KInv
BY ConfigurationAssumption DEF Init, KInv, Early, Sweeping

LEMMA NextKInv == TypeOK /\ KInv /\ [Next]_vars => KInv'
<1> SUFFICES ASSUME TypeOK, KInv, [Next]_vars PROVE KInv'
  OBVIOUS
<1>1. CASE Threads
  BY <1>1, StridePreservesK, CreatingPreservesK, RunningPreservesK, TakingPreservesK, SweepPreservesK
     DEF Threads, Main, Creating, Running
<1>2. CASE Terminates \/ Signal \/ NewRun \/ Kill
  BY <1>2, RunningPreservesK, AroundPreservesK DEF Running
<1>3. CASE UNCHANGED vars
  BY <1>3 DEF vars, clusterVars, runVars, sweepVars, historyVars, KInv, Early, Used, SyncNs, MayRemove
<1> QED BY <1>1, <1>2, <1>3 DEF Next

\* The reasons for which a step may remove a namespace that was there before the run.
Reason(n) ==
  \/ cfg.remove = "remove"
  \/ /\ cfg.remove = "auto"
     /\ \/ blind
        \/ sweep = "final" /\ (effective = "undecided" \/ n \notin Used)

LEMMA StepRemoves ==
  ASSUME TypeOK, KInv, [Next]_vars, NEW n \in before, Removed(n)
  PROVE  Reason(n)
<1>1. ~Kept
  BY DEF Removed, Kept
<1>2. ~UNCHANGED vars /\ ~Precleanup /\ ~FinalCleanup
  BY <1>1 DEF vars, clusterVars, Kept, Precleanup, FinalCleanup
<1>3. CASE Threads \/ Signal \/ NewRun \/ Kill
  <2>1. Sweep
    BY <1>1, <1>3, StrideKeeps, CreatingKeeps, RunningKeeps DEF Threads, Main, Creating, Running
  <2>2. DeleteSync \/ Delete \/ ForceCleanup \/ ForceSpaces \/ Poll
    BY <1>2, <2>1 DEF Sweep
  <2>3. Delete \/ ForceSpaces
    BY <1>1, <2>2, SweepTurn DEF Kept
  <2>4. removes /\ pc \in Sweeping
    BY <1>1, <2>2, <2>3, SweepTurn, RemovalsAsked DEF Kept
  <2>5. n \in labelled
    BY DEF Removed
  <2> QED BY <2>4, <2>5 DEF KInv, MayRemove, Reason
<1>4. CASE Terminates
  BY <1>4 DEF Terminates, Terminate, Without, Removed
<1> QED BY <1>2, <1>3, <1>4 DEF Next

\* A namespace that was there before a run is removed only if --removenamespaces says so, or,
\* without it, after a failed query, by the cleanup of a run that failed before it looked, or if
\* the run does not use it, for any number of namespaces, runs and failures (do_cleanup,
\* _create_all_namespaces).
THEOREM NamespacesKept == Spec => KeepsNamespaces
<1>1. TypeOK /\ KInv /\ [Next]_vars => [\A n \in before : Removed(n) => Reason(n)]_vars
  BY StepRemoves
<1>2. Init => TypeOK /\ KInv
  BY InitTypeOK, InitKInv
<1>3. TypeOK /\ KInv /\ [Next]_vars => TypeOK' /\ KInv'
  BY NextTypeOK, NextKInv
<1> QED BY <1>1, <1>2, <1>3, PTL DEF Spec, KeepsNamespaces, Reason
---------------------------------------------------------------------------
(* Files before pods. *)

FilesIn(n) == n \in spaces => {Obj("System", n, 0), Obj("User", n, 0)} \subseteq objects
SecretsIn(n) == n \in spaces => SecretsOf(n) \subseteq objects
AllFiles == \A i \in Index : FilesIn(plan[i])
AllSecrets == \A i \in Index : SecretsIn(plan[i])
SyncFilesIn == SyncNs \in spaces => Obj("System", SyncNs, 0) \in objects

\* What is there when a phase begins, unless a failure keeps pods from being created.
Ready ==
  /\ pc \in {"secrets", "wait secrets", "sync files"} /\ ~failed => AllFiles
  /\ pc \in {"wait secrets", "sync files"} /\ ~failed => AllSecrets
  /\ pc \in {"sync service", "sync pod", "services", "deployments"} => AllFiles /\ AllSecrets
  /\ pc \in {"sync service", "sync pod"} => SyncFilesIn

Planned == {plan[i] : i \in Index}

\* A thread holds only what its phase builds, and nothing when it is done.
Fits(s) ==
  /\ \A o \in strides[s].todo \cup strides[s].buffer : o.ns \in Planned /\ o \in Built(pc, o.ns)
  /\ strides[s].state = "done" => strides[s].todo = {} /\ strides[s].buffer = {}
  /\ strides[s].state = "done" /\ ~failed => strides[s].left = {}

\* What a thread has built for a namespace is there or on its way.
Delivers(s) ==
  pc \in {"configmaps", "secrets"} /\ strides[s].state \in {"busy", "done"} =>
    \A i \in Share(s) \ strides[s].left :
      plan[i] \in spaces =>
        Built(pc, plan[i]) \subseteq objects \cup strides[s].todo \cup strides[s].buffer

FInv == FilesBeforePods /\ Ready /\ \A s \in Strides : Fits(s) /\ Delivers(s)

LEMMA IdleFits == ASSUME strides = AllIdle, NEW s \in Strides PROVE Fits(s) /\ Delivers(s)
BY DEF AllIdle, Idle, Fits, Delivers

LEMMA EveryShare == ASSUME NEW i \in Index PROVE \E s \in Strides : i \in Share(s)
<1>1. i % Parallel \in Strides
  BY SizeAssumption DEF Index, Strides
<1> QED BY <1>1 DEF Share

LEMMA AcceptSafe ==
  ASSUME FilesBeforePods, NEW os, Accept(os), \A o \in os : Mounts(o) \subseteq objects
  PROVE  FilesBeforePods' /\ objects \subseteq objects'
BY DEF FilesBeforePods, Accept, Mounts, SecretsOf

\* Nothing a phase builds mounts what is missing.
LEMMA BuiltMounts ==
  ASSUME pc \in Types, pc = "deployments" => AllFiles /\ AllSecrets, NEW o, o.ns \in Planned,
         o \in Built(pc, o.ns), Acceptable(o)
  PROVE  Mounts(o) \subseteq objects
<1>1. CASE pc = "deployments"
  <2>1. o.kind = "Deployment" BY <1>1 DEF Built
  <2>2. o.ns \in spaces BY <2>1 DEF Acceptable
  <2> QED BY <1>1, <2>1, <2>2 DEF Planned, AllFiles, AllSecrets, FilesIn, SecretsIn, Mounts
<1>2. CASE pc # "deployments"
  <2>1. o.kind \notin {"Deployment", "SyncPod"} BY <1>2 DEF Types, Built, SecretsOf
  <2> QED BY <2>1 DEF Mounts
<1> QED BY <1>1, <1>2

LEMMA FlushShape ==
  ASSUME FilesBeforePods, pc \in Types, pc = "deployments" => AllFiles /\ AllSecrets,
         NEW s \in Strides, NEW stride, Flush(s, stride),
         \A o \in stride.buffer : o.ns \in Planned /\ o \in Built(pc, o.ns)
  PROVE  /\ FilesBeforePods' /\ objects \subseteq objects'
         /\ pc # "namespaces" => spaces' = spaces
         /\ \/ Put(s, [stride EXCEPT !.state = "failed"])
            \/ /\ Put(s, [stride EXCEPT !.buffer = {}])
               /\ pc # "namespaces" => stride.buffer \subseteq objects'
<1>1. \/ Put(s, [stride EXCEPT !.state = "failed"])
      \/ Put(s, [stride EXCEPT !.buffer = {}]) /\ Submitted(stride.buffer)
  BY DEF Flush
<1>2. \E part \in SUBSET stride.buffer : (\A o \in part : Acceptable(o)) /\ Accept(part)
  BY DEF Flush, Submitted, NotSubmitted
<1>3. PICK part \in SUBSET stride.buffer : (\A o \in part : Acceptable(o)) /\ Accept(part)
  BY <1>2
<1>4. FilesBeforePods' /\ objects \subseteq objects'
  BY <1>3, AcceptSafe, BuiltMounts
<1>5. pc # "namespaces" => \A o \in stride.buffer : o.kind # "Namespace"
  <2> SUFFICES ASSUME pc # "namespaces", NEW o \in stride.buffer PROVE o.kind # "Namespace"
    OBVIOUS
  <2> DEFINE n == o.ns
  <2>1. o \in Built(pc, n)
    OBVIOUS
  <2>2. CASE pc = "configmaps" BY <2>1, <2>2 DEF Built, Obj
  <2>3. CASE pc = "secrets" BY <2>1, <2>3 DEF Built, SecretsOf, Obj
  <2>4. CASE pc = "deployments" BY <2>1, <2>4 DEF Built, Obj
  <2> QED BY <2>2, <2>3, <2>4 DEF Types
<1>6. pc # "namespaces" => spaces' = spaces
  BY <1>3, <1>5 DEF Accept
<1>7. Submitted(stride.buffer) /\ pc # "namespaces" => stride.buffer \subseteq objects'
  BY <1>5 DEF Submitted, Accept
<1> QED BY <1>1, <1>4, <1>6, <1>7

\* Objects are added, and no namespace but in the first phase.
Growing == objects \subseteq objects' /\ (pc # "namespaces" => spaces' = spaces)

LEMMA GrowingReady ==
  ASSUME TypeOK, Ready, Growing, pc \in Types, pc' = pc, plan' = plan, cfg' = cfg, failed' = failed
  PROVE  Ready'
<1>1. SyncNs' = SyncNs BY DEF SyncNs
<1>2. pc # "namespaces" => (AllFiles => AllFiles') /\ (AllSecrets => AllSecrets')
  BY DEF Growing, AllFiles, AllSecrets, FilesIn, SecretsIn, SecretsOf
<1> QED BY <1>1, <1>2 DEF Ready, Types

LEMMA OtherStrides ==
  ASSUME Growing, NEW s \in Strides, Fits(s), Delivers(s), pc \in Types, pc' = pc, plan' = plan,
         existing' = existing, failed' = failed, strides'[s] = strides[s]
  PROVE  Fits(s)' /\ Delivers(s)'
<1>1. Planned' = Planned BY DEF Planned
<1>2. \A n : Built(pc, n)' = Built(pc, n) BY DEF Built, SecretsOf
<1>3. Fits(s)' BY <1>1, <1>2 DEF Fits
<1>4. Delivers(s)' BY <1>2 DEF Delivers, Growing, Types
<1> QED BY <1>3, <1>4

LEMMA BuiltNs == ASSUME NEW type \in Types, NEW n, NEW o \in Built(type, n) PROVE o.ns = n
<1>1. CASE type = "namespaces" BY <1>1 DEF Built, Obj
<1>2. CASE type = "configmaps" BY <1>2 DEF Built, Obj
<1>3. CASE type = "secrets" BY <1>3 DEF Built, SecretsOf, Obj
<1>4. CASE type = "deployments" BY <1>4 DEF Built, Obj
<1> QED BY <1>1, <1>2, <1>3, <1>4 DEF Types

LEMMA StrideFrame ==
  ASSUME TypeOK, NEW s \in Strides, Stride(s)
  PROVE  /\ pc \in Types /\ strides[s].state = "busy" /\ strides[s] \in StrideRecords
         /\ UNCHANGED <<cfg, pc, plan, existing, failed>>
<1>1. strides[s].state = "busy" /\ UNCHANGED <<cfg, pc, plan, existing, failed>>
  BY DEF Stride, Build, Add, StrideEnds, strideRest, runVars, endVars
<1>2. strides \in [Strides -> StrideRecords] /\ strides # AllIdle
  BY <1>1 DEF TypeOK, StridesOK, AllIdle, Idle
<1> QED BY <1>1, <1>2 DEF TypeOK, StridesOK

\* It is enough to look at the thread that takes the step.
LEMMA StepOfOne ==
  ASSUME TypeOK, FInv, NEW s \in Strides, Stride(s), FilesBeforePods', Growing,
         NEW stride, Put(s, stride), Fits(s)', Delivers(s)'
  PROVE  FInv'
<1>1. pc \in Types /\ UNCHANGED <<cfg, pc, plan, existing, failed>> BY StrideFrame
<1>2. Ready' BY <1>1, GrowingReady DEF FInv
<1>3. ASSUME NEW r \in Strides PROVE Fits(r)' /\ Delivers(r)'
  <2>1. r # s => strides'[r] = strides[r]
    BY DEF Put, TypeOK, StridesOK
  <2> QED BY <1>1, <2>1, OtherStrides DEF FInv
<1> QED BY <1>2, <1>3 DEF FInv

LEMMA BuildF == ASSUME TypeOK, FInv, NEW s \in Strides, Build(s) PROVE FInv'
<1> DEFINE old == strides[s]
<1>1. pc \in Types /\ old.state = "busy" /\ old \in StrideRecords
      /\ UNCHANGED <<cfg, pc, plan, existing, failed>>
  BY StrideFrame DEF Stride
<1>2. PICK i \in old.left :
        Put(s, [old EXCEPT !.left = old.left \ {i}, !.todo = Built(pc, plan[i])])
  BY DEF Build
<1> DEFINE new == [old EXCEPT !.left = old.left \ {i}, !.todo = Built(pc, plan[i])]
<1>3. old.todo = {} /\ UNCHANGED <<objects, spaces>>
  BY DEF Build, clusterVars
<1>4. strides'[s] = new
  BY <1>2 DEF Put, TypeOK, StridesOK
<1>5. /\ new.state = "busy" /\ new.left = old.left \ {i} /\ new.todo = Built(pc, plan[i])
      /\ new.buffer = old.buffer
  BY <1>1 DEF StrideRecords
<1>6. i \in Index
  BY <1>1 DEF StrideRecords
<1>7. FilesBeforePods' /\ Growing
  BY <1>3 DEF FInv, FilesBeforePods, Growing, Mounts, SecretsOf
<1>8. \A n : Built(pc, n)' = Built(pc, n) BY <1>1 DEF Built, SecretsOf
<1>9. Fits(s)'
  <2>1. \A o \in Built(pc, plan[i]) : o.ns \in Planned /\ o \in Built(pc, o.ns)
    BY <1>1, <1>6, BuiltNs DEF Planned
  <2>2. \A o \in old.buffer : o.ns \in Planned /\ o \in Built(pc, o.ns)
    BY DEF FInv, Fits
  <2>3. Planned' = Planned BY <1>1 DEF Planned
  <2> QED BY <1>1, <1>4, <1>5, <1>8, <2>1, <2>2, <2>3 DEF Fits
<1>10. Delivers(s)'
  BY <1>1, <1>3, <1>4, <1>5, <1>8 DEF FInv, Delivers
<1> QED BY <1>2, <1>7, <1>9, <1>10, StepOfOne DEF Stride

\* A thread whose buffer is flushed, whatever becomes of it.
LEMMA FlushF ==
  ASSUME TypeOK, FInv, NEW s \in Strides, Stride(s), NEW stride \in StrideRecords,
         Flush(s, stride), stride.state \in {"busy", "done"},
         \A o \in stride.todo \cup stride.buffer : o.ns \in Planned /\ o \in Built(pc, o.ns),
         stride.state = "done" => stride.todo = {},
         stride.state = "done" /\ ~failed => stride.left = {},
         stride.left = strides[s].left,
         stride.todo \cup stride.buffer = strides[s].todo \cup strides[s].buffer
  PROVE  FInv'
<1>1. /\ pc \in Types /\ strides[s].state = "busy"
      /\ UNCHANGED <<cfg, pc, plan, existing, failed>>
  BY StrideFrame
<1>2. /\ FilesBeforePods' /\ Growing
      /\ \/ Put(s, [stride EXCEPT !.state = "failed"])
         \/ /\ Put(s, [stride EXCEPT !.buffer = {}])
            /\ pc # "namespaces" => stride.buffer \subseteq objects'
  BY <1>1, FlushShape DEF FInv, Ready, Growing
<1>3. \A n : Built(pc, n)' = Built(pc, n) BY <1>1 DEF Built, SecretsOf
<1>4. Planned' = Planned BY <1>1 DEF Planned
<1>5. CASE Put(s, [stride EXCEPT !.state = "failed"])
  <2> DEFINE new == [stride EXCEPT !.state = "failed"]
  <2>1. strides'[s] = new BY <1>5 DEF Put, TypeOK, StridesOK
  <2>2. new.state = "failed" /\ new.todo = stride.todo /\ new.buffer = stride.buffer
    BY DEF StrideRecords
  <2>3. Fits(s)' BY <1>1, <1>3, <1>4, <2>1, <2>2 DEF Fits
  <2>4. Delivers(s)' BY <2>1, <2>2 DEF Delivers
  <2> QED BY <1>2, <1>5, <2>3, <2>4, StepOfOne
<1>6. CASE /\ Put(s, [stride EXCEPT !.buffer = {}])
           /\ pc # "namespaces" => stride.buffer \subseteq objects'
  <2> DEFINE new == [stride EXCEPT !.buffer = {}]
  <2>1. strides'[s] = new BY <1>6 DEF Put, TypeOK, StridesOK
  <2>2. /\ new.state = stride.state /\ new.todo = stride.todo /\ new.buffer = {}
        /\ new.left = strides[s].left
    BY DEF StrideRecords
  <2>3. Fits(s)'
    BY <1>1, <1>3, <1>4, <2>1, <2>2 DEF Fits
  <2>4. Delivers(s)'
    <3>1. SUFFICES ASSUME pc \in {"configmaps", "secrets"}, NEW i \in Share(s) \ strides[s].left,
                          plan[i] \in spaces'
                   PROVE  Built(pc, plan[i]) \subseteq objects' \cup stride.todo
      BY <1>1, <1>3, <2>1, <2>2 DEF Delivers, Share
    <3>2. plan[i] \in spaces BY <1>2, <3>1 DEF Growing
    <3>3. Built(pc, plan[i]) \subseteq objects \cup strides[s].todo \cup strides[s].buffer
      BY <1>1, <3>1, <3>2 DEF FInv, Delivers
    <3> QED BY <1>2, <1>6, <3>1, <3>3 DEF Growing
  <2> QED BY <1>2, <1>6, <2>3, <2>4, StepOfOne
<1> QED BY <1>2, <1>5, <1>6

LEMMA AddF == ASSUME TypeOK, FInv, NEW s \in Strides, Add(s) PROVE FInv'
<1> DEFINE old == strides[s]
<1>1. pc \in Types /\ old.state = "busy" /\ old \in StrideRecords
      /\ UNCHANGED <<cfg, pc, plan, existing, failed>>
  BY StrideFrame DEF Stride
<1>2. PICK o \in old.todo :
        LET added == [old EXCEPT !.todo = old.todo \ {o}, !.buffer = old.buffer \cup {o}] IN
        Flush(s, added) \/ (Put(s, added) /\ UNCHANGED <<objects, spaces>>)
  BY DEF Add, clusterVars
<1> DEFINE added == [old EXCEPT !.todo = old.todo \ {o}, !.buffer = old.buffer \cup {o}]
<1>3. /\ added \in StrideRecords /\ added.state = "busy" /\ added.left = old.left
      /\ added.todo = old.todo \ {o} /\ added.buffer = old.buffer \cup {o}
  BY <1>1 DEF StrideRecords
<1>4. added.todo \cup added.buffer = old.todo \cup old.buffer
  BY <1>3
<1>5. \A p \in added.todo \cup added.buffer : p.ns \in Planned /\ p \in Built(pc, p.ns)
  BY <1>4 DEF FInv, Fits
<1>6. CASE Flush(s, added)
  <2> HIDE DEF added, old
  <2> QED BY <1>3, <1>4, <1>5, <1>6, FlushF DEF Stride, old
<1>7. CASE Put(s, added) /\ UNCHANGED <<objects, spaces>>
  <2>1. FilesBeforePods' /\ Growing
    BY <1>7 DEF FInv, FilesBeforePods, Growing, Mounts, SecretsOf
  <2>2. strides'[s] = added BY <1>7 DEF Put, TypeOK, StridesOK
  <2>3. Planned' = Planned BY <1>1 DEF Planned
  <2>4. \A n : Built(pc, n)' = Built(pc, n) BY <1>1 DEF Built, SecretsOf
  <2> HIDE DEF added, old
  <2>5. Fits(s)' BY <1>1, <1>3, <1>5, <2>2, <2>3, <2>4 DEF Fits
  <2>6. Delivers(s)'
    <3>1. SUFFICES ASSUME pc \in {"configmaps", "secrets"}, NEW i \in Share(s) \ old.left,
                          plan[i] \in spaces
                   PROVE  Built(pc, plan[i]) \subseteq objects \cup added.todo \cup added.buffer
      BY <1>1, <1>3, <1>7, <2>2, <2>4 DEF Delivers, Share
    <3>2. Built(pc, plan[i]) \subseteq objects \cup old.todo \cup old.buffer
      BY <1>1, <3>1 DEF FInv, Delivers, old
    <3> QED BY <1>4, <3>2
  <2> QED BY <1>7, <2>1, <2>5, <2>6, StepOfOne DEF Stride
<1> QED BY <1>2, <1>6, <1>7

LEMMA StrideEndsF == ASSUME TypeOK, FInv, NEW s \in Strides, StrideEnds(s) PROVE FInv'
<1> DEFINE old == strides[s]
           new == [old EXCEPT !.state = "done"]
<1>1. old \in StrideRecords
  BY StrideFrame DEF Stride
<1>2. /\ new \in StrideRecords /\ new.state = "done" /\ new.left = old.left
      /\ new.todo = old.todo /\ new.buffer = old.buffer
  BY <1>1 DEF StrideRecords
<1>3. Flush(s, new) /\ old.todo = {} /\ (old.left = {} \/ failed)
  BY DEF StrideEnds
<1>4. \A p \in old.todo \cup old.buffer : p.ns \in Planned /\ p \in Built(pc, p.ns)
  BY DEF FInv, Fits
<1> HIDE DEF new, old
<1> QED BY <1>2, <1>3, <1>4, FlushF DEF Stride, old

LEMMA StrideF == ASSUME TypeOK, FInv, NEW s \in Strides, Stride(s) PROVE FInv'
BY BuildF, AddF, StrideEndsF DEF Stride

\* When every thread has ended well, its phase is complete.
LEMMA PhaseComplete ==
  ASSUME TypeOK, FInv, pc \in {"configmaps", "secrets"}, ~failed,
         \A s \in Strides : strides[s].state = "done"
  PROVE  (pc = "configmaps" => AllFiles) /\ (pc = "secrets" => AllSecrets)
<1>1. ASSUME NEW i \in Index, plan[i] \in spaces PROVE Built(pc, plan[i]) \subseteq objects
  <2>1. PICK s \in Strides : i \in Share(s) BY EveryShare
  <2>2. strides[s].left = {} /\ strides[s].todo = {} /\ strides[s].buffer = {}
    BY DEF FInv, Fits
  <2>3. Built(pc, plan[i]) \subseteq objects \cup strides[s].todo \cup strides[s].buffer
    BY <1>1, <2>1, <2>2 DEF FInv, Delivers
  <2> QED BY <2>2, <2>3
<1>2. pc = "configmaps" => AllFiles
  BY <1>1 DEF AllFiles, FilesIn, Built
<1>3. pc = "secrets" => AllSecrets
  BY <1>1 DEF AllSecrets, SecretsIn, Built
<1> QED BY <1>2, <1>3

LEMMA SameObjects == ASSUME FilesBeforePods, objects' = objects PROVE FilesBeforePods'
BY DEF FilesBeforePods, Mounts, SecretsOf

\* The phases in which nothing is known of the files yet, or needed any more.
Apart == Phases \ {"secrets", "wait secrets", "sync files", "sync service", "sync pod", "services",
                   "deployments"}

LEMMA IdleAfterF ==
  ASSUME FilesBeforePods', Ready', strides' = AllIdle \/ strides' = Begun
  PROVE  FInv'
<1>1. CASE strides' = AllIdle
  <2>1. ASSUME NEW s \in Strides PROVE (Fits(s) /\ Delivers(s))'
    BY <1>1 DEF AllIdle, Idle, Fits, Delivers
  <2> QED BY <2>1 DEF FInv
<1>2. CASE strides' = Begun
  <2>1. ASSUME NEW s \in Strides PROVE (Fits(s) /\ Delivers(s))'
    <3>1. strides'[s] = [state |-> "busy", left |-> Share(s), todo |-> {}, buffer |-> {}]
      BY <1>2 DEF Begun
    <3> QED BY <3>1 DEF Fits, Delivers
  <2> QED BY <2>1 DEF FInv
<1> QED BY <1>1, <1>2

LEMMA ApartF ==
  ASSUME FilesBeforePods', pc' \in Apart, strides' = AllIdle \/ strides' = Begun
  PROVE  FInv'
<1>1. Ready' BY DEF Ready, Apart
<1> QED BY <1>1, IdleAfterF

LEMMA EndStridesF == ASSUME TypeOK, FInv, EndStrides PROVE FInv'
<1>1. /\ pc \in Types /\ strides' = AllIdle /\ UNCHANGED <<objects, spaces, plan, failed, cfg>>
      /\ pc' = "final" \/ (pc' = AfterStrides(pc) /\ \A s \in Strides : strides[s].state = "done")
  BY DEF EndStrides, SomeFailed, clusterVars, mainRest
<1>2. FilesBeforePods' BY <1>1, SameObjects DEF FInv
<1>3. /\ AllFiles => AllFiles'
      /\ AllSecrets => AllSecrets'
  BY <1>1 DEF AllFiles, FilesIn, AllSecrets, SecretsIn, SecretsOf
<1>4. Ready'
  <2>1. CASE pc' = "final" BY <2>1 DEF Ready
  <2>2. CASE pc' = AfterStrides(pc) /\ \A s \in Strides : strides[s].state = "done"
    <3>1. CASE pc = "namespaces" BY <2>2, <3>1 DEF AfterStrides, Ready
    <3>2. CASE pc = "configmaps"
      <4>1. pc' = "secrets" BY <2>2, <3>2 DEF AfterStrides
      <4>2. ~failed => AllFiles BY <2>2, <3>2, PhaseComplete
      <4> QED BY <1>1, <1>3, <4>1, <4>2 DEF Ready
    <3>3. CASE pc = "secrets"
      <4>1. pc' = "wait secrets" BY <2>2, <3>3 DEF AfterStrides
      <4>2. ~failed => AllSecrets BY <2>2, <3>3, PhaseComplete
      <4>3. ~failed => AllFiles BY <3>3 DEF FInv, Ready
      <4> QED BY <1>1, <1>3, <4>1, <4>2, <4>3 DEF Ready
    <3>4. CASE pc = "deployments" BY <2>2, <3>4 DEF AfterStrides, Ready
    <3> QED BY <1>1, <3>1, <3>2, <3>3, <3>4 DEF Types
  <2> QED BY <1>1, <2>1, <2>2
<1> QED BY <1>1, <1>2, <1>4, IdleAfterF

LEMMA QuietF ==
  ASSUME TypeOK, FInv,
         Refuse \/ SetUp \/ Allocate \/ CheckNamespaces \/ Creates \/ WaitForSecrets \/ DoLogging
         \/ NewRun \/ Kill
  PROVE  FInv'
<1>1. objects' = objects /\ spaces' = spaces
  BY DEF Refuse, SetUp, Allocate, CheckNamespaces, Creates, CreateStrides, WaitForSecrets, DoLogging,
         NewRun, Kill, clusterVars
<1>2. FilesBeforePods' BY <1>1, SameObjects DEF FInv
<1>3. CASE Refuse \/ SetUp \/ Allocate \/ DoLogging
  <2>1. strides' = strides /\ pc \in {"check", "configmaps", "secrets", "sync files", "setup",
                                       "allocate", "run"} /\ (pc \in Types => strides = AllIdle)
    BY <1>3 DEF Refuse, SetUp, Allocate, DoLogging, Types
  <2>2. pc' \in {"final", "allocate", "check"}
    BY <1>3 DEF Refuse, SetUp, Allocate, DoLogging
  <2>3. strides' = AllIdle BY <2>1 DEF TypeOK, StridesOK
  <2> QED BY <1>2, <2>2, <2>3, ApartF DEF Apart, Phases
<1>4. CASE CheckNamespaces
  BY <1>2, <1>4, ApartF DEF CheckNamespaces, Apart, Phases, Types
<1>5. CASE NewRun \/ Kill
  BY <1>2, <1>5, ApartF DEF NewRun, Reset, Kill, Apart, Phases, Over
<1>6. CASE Creates \/ WaitForSecrets
  <2>1. UNCHANGED <<plan, cfg, failed>>
    BY <1>6 DEF Creates, CreateStrides, WaitForSecrets, runVars, endVars, mainRest
  <2>2. AllFiles' = AllFiles /\ AllSecrets' = AllSecrets
    BY <1>1, <2>1 DEF AllFiles, FilesIn, AllSecrets, SecretsIn, SecretsOf
  <2>3. \/ pc' = pc /\ pc \in {"configmaps", "secrets"} /\ strides' = Begun
        \/ pc = "wait secrets" /\ pc' = "sync files" /\ strides' = strides
    BY <1>6 DEF Creates, CreateStrides, Start, WaitForSecrets
  <2>4. Ready' BY <2>1, <2>2, <2>3 DEF FInv, Ready
  <2>5. strides' = Begun \/ strides' = AllIdle BY <2>3 DEF TypeOK, StridesOK, Types
  <2> QED BY <1>2, <2>4, <2>5, IdleAfterF
<1> QED BY <1>3, <1>4, <1>5, <1>6

LEMMA SignalF == ASSUME TypeOK, FInv, Signal PROVE FInv'
<1>1. /\ UNCHANGED <<objects, spaces, plan, cfg, existing, pc, strides>> /\ failed' = TRUE
  BY DEF Signal, clusterVars, runVars, mainRest
<1>2. FilesBeforePods' BY <1>1, SameObjects DEF FInv
<1>3. /\ AllFiles' = AllFiles /\ AllSecrets' = AllSecrets /\ SyncFilesIn' = SyncFilesIn
  BY <1>1 DEF AllFiles, FilesIn, AllSecrets, SecretsIn, SecretsOf, SyncFilesIn, SyncNs
<1>4. Ready' BY <1>1, <1>3 DEF FInv, Ready
<1>5. ASSUME NEW s \in Strides PROVE Fits(s)' /\ Delivers(s)'
  <2>1. Planned' = Planned BY <1>1 DEF Planned
  <2>2. \A n : Built(pc, n)' = Built(pc, n) BY <1>1 DEF Built, SecretsOf
  <2>3. Fits(s)' BY <1>1, <2>1, <2>2 DEF FInv, Fits
  <2>4. Delivers(s)' BY <1>1, <2>2 DEF FInv, Delivers
  <2> QED BY <2>3, <2>4
<1> QED BY <1>2, <1>4, <1>5 DEF FInv

LEMMA TerminateF == ASSUME TypeOK, FInv, Terminates PROVE FInv'
<1>1. PICK n \in Spaces : Terminate(n) BY DEF Terminates
<1>2. /\ UNCHANGED <<plan, cfg, existing, pc, strides, failed>>
      /\ spaces' = spaces \ {n} /\ objects' = {o \in objects : o.ns # n}
  BY <1>1 DEF Terminate, Without, runVars, endVars
<1>3. FilesBeforePods'
  <2>1. \A o : \A m \in Mounts(o) : m.ns = o.ns BY DEF Mounts, SecretsOf, Obj
  <2>2. \A o : Mounts(o)' = Mounts(o) BY DEF Mounts, SecretsOf
  <2> QED BY <1>2, <2>1, <2>2 DEF FInv, FilesBeforePods
<1>4. /\ AllFiles => AllFiles'
      /\ AllSecrets => AllSecrets'
      /\ SyncFilesIn => SyncFilesIn'
  <2>1. AllFiles => AllFiles' BY <1>2 DEF AllFiles, FilesIn, Obj
  <2>2. AllSecrets => AllSecrets' BY <1>2 DEF AllSecrets, SecretsIn, SecretsOf, Obj
  <2>3. SyncFilesIn => SyncFilesIn' BY <1>2 DEF SyncFilesIn, SyncNs, Obj
  <2> QED BY <2>1, <2>2, <2>3
<1>5. Ready'
  <2>1. Ready /\ pc' = pc /\ failed' = failed BY <1>2 DEF FInv
  <2> QED BY <1>4, <2>1 DEF Ready
<1>6. ASSUME NEW s \in Strides PROVE Fits(s)' /\ Delivers(s)'
  <2>1. Planned' = Planned BY <1>2 DEF Planned
  <2>2. \A k : Built(pc, k)' = Built(pc, k) BY <1>2 DEF Built, SecretsOf
  <2>3. Fits(s)' BY <1>2, <2>1, <2>2 DEF FInv, Fits
  <2>4. Delivers(s)'
    <3>1. SUFFICES ASSUME pc \in {"configmaps", "secrets"}, strides[s].state \in {"busy", "done"},
                          NEW i \in Share(s) \ strides[s].left, plan[i] \in spaces, plan[i] # n,
                          NEW o \in Built(pc, plan[i])
                   PROVE  o \in objects' \cup strides[s].todo \cup strides[s].buffer
      BY <1>2, <2>2 DEF Delivers, Share
    <3>2. o.ns = plan[i] BY <3>1, BuiltNs DEF Types
    <3>3. o \in objects \cup strides[s].todo \cup strides[s].buffer
      BY <3>1 DEF FInv, Delivers
    <3> QED BY <1>2, <3>1, <3>2, <3>3
  <2> QED BY <2>3, <2>4
<1> QED BY <1>3, <1>5, <1>6 DEF FInv

\* A command of the main thread for objects that find what they mount.
LEMMA ApplyShape ==
  ASSUME FilesBeforePods, NEW os, NEW next, Apply(os, next),
         \A o \in os : Acceptable(o) => Mounts(o) \subseteq objects
  PROVE  /\ FilesBeforePods' /\ objects \subseteq objects' /\ UNCHANGED <<plan, cfg>>
         /\ (\A o \in os : o.kind # "Namespace") => spaces' = spaces
         /\ \/ pc' = "final"
            \/ /\ pc' = next /\ failed' = failed
               /\ (\A o \in os : o.kind # "Namespace") => os \subseteq objects'
<1>1. Submitted(os) \/ NotSubmitted(os)
  BY DEF Apply
<1>2. PICK part \in SUBSET os : (\A o \in part : Acceptable(o)) /\ Accept(part)
  BY <1>1 DEF Submitted, NotSubmitted
<1>3. FilesBeforePods' /\ objects \subseteq objects'
  BY <1>2, AcceptSafe
<1>4. (\A o \in os : o.kind # "Namespace") => spaces' = spaces
  BY <1>2 DEF Accept
<1>5. UNCHANGED <<plan, cfg>>
  BY DEF Apply, runVars, mainRest
<1>6. \/ pc' = "final"
      \/ pc' = next /\ failed' = failed /\ Submitted(os)
  BY DEF Apply, endVars
<1>7. Submitted(os) /\ (\A o \in os : o.kind # "Namespace") => os \subseteq objects'
  BY DEF Submitted, Accept
<1> QED BY <1>3, <1>4, <1>5, <1>6, <1>7

LEMMA FilesKept ==
  ASSUME objects \subseteq objects', spaces' = spaces, UNCHANGED <<plan, cfg>>
  PROVE  (AllFiles => AllFiles') /\ (AllSecrets => AllSecrets') /\ (SyncFilesIn => SyncFilesIn')
<1>1. AllFiles => AllFiles' BY DEF AllFiles, FilesIn
<1>2. AllSecrets => AllSecrets' BY DEF AllSecrets, SecretsIn, SecretsOf
<1>3. SyncFilesIn => SyncFilesIn' BY DEF SyncFilesIn, SyncNs
<1> QED BY <1>1, <1>2, <1>3

LEMMA CommandF ==
  ASSUME TypeOK, FInv, SyncNamespace \/ SyncFiles \/ SyncService \/ SyncPod \/ Services
  PROVE  FInv'
<1>1. strides = AllIdle /\ FilesBeforePods /\ Ready
  BY DEF SyncNamespace, SyncFiles, Start, SyncService, SyncPod, Services, TypeOK, StridesOK, Types, FInv
<1>2. CASE SyncNamespace
  <2>1. PICK os \in {{Obj("Namespace", SyncSpace, 0)}, {}} : Apply(os, "configmaps")
    BY <1>2 DEF SyncNamespace
  <2>2. \A o \in os : Mounts(o) = {} BY <2>1 DEF Mounts, Obj
  <2>3. FilesBeforePods' /\ pc' \in {"final", "configmaps"} BY <1>1, <2>1, <2>2, ApplyShape
  <2>4. strides' = AllIdle BY <1>1, <1>2 DEF SyncNamespace
  <2> QED BY <2>3, <2>4, ApartF DEF Apart, Phases, Types
<1>3. CASE SyncFiles
  <2> DEFINE os == IF cfg.outside THEN {Obj("System", SyncSpace, 0)} ELSE {}
  <2>1. Apply(os, "sync service") /\ strides' = AllIdle /\ pc = "sync files" /\ ~failed
    BY <1>1, <1>3 DEF SyncFiles, Start, RunFailedSet
  <2>2. \A o \in os : o.kind = "System" /\ Mounts(o) = {} BY DEF Mounts, Obj
  <2>3. /\ FilesBeforePods' /\ objects \subseteq objects' /\ UNCHANGED <<plan, cfg, spaces>>
        /\ pc' = "final" \/ (pc' = "sync service" /\ os \subseteq objects')
    <3> HIDE DEF os
    <3> QED BY <1>1, <2>1, <2>2, ApplyShape
  <2>4. AllFiles /\ AllSecrets BY <1>1, <2>1 DEF Ready
  <2>5. AllFiles' /\ AllSecrets' BY <2>3, <2>4, FilesKept
  <2>6. os \subseteq objects' => SyncFilesIn'
    <3>1. CASE cfg.outside
      BY <2>3, <3>1 DEF SyncFilesIn, SyncNs
    <3>2. CASE ~cfg.outside
      <4>1. SyncNs' = plan[0] BY <2>3, <3>2 DEF SyncNs
      <4>2. FilesIn(plan[0])' BY <2>3, <2>5, IndexZero DEF AllFiles, FilesIn
      <4> QED BY <2>3, <4>1, <4>2 DEF SyncFilesIn, FilesIn
    <3> QED BY <3>1, <3>2
  <2>7. Ready' BY <2>3, <2>5, <2>6 DEF Ready
  <2> QED BY <2>1, <2>3, <2>7, IdleAfterF
<1>4. CASE SyncService \/ SyncPod \/ Services
  <2>1. AllFiles /\ AllSecrets /\ (SyncService \/ SyncPod => SyncFilesIn)
    BY <1>1, <1>4 DEF SyncService, SyncPod, Services, Ready
  <2>2. PICK os, next :
          /\ Apply(os, next)
          /\ \/ SyncService /\ next = "sync pod" /\ os = {Obj("Service", SyncNs, 0)}
             \/ SyncPod /\ next = "services" /\ os = {Obj("SyncPod", SyncNs, 0)}
             \/ Services /\ next = "deployments" /\ os = ExternalServices
    BY <1>4 DEF SyncService, SyncPod, Services
  <2>3. ASSUME NEW o \in os
        PROVE  o.kind # "Namespace" /\ (Acceptable(o) => Mounts(o) \subseteq objects)
    <3>1. CASE o.kind = "Service" BY <3>1 DEF Mounts
    <3>2. CASE SyncPod /\ o = Obj("SyncPod", SyncNs, 0)
      <4>1. o.kind = "SyncPod" /\ o.ns = SyncNs BY <3>2 DEF Obj
      <4>2. Acceptable(o) => SyncNs \in spaces BY <4>1 DEF Acceptable
      <4> QED BY <2>1, <3>2, <4>1, <4>2 DEF Mounts, SyncFilesIn
    <3>3. o = Obj("SyncPod", SyncNs, 0) \/ \E n : o = Obj("Service", n, 0)
      BY <2>2 DEF ExternalServices
    <3>4. o.kind \in {"SyncPod", "Service"} BY <3>3 DEF Obj
    <3>5. o.kind = "SyncPod" => SyncPod /\ o = Obj("SyncPod", SyncNs, 0)
      <4>1. CASE os = {Obj("Service", SyncNs, 0)} BY <4>1 DEF Obj
      <4>2. CASE SyncPod /\ os = {Obj("SyncPod", SyncNs, 0)} BY <4>2
      <4>3. CASE os = ExternalServices BY <4>3 DEF ExternalServices, Obj
      <4> QED BY <2>2, <4>1, <4>2, <4>3
    <3> QED BY <3>1, <3>2, <3>4, <3>5
  <2>4. /\ FilesBeforePods' /\ objects \subseteq objects' /\ UNCHANGED <<plan, cfg, spaces>>
        /\ pc' = "final" \/ pc' = next
    BY <1>1, <2>2, <2>3, ApplyShape
  <2>5. AllFiles' /\ AllSecrets' /\ (SyncFilesIn => SyncFilesIn')
    BY <2>1, <2>4, FilesKept
  <2>6. Ready'
    <3>1. CASE pc' = "final" BY <3>1 DEF Ready
    <3>2. CASE SyncService /\ pc' = "sync pod" BY <2>1, <2>5, <3>2 DEF Ready
    <3>3. CASE (SyncPod \/ Services) /\ pc' \in {"services", "deployments"} BY <2>5, <3>3 DEF Ready
    <3> QED BY <2>2, <2>4, <3>1, <3>2, <3>3
  <2>7. strides' = AllIdle \/ strides' = Begun
    BY <1>1, <1>4 DEF SyncService, SyncPod, Services
  <2> QED BY <2>4, <2>6, <2>7, IdleAfterF
<1> QED BY <1>2, <1>3, <1>4

\* What a cleanup deletes is mounted by nothing that it leaves.
LEMMA DeletesSafe ==
  ASSUME FilesBeforePods, NEW kinds, DeletesSpaces \/ LeavesSpaces \/ DeletesObjects(kinds) \/ LeavesObjects(kinds)
  PROVE  FilesBeforePods'
<1>1. \A o : \A m \in Mounts(o) : m.ns = o.ns /\ m.kind \notin {"Service", "SyncPod", "Deployment"}
  BY DEF Mounts, SecretsOf, Obj
<1>2. \A o : Mounts(o)' = Mounts(o) BY DEF Mounts, SecretsOf
<1>3. CASE DeletesSpaces
  <2>1. objects' = {o \in objects : o.ns \notin labelled} BY <1>3 DEF DeletesSpaces, Without
  <2> QED BY <1>1, <1>2, <2>1 DEF FilesBeforePods
<1>4. CASE LeavesSpaces
  BY <1>2, <1>4 DEF LeavesSpaces, FilesBeforePods
<1>5. CASE DeletesObjects(kinds) \/ LeavesObjects(kinds)
  <2>1. /\ objects' \subseteq objects
        /\ \A o \in objects : o.kind \notin {"Service", "SyncPod", "Deployment"} => o \in objects'
    BY <1>5 DEF DeletesObjects, LeavesObjects, Covered
  <2> QED BY <1>1, <1>2, <2>1 DEF FilesBeforePods
<1> QED BY <1>3, <1>4, <1>5

LEMMA SweepF == ASSUME TypeOK, FInv, Sweep PROVE FInv'
<1>1. strides' = strides
  BY DEF Sweep, Precleanup, FinalCleanup, DeleteSync, Delete, ForceCleanup, ForceSpaces, Poll, sweepRest
<1>2. pc \in Sweeping \cup {"precleanup", "final"}
  BY SweepTurn DEF Sweep, Precleanup, FinalCleanup
<1>3. strides' = AllIdle
  BY <1>1, <1>2 DEF Sweeping, TypeOK, StridesOK, Types
<1>4. pc' \in Sweeping \cup {"setup", "ended"}
  <2>1. CASE Precleanup \/ FinalCleanup
    BY <2>1, BeginSweepShape DEF Precleanup, FinalCleanup, Sweeping
  <2>2. CASE DeleteSync \/ Delete \/ ForceCleanup \/ ForceSpaces \/ Poll
    BY <2>2, SweepTurn
  <2> QED BY <2>1, <2>2 DEF Sweep
<1>5. FilesBeforePods'
  <2>1. CASE objects' = objects BY <2>1, SameObjects DEF FInv
  <2>2. CASE DeletesSpaces \/ LeavesSpaces \/ \E kinds : DeletesObjects(kinds) \/ LeavesObjects(kinds)
    BY <2>2, DeletesSafe DEF FInv
  <2>3. CASE Precleanup \/ FinalCleanup \/ Poll
    BY <2>1, <2>3 DEF Precleanup, FinalCleanup, Poll, clusterVars
  <2>4. CASE DeleteSync BY <2>1, <2>2, <2>4 DEF DeleteSync, clusterVars
  <2>5. CASE Delete \/ ForceCleanup \/ ForceSpaces
    BY <2>2, <2>5 DEF Delete, ForceCleanup, ForceSpaces
  <2> QED BY <2>3, <2>4, <2>5 DEF Sweep
<1> QED BY <1>3, <1>4, <1>5, ApartF DEF Apart, Phases, Sweeping, Over, Types

LEMMA NextFInv == TypeOK /\ FInv /\ [Next]_vars => FInv'
<1> SUFFICES ASSUME TypeOK, FInv, [Next]_vars PROVE FInv'
  OBVIOUS
<1>1. CASE Threads
  BY <1>1, StrideF, EndStridesF, QuietF, CommandF, SweepF DEF Threads, Main
<1>2. CASE Terminates \/ Signal \/ NewRun \/ Kill
  BY <1>2, TerminateF, SignalF, QuietF
<1>3. CASE UNCHANGED vars
  <2>1. UNCHANGED <<spaces, objects, cfg, pc, plan, existing, failed, strides>>
    BY <1>3 DEF vars, clusterVars, runVars, endVars
  <2>2. FilesBeforePods' BY <2>1, SameObjects DEF FInv
  <2>3. Ready' BY <2>1 DEF FInv, Ready, AllFiles, FilesIn, AllSecrets, SecretsIn, SecretsOf, SyncFilesIn, SyncNs
  <2>4. ASSUME NEW s \in Strides PROVE Fits(s)' /\ Delivers(s)'
    <3>1. Planned' = Planned BY <2>1 DEF Planned
    <3>2. \A n : Built(pc, n)' = Built(pc, n) BY <2>1 DEF Built, SecretsOf
    <3>3. Fits(s)' BY <2>1, <3>1, <3>2 DEF FInv, Fits
    <3>4. Delivers(s)' BY <2>1, <3>2 DEF FInv, Delivers
    <3> QED BY <3>3, <3>4
  <2> QED BY <2>2, <2>3, <2>4 DEF FInv
<1> QED BY <1>1, <1>2, <1>3 DEF Next

LEMMA InitFInv == Init => FInv
<1> SUFFICES ASSUME Init PROVE FInv
  OBVIOUS
<1>1. FilesBeforePods /\ Ready BY DEF Init, FilesBeforePods, Ready
<1> QED BY <1>1, IdleFits DEF Init, FInv

\* No pod is ever on the cluster without the config maps and secrets that it mounts, for any
\* number of namespaces, threads, failures and runs: what a phase's threads deliver is complete
\* before the next phase, or no pod is created (create_all_objects, _create_all_parallel).
THEOREM FilesFirst == Spec => []FilesBeforePods
<1>1. Init => TypeOK /\ FInv BY InitTypeOK, InitFInv
<1>2. TypeOK /\ FInv /\ [Next]_vars => TypeOK' /\ FInv' BY NextTypeOK, NextFInv
<1>3. FInv => FilesBeforePods BY DEF FInv
<1> QED BY <1>1, <1>2, <1>3, PTL DEF Spec
===========================================================================
