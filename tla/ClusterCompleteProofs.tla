----------------------- MODULE ClusterCompleteProofs -----------------------
(***************************************************************************)
(* What a run that has started has on the cluster, and what its cleanup    *)
(* leaves there, for any number of namespaces, threads, runs and failures. *)
(***************************************************************************)
EXTENDS ClusterObjectsProofs

USE DEF Object, Kinds, Obj

---------------------------------------------------------------------------
(* What a cleanup leaves. *)

Clean == \A o \in objects : o.kind \notin {"Service", "SyncPod", "Deployment"}

\* Only the cleanup at the end is a final one; namespaces are waited for only where they are
\* removed; what was found at the wait's end, or after a command that succeeded, stays so.
NInv ==
  /\ pc \notin Sweeping \cup Over => sweep = "pre"
  /\ pc \in {"force spaces", "wait"} => removes
  /\ pc = "ended" /\ sweep = "final" /\ removes => labelled = {} \/ misses = MaxQueryFailures - 1
  /\ pc \in {"force", "ended"} /\ sweep = "final" /\ ~removes /\ swept => Clean

\* A step of a run between its cleanups.
LEMMA BetweenN ==
  ASSUME NInv, pc \notin Sweeping \cup Over, pc' \notin Sweeping, pc' # "ended", sweep' = sweep
  PROVE  NInv'
BY DEF NInv, Sweeping, Over

LEMMA StrideN == ASSUME TypeOK, NInv, NEW s \in Strides, Stride(s) PROVE NInv'
<1>1. pc \in Types /\ pc' = pc BY StrideFrame
<1>2. sweep' = sweep BY DEF Stride, Build, Add, StrideEnds, strideRest, sweepVars
<1> QED BY <1>1, <1>2, BetweenN DEF Types, Sweeping, Over

LEMMA CreatingN == ASSUME NInv, Creating PROVE NInv'
<1>1. \E os : \E next \in {"configmaps", "sync service", "sync pod", "services", "deployments"} :
        Apply(os, next)
  BY DEF Creating, SyncNamespace, SyncFiles, SyncService, SyncPod, Services
<1>2. sweep' = sweep /\ pc' \notin Sweeping \cup Over
  BY <1>1 DEF Apply, mainRest, sweepVars, Sweeping, Over
<1>3. pc \notin Sweeping \cup Over
  BY DEF Creating, SyncNamespace, SyncFiles, Start, SyncService, SyncPod, Services, Sweeping, Over
<1> QED BY <1>2, <1>3, BetweenN DEF Over

LEMMA RunningN == ASSUME TypeOK, NInv, Running \/ Allocate \/ CheckNamespaces PROVE NInv'
<1>1. sweep' = sweep
  BY DEF Running, Refuse, SetUp, EndStrides, Creates, CreateStrides, WaitForSecrets, DoLogging, Signal,
         Allocate, CheckNamespaces, mainRest, sweepVars
<1>2. CASE Signal
  <2>1. pc' = pc /\ UNCHANGED <<clusterVars, sweepVars, historyVars>>
    BY <1>2 DEF Signal, mainRest
  <2>2. Clean' = Clean BY <2>1 DEF Clean, clusterVars
  <2>3. pc \notin Over BY <1>2 DEF Signal
  <2> QED BY <2>1, <2>2, <2>3 DEF NInv, clusterVars, sweepVars, historyVars, Over
<1>3. CASE ~Signal
  <2>1. pc \notin Sweeping \cup Over
    BY <1>3 DEF Running, Refuse, SetUp, EndStrides, Types, Creates, CreateStrides, Start, WaitForSecrets,
       DoLogging, Allocate, CheckNamespaces, Sweeping, Over
  <2>2. pc' \notin Sweeping \cup Over
    BY <1>3 DEF Running, Refuse, SetUp, EndStrides, AfterStrides, Types, Creates, CreateStrides, Start,
       WaitForSecrets, DoLogging, Allocate, CheckNamespaces, Sweeping, Over
  <2> QED BY <1>1, <2>1, <2>2, BetweenN DEF Over
<1> QED BY <1>2, <1>3

LEMMA AroundN == ASSUME NInv, Terminates \/ NewRun \/ Kill PROVE NInv'
<1>1. CASE Terminates
  <2>1. PICK n \in Spaces : Terminate(n) BY <1>1 DEF Terminates
  <2>2. pc' = pc /\ UNCHANGED <<sweepVars, historyVars>> BY <2>1 DEF Terminate
  <2>3. labelled' \subseteq labelled /\ objects' \subseteq objects BY <2>1 DEF Terminate, Without
  <2>4. Clean => Clean' BY <2>3 DEF Clean
  <2>5. labelled = {} => labelled' = {} BY <2>3
  <2> QED BY <2>2, <2>4, <2>5 DEF NInv, sweepVars, historyVars
<1>2. CASE NewRun
  BY <1>2 DEF NewRun, Reset, NInv, Sweeping, Over
<1>3. CASE Kill
  BY <1>3 DEF Kill, NInv, Over
<1> QED BY <1>1, <1>2, <1>3

LEMMA DeletedClean == ASSUME DeletesObjects(Kinds) PROVE Clean'
BY DEF DeletesObjects, Covered, Clean

LEMMA LeftClean == ASSUME Clean, DeletesObjects(Kinds) \/ LeavesObjects(Kinds) PROVE Clean'
BY DEF DeletesObjects, LeavesObjects, Covered, Clean

LEMMA SweepN == ASSUME TypeOK, NInv, Sweep PROVE NInv'
<1>1. CASE Precleanup
  <2>1. sweep = "pre" BY <1>1 DEF Precleanup, NInv, Sweeping, Over
  <2>2. \/ pc' = "setup" /\ sweep' = sweep
        \/ pc' = "delete sync" /\ sweep' = "pre"
    BY <1>1, BeginSweepShape DEF Precleanup, sweepVars
  <2> QED BY <2>1, <2>2 DEF NInv, Sweeping, Over
<1>2. CASE FinalCleanup
  <2>1. sweep = "pre" BY <1>2 DEF FinalCleanup, NInv, Sweeping, Over
  <2>2. \/ pc' = "ended" /\ sweep' = sweep
        \/ pc' = "delete sync" /\ sweep' = "final"
    BY <1>2, BeginSweepShape DEF FinalCleanup, sweepVars
  <2> QED BY <2>1, <2>2 DEF NInv, Sweeping, Over
<1>3. CASE DeleteSync
  <2>1. pc' = "delete" BY <1>3 DEF DeleteSync
  <2> QED BY <2>1 DEF NInv, Sweeping, Over
<1>4. CASE Delete
  <2>1. UNCHANGED <<sweep, removes, misses>> BY <1>4 DEF Delete
  <2>2. pc' = "force" \/ AfterDelete BY <1>4 DEF Delete
  <2>3. \/ pc' = "force" \/ (pc' = "wait" /\ removes)
        \/ ~removes /\ (pc' = IF sweep = "pre" THEN "setup" ELSE "ended")
    BY <2>2 DEF AfterDelete, SweepEnds
  <2>4. ~removes /\ swept' => Clean' BY <1>4, DeletedClean DEF Delete
  <2>5. sweep \in {"pre", "final"} BY DEF TypeOK, SweepOK
  <2> QED BY <2>1, <2>3, <2>4, <2>5 DEF NInv, Sweeping, Over
<1>5. CASE ForceCleanup
  <2>1. UNCHANGED <<sweep, removes, misses>> /\ pc = "force" BY <1>5 DEF ForceCleanup
  <2>2. \/ pc' = "force spaces" /\ removes
        \/ ~removes /\ (pc' = IF sweep = "pre" THEN "setup" ELSE "ended")
    BY <1>5 DEF ForceCleanup, SweepEnds
  <2>3. sweep = "final" /\ ~removes /\ swept' => Clean'
    <3>1. CASE DeletesObjects(Kinds) BY <3>1, DeletedClean
    <3>2. CASE LeavesObjects(Kinds) /\ UNCHANGED swept BY <2>1, <3>2, LeftClean DEF NInv
    <3> QED BY <1>5, <3>1, <3>2 DEF ForceCleanup
  <2>4. sweep \in {"pre", "final"} BY DEF TypeOK, SweepOK
  <2> QED BY <2>1, <2>2, <2>3, <2>4 DEF NInv, Sweeping, Over
<1>6. CASE ForceSpaces
  <2>1. removes /\ pc' = "wait" /\ removes' = removes BY <1>6 DEF ForceSpaces, NInv
  <2> QED BY <2>1 DEF NInv, Sweeping, Over
<1>7. CASE Poll
  <2>1. removes /\ UNCHANGED <<sweep, removes, labelled>> BY <1>7 DEF Poll, NInv, clusterVars
  <2>2. \/ pc' = "wait"
        \/ /\ pc' = IF sweep = "pre" THEN "setup" ELSE "ended"
           /\ labelled = {} \/ misses' = MaxQueryFailures - 1
    <3>1. misses \in Nat /\ MaxQueryFailures \in Nat BY BoundAssumption DEF TypeOK, SweepOK
    <3>2. GiveUp => misses = MaxQueryFailures - 1 BY <3>1 DEF GiveUp
    <3> QED BY <1>7, <3>2 DEF Poll, SweepEnds
  <2>3. sweep \in {"pre", "final"} BY DEF TypeOK, SweepOK
  <2> QED BY <2>1, <2>2, <2>3 DEF NInv, Sweeping, Over
<1> QED BY <1>1, <1>2, <1>3, <1>4, <1>5, <1>6, <1>7 DEF Sweep

LEMMA InitNInv == Init => NInv
BY DEF Init, NInv, Over

LEMMA NextNInv == TypeOK /\ NInv /\ [Next]_vars => NInv'
<1> SUFFICES ASSUME TypeOK, NInv, [Next]_vars PROVE NInv'
  OBVIOUS
<1>1. CASE Threads
  BY <1>1, StrideN, CreatingN, RunningN, SweepN DEF Threads, Main, Creating, Running
<1>2. CASE Terminates \/ Signal \/ NewRun \/ Kill
  BY <1>2, RunningN, AroundN DEF Running
<1>3. CASE UNCHANGED vars
  BY <1>3 DEF vars, clusterVars, runVars, sweepVars, historyVars, NInv, Clean
<1> QED BY <1>1, <1>2, <1>3 DEF Next

\* After the cleanup at the end no labelled namespace is left where namespaces are removed, unless
\* the wait for them gave up, and nothing that runs or serves where they are kept and a deletion
\* succeeded, for any number of namespaces, runs and failures (do_cleanup, _force_cleanup,
\* _wait_for_namespace_deletion).
THEOREM CleanupLeavesNothing == Spec => []NothingLeft
<1>1. Init => TypeOK /\ NInv BY InitTypeOK, InitNInv
<1>2. TypeOK /\ NInv /\ [Next]_vars => TypeOK' /\ NInv' BY NextTypeOK, NextNInv
<1>3. NInv => NothingLeft BY DEF NInv, NothingLeft, Clean
<1> QED BY <1>1, <1>2, <1>3, PTL DEF Spec

---------------------------------------------------------------------------
(* What a run that starts has. *)

Creation == Types \cup {"sync space", "wait secrets", "sync files", "sync service", "sync pod",
                        "services", "run"}
Settled == Creation \ {"namespaces"}

InSpace(n, os) == n \in spaces => os \subseteq objects

\* A namespace that did not terminate when the run took it does not do so while the run creates.
Undying == pc \in Creation => terminating \subseteq doomed /\ existing \ doomed \subseteq spaces

SpacesThere == \A i \in Index : plan[i] \in doomed \cup spaces
SyncSpaceThere == SyncNs \in doomed \cup spaces
SyncPodIn == InSpace(SyncNs, {Obj("SyncPod", SyncNs, 0)})
ServicesIn == \A n \in Used : InSpace(n, {Obj("Service", n, 0)})
BuiltIn(type) == \A i \in Index : InSpace(plan[i], Built(type, plan[i]))
AllIn == \A type \in Types \ {"namespaces"} : BuiltIn(type)

\* What is there from one phase on, in the namespaces that are.
Provided ==
  /\ pc \in Settled /\ ~failed => SpacesThere
  /\ pc \in Settled \ {"sync space"} /\ ~failed => SyncSpaceThere
  /\ pc \in {"services", "deployments", "run"} => SyncPodIn
  /\ pc \in {"deployments", "run"} => ServicesIn
  /\ pc = "run" /\ ~failed => AllIn

\* The namespaces and deployments of a thread's share are there or on their way.
Hands(s) ==
  strides[s].state \in {"busy", "done"} =>
    \A i \in Share(s) \ strides[s].left :
      /\ pc = "namespaces" =>
           \/ plan[i] \in doomed \cup spaces
           \/ Obj("Namespace", plan[i], 0) \in strides[s].todo \cup strides[s].buffer
      /\ pc = "deployments" =>
           InSpace(plan[i], Built("deployments", plan[i]) \ (strides[s].todo \cup strides[s].buffer))

CInv == Undying /\ Provided /\ \A s \in Strides : Hands(s)

\* The cluster as a run's own steps change it.
Supplies ==
  /\ objects \subseteq objects' /\ spaces \subseteq spaces' /\ terminating' = terminating
  /\ pc \notin {"namespaces", "sync space"} => spaces' = spaces

LEMMA AcceptSupplies ==
  ASSUME NEW os, Accept(os)
  PROVE  /\ objects \subseteq objects' /\ spaces \subseteq spaces' /\ terminating' = terminating
         /\ (\A o \in os : o.kind # "Namespace") => spaces' = spaces
         /\ \A o \in os : o.kind # "Namespace" => o \in objects'
         /\ \A o \in os : o.kind = "Namespace" => o.ns \in spaces'
BY DEF Accept

LEMMA CommandSupplies ==
  ASSUME NEW os, Submitted(os) \/ NotSubmitted(os)
  PROVE  /\ objects \subseteq objects' /\ spaces \subseteq spaces' /\ terminating' = terminating
         /\ (\A o \in os : o.kind # "Namespace") => spaces' = spaces
<1>1. PICK part \in SUBSET os : Accept(part)
  BY DEF Submitted, NotSubmitted
<1> QED BY <1>1, AcceptSupplies

LEMMA BuiltKinds ==
  ASSUME NEW type \in Types \ {"namespaces"}, NEW n, NEW o \in Built(type, n)
  PROVE  o.kind # "Namespace"
<1>1. CASE type = "configmaps" BY <1>1 DEF Built
<1>2. CASE type = "secrets" BY <1>2 DEF Built, SecretsOf
<1>3. CASE type = "deployments" BY <1>3 DEF Built
<1> QED BY <1>1, <1>2, <1>3 DEF Types

LEMMA IdleHands ==
  ASSUME strides' = AllIdle \/ strides' = Begun, NEW s \in Strides
  PROVE  Hands(s)'
<1>1. CASE strides' = AllIdle
  <2>1. strides'[s].state = "idle" BY <1>1 DEF AllIdle, Idle
  <2> QED BY <2>1 DEF Hands
<1>2. CASE strides' = Begun
  <2>1. strides'[s].left = Share(s) BY <1>2 DEF Begun
  <2> QED BY <2>1 DEF Hands, Share
<1> QED BY <1>1, <1>2

\* Outside of a run's creation there is nothing to say.
LEMMA ApartC == ASSUME pc' \notin Creation, strides' = AllIdle PROVE CInv'
BY IdleHands DEF CInv, Undying, Provided, Creation, Settled, Types

\* What a run has provided stays while it goes on.
LEMMA FactsKept ==
  ASSUME Supplies, UNCHANGED <<plan, cfg, existing, doomed>>
  PROVE  /\ SpacesThere => SpacesThere'
         /\ SyncSpaceThere => SyncSpaceThere'
         /\ pc \notin {"namespaces", "sync space"} =>
              /\ SyncPodIn => SyncPodIn'
              /\ ServicesIn => ServicesIn'
              /\ AllIn => AllIn'
<1>1. SyncNs' = SyncNs /\ Used' = Used BY DEF SyncNs, Used
<1>2. \A type, n : Built(type, n)' = Built(type, n) BY DEF Built, SecretsOf
<1>3. (SpacesThere => SpacesThere') /\ (SyncSpaceThere => SyncSpaceThere')
  BY <1>1 DEF SpacesThere, SyncSpaceThere, Supplies
<1>4. SUFFICES ASSUME pc \notin {"namespaces", "sync space"}
      PROVE (SyncPodIn => SyncPodIn') /\ (ServicesIn => ServicesIn') /\ (AllIn => AllIn')
  BY <1>3
<1>5. \A n, os : InSpace(n, os) => (n \in spaces' => os \subseteq objects')
  BY <1>4 DEF InSpace, Supplies
<1>6. SyncPodIn => SyncPodIn' BY <1>1, <1>5 DEF SyncPodIn, InSpace
<1>7. ServicesIn => ServicesIn' BY <1>1, <1>5 DEF ServicesIn, InSpace
<1>8. AllIn => AllIn' BY <1>2, <1>5 DEF AllIn, BuiltIn, InSpace
<1> QED BY <1>6, <1>7, <1>8

\* A step within a phase keeps what the phases before it provided.
LEMMA ProvidedKept ==
  ASSUME Undying, Provided, Supplies, pc \in Creation, pc' = pc, failed => failed',
         UNCHANGED <<plan, cfg, existing, doomed>>
  PROVE  Undying' /\ Provided'
<1>1. Undying' BY DEF Undying, Supplies
<1>2. Provided' BY FactsKept DEF Provided
<1> QED BY <1>1, <1>2

\* The steps of others take nothing from a thread's hands.
LEMMA HandsKept ==
  ASSUME NEW s \in Strides, Hands(s), Supplies, pc' = pc, strides'[s] = strides[s],
         UNCHANGED <<plan, doomed>>
  PROVE  Hands(s)'
<1>1. \A n : Built("deployments", n)' = Built("deployments", n)
  BY DEF Built, SecretsOf
<1>2. SUFFICES ASSUME strides[s].state \in {"busy", "done"}, NEW i \in Share(s) \ strides[s].left
      PROVE  /\ pc = "namespaces" =>
                   \/ plan[i] \in doomed \cup spaces'
                   \/ Obj("Namespace", plan[i], 0) \in strides[s].todo \cup strides[s].buffer
             /\ pc = "deployments" =>
                   (plan[i] \in spaces' =>
                      Built("deployments", plan[i]) \ (strides[s].todo \cup strides[s].buffer) \subseteq objects')
  BY <1>1 DEF Hands, InSpace, Share
<1> QED BY <1>2 DEF Hands, InSpace, Supplies

\* One thread's step: it is enough to look at its own hands.
LEMMA StepOfOneC ==
  ASSUME TypeOK, CInv, NEW s \in Strides, Stride(s), Supplies, NEW stride, Put(s, stride), Hands(s)'
  PROVE  CInv'
<1>1. pc \in Types /\ UNCHANGED <<cfg, pc, plan, existing, failed>> BY StrideFrame
<1>2. doomed' = doomed BY DEF Stride, Build, Add, StrideEnds, strideRest, historyVars
<1>3. Undying' /\ Provided'
  BY <1>1, <1>2, ProvidedKept DEF CInv, Creation
<1>4. ASSUME NEW r \in Strides PROVE Hands(r)'
  <2>1. r # s => strides'[r] = strides[r]
    BY DEF Put, TypeOK, StridesOK
  <2>2. r # s => Hands(r)' BY <1>1, <1>2, <2>1, HandsKept DEF CInv
  <2> QED BY <2>2
<1> QED BY <1>3, <1>4 DEF CInv

LEMMA BuildC == ASSUME TypeOK, FInv, CInv, NEW s \in Strides, Build(s) PROVE CInv'
<1> DEFINE old == strides[s]
<1>1. pc \in Types /\ old.state = "busy" /\ old \in StrideRecords
      /\ UNCHANGED <<cfg, pc, plan, existing, failed>>
  BY StrideFrame DEF Stride
<1>2. PICK i \in old.left :
        Put(s, [old EXCEPT !.left = old.left \ {i}, !.todo = Built(pc, plan[i])])
  BY DEF Build
<1> DEFINE new == [old EXCEPT !.left = old.left \ {i}, !.todo = Built(pc, plan[i])]
<1>3. old.todo = {} /\ UNCHANGED <<objects, spaces, terminating, doomed>>
  BY DEF Build, clusterVars, strideRest, historyVars
<1>4. strides'[s] = new
  BY <1>2 DEF Put, TypeOK, StridesOK
<1>5. /\ new.left = old.left \ {i} /\ new.todo = Built(pc, plan[i]) /\ new.buffer = old.buffer
  BY <1>1 DEF StrideRecords
<1>6. \A n : Built("deployments", n)' = Built("deployments", n) BY DEF Built, SecretsOf
<1>7. pc = "namespaces" => plan[i] \in doomed \cup spaces \/ Obj("Namespace", plan[i], 0) \in new.todo
  <2>1. SUFFICES ASSUME pc = "namespaces" PROVE plan[i] \in doomed \cup spaces \/ Obj("Namespace", plan[i], 0) \in new.todo
    OBVIOUS
  <2>2. existing \ doomed \subseteq spaces BY <2>1 DEF CInv, Undying, Creation, Types
  <2>3. plan[i] \notin existing => Obj("Namespace", plan[i], 0) \in Built(pc, plan[i]) BY <2>1 DEF Built
  <2> QED BY <1>5, <2>2, <2>3
<1>8. Hands(s)'
  <2> HIDE DEF new
  <2>1. SUFFICES ASSUME NEW j \in Share(s) \ new.left
        PROVE /\ pc = "namespaces" =>
                   \/ plan[j] \in doomed \cup spaces
                   \/ Obj("Namespace", plan[j], 0) \in new.todo \cup new.buffer
              /\ pc = "deployments" =>
                   InSpace(plan[j], Built("deployments", plan[j]) \ (new.todo \cup new.buffer))
    BY <1>1, <1>3, <1>4, <1>6 DEF Hands, InSpace, Share
  <2>2. CASE j = i BY <1>5, <1>7, <2>2 DEF InSpace
  <2>3. CASE j # i
    <3>1. j \in Share(s) \ old.left BY <1>5, <2>1, <2>3
    <3> QED BY <1>1, <1>3, <1>5, <3>1 DEF CInv, Hands, InSpace
  <2> QED BY <2>2, <2>3
<1> QED BY <1>2, <1>3, <1>8, StepOfOneC DEF Stride, Supplies

\* A thread whose buffer is flushed, whatever becomes of it.
LEMMA FlushC ==
  ASSUME TypeOK, CInv, NEW s \in Strides, Stride(s), NEW stride \in StrideRecords,
         Flush(s, stride),
         \A o \in stride.buffer : o.ns \in Planned /\ o \in Built(pc, o.ns),
         stride.left = strides[s].left,
         stride.todo \cup stride.buffer = strides[s].todo \cup strides[s].buffer
  PROVE  CInv'
<1>1. /\ pc \in Types /\ strides[s].state = "busy"
      /\ UNCHANGED <<cfg, pc, plan, existing, failed>>
  BY StrideFrame
<1>2. doomed' = doomed BY DEF Stride, Build, Add, StrideEnds, strideRest, historyVars
<1>3. pc # "namespaces" => \A o \in stride.buffer : o.kind # "Namespace"
  BY <1>1, BuiltKinds
<1>4. Supplies
  BY <1>3, CommandSupplies DEF Flush, Supplies
<1>5. CASE Put(s, [stride EXCEPT !.state = "failed"])
  <2>1. strides'[s].state = "failed" BY <1>5 DEF Put, TypeOK, StridesOK, StrideRecords
  <2>2. Hands(s)' BY <2>1 DEF Hands
  <2> QED BY <1>4, <1>5, <2>2, StepOfOneC
<1>6. CASE Submitted(stride.buffer) /\ Put(s, [stride EXCEPT !.buffer = {}])
  <2> DEFINE new == [stride EXCEPT !.buffer = {}]
  <2>1. strides'[s] = new BY <1>6 DEF Put, TypeOK, StridesOK
  <2>2. new.todo = stride.todo /\ new.buffer = {} /\ new.left = strides[s].left
    BY DEF StrideRecords
  <2>3. /\ \A o \in stride.buffer : o.kind # "Namespace" => o \in objects'
        /\ \A o \in stride.buffer : o.kind = "Namespace" => o.ns \in spaces'
    BY <1>6, AcceptSupplies DEF Submitted
  <2>4. \A n : Built("deployments", n)' = Built("deployments", n) BY DEF Built, SecretsOf
  <2>5. Hands(s)'
    <3> HIDE DEF new
    <3>1. SUFFICES ASSUME NEW j \in Share(s) \ strides[s].left
          PROVE /\ pc = "namespaces" =>
                     \/ plan[j] \in doomed \cup spaces'
                     \/ Obj("Namespace", plan[j], 0) \in stride.todo
                /\ pc = "deployments" =>
                     (plan[j] \in spaces' => Built("deployments", plan[j]) \ stride.todo \subseteq objects')
      BY <1>1, <1>2, <2>1, <2>2, <2>4 DEF Hands, InSpace, Share
    <3>2. CASE pc = "namespaces"
      <4>1. \/ plan[j] \in doomed \cup spaces
            \/ Obj("Namespace", plan[j], 0) \in stride.todo \cup stride.buffer
        BY <1>1, <3>1, <3>2 DEF CInv, Hands
      <4>2. Obj("Namespace", plan[j], 0) \in stride.buffer => plan[j] \in spaces'
        <5> DEFINE o == Obj("Namespace", plan[j], 0)
        <5>1. o.kind = "Namespace" /\ o.ns = plan[j] OBVIOUS
        <5> HIDE DEF o
        <5>2. o \in stride.buffer => plan[j] \in spaces' BY <2>3, <5>1
        <5> QED BY <5>2 DEF o
      <4> QED BY <1>4, <3>2, <4>1, <4>2 DEF Supplies
    <3>3. CASE pc = "deployments"
      <4>1. plan[j] \in spaces' => plan[j] \in spaces BY <1>4, <3>3 DEF Supplies
      <4>2. plan[j] \in spaces =>
              Built("deployments", plan[j]) \ (stride.todo \cup stride.buffer) \subseteq objects
        BY <1>1, <3>1, <3>3 DEF CInv, Hands, InSpace
      <4>3. stride.buffer \subseteq objects' BY <1>3, <2>3, <3>3
      <4> QED BY <1>4, <3>3, <4>1, <4>2, <4>3 DEF Supplies
    <3> QED BY <3>2, <3>3
  <2> QED BY <1>4, <1>6, <2>5, StepOfOneC
<1> QED BY <1>5, <1>6 DEF Flush

LEMMA AddC == ASSUME TypeOK, FInv, CInv, NEW s \in Strides, Add(s) PROVE CInv'
<1> DEFINE old == strides[s]
<1>1. pc \in Types /\ old.state = "busy" /\ old \in StrideRecords
      /\ UNCHANGED <<cfg, pc, plan, existing, failed>>
  BY StrideFrame DEF Stride
<1>2. PICK o \in old.todo :
        LET added == [old EXCEPT !.todo = old.todo \ {o}, !.buffer = old.buffer \cup {o}] IN
        Flush(s, added) \/ (Put(s, added) /\ UNCHANGED <<objects, spaces, terminating>>)
  BY DEF Add, clusterVars
<1> DEFINE added == [old EXCEPT !.todo = old.todo \ {o}, !.buffer = old.buffer \cup {o}]
<1>3. /\ added \in StrideRecords /\ added.left = old.left
      /\ added.todo = old.todo \ {o} /\ added.buffer = old.buffer \cup {o}
  BY <1>1 DEF StrideRecords
<1>4. added.todo \cup added.buffer = old.todo \cup old.buffer
  BY <1>3
<1>5. \A p \in added.buffer : p.ns \in Planned /\ p \in Built(pc, p.ns)
  BY <1>3 DEF FInv, Fits
<1>6. CASE Flush(s, added)
  <2> HIDE DEF added
  <2> QED BY <1>3, <1>4, <1>5, <1>6, FlushC DEF Stride
<1>7. CASE Put(s, added) /\ UNCHANGED <<objects, spaces, terminating>>
  <2>1. strides'[s] = added BY <1>7 DEF Put, TypeOK, StridesOK
  <2>2. \A n : Built("deployments", n)' = Built("deployments", n) BY DEF Built, SecretsOf
  <2>3. doomed' = doomed BY DEF Add, strideRest, historyVars
  <2> HIDE DEF added
  <2>4. Hands(s)'
    BY <1>1, <1>3, <1>4, <1>7, <2>1, <2>2, <2>3 DEF CInv, Hands, InSpace, Share
  <2> QED BY <1>7, <2>4, StepOfOneC DEF Stride, Supplies
<1> QED BY <1>2, <1>6, <1>7

LEMMA StrideEndsC == ASSUME TypeOK, FInv, CInv, NEW s \in Strides, StrideEnds(s) PROVE CInv'
<1> DEFINE old == strides[s]
           new == [old EXCEPT !.state = "done"]
<1>1. old \in StrideRecords
  BY StrideFrame DEF Stride
<1>2. /\ new \in StrideRecords /\ new.left = old.left
      /\ new.todo = old.todo /\ new.buffer = old.buffer
  BY <1>1 DEF StrideRecords
<1>3. Flush(s, new)
  BY DEF StrideEnds
<1>4. \A p \in old.buffer : p.ns \in Planned /\ p \in Built(pc, p.ns)
  BY DEF FInv, Fits
<1> HIDE DEF new
<1> QED BY <1>2, <1>3, <1>4, FlushC DEF Stride

LEMMA StrideC == ASSUME TypeOK, FInv, CInv, NEW s \in Strides, Stride(s) PROVE CInv'
BY BuildC, AddC, StrideEndsC DEF Stride

\* A phase whose threads have all ended well is complete.
LEMMA PhaseCompleteC ==
  ASSUME TypeOK, FInv, CInv, pc \in Types, ~failed, \A s \in Strides : strides[s].state = "done"
  PROVE  (pc = "namespaces" => SpacesThere) /\ (pc = "deployments" => BuiltIn("deployments"))
<1>1. ASSUME NEW i \in Index
      PROVE  /\ pc = "namespaces" => plan[i] \in doomed \cup spaces
             /\ pc = "deployments" => InSpace(plan[i], Built("deployments", plan[i]))
  <2>1. PICK s \in Strides : i \in Share(s) BY EveryShare
  <2>2. strides[s].left = {} /\ strides[s].todo = {} /\ strides[s].buffer = {}
    BY DEF FInv, Fits
  <2> QED BY <2>1, <2>2 DEF CInv, Hands, InSpace
<1> QED BY <1>1 DEF SpacesThere, BuiltIn

LEMMA EndStridesC == ASSUME TypeOK, FInv, CInv, EndStrides PROVE CInv'
<1>1. /\ pc \in Types /\ strides' = AllIdle
      /\ UNCHANGED <<objects, spaces, terminating, plan, failed, cfg, existing, doomed>>
      /\ pc' = "final" \/ (pc' = AfterStrides(pc) /\ \A s \in Strides : strides[s].state = "done")
  BY DEF EndStrides, SomeFailed, clusterVars, mainRest, historyVars
<1>2. CASE pc' = "final"
  BY <1>1, <1>2, ApartC DEF Creation, Types
<1>3. CASE pc' = AfterStrides(pc) /\ \A s \in Strides : strides[s].state = "done"
  <2>1. Supplies BY <1>1 DEF Supplies
  <2>2. pc' \in Creation BY <1>1, <1>3 DEF AfterStrides, Types, Creation
  <2>3. Undying' BY <1>1 DEF CInv, Undying, Creation
  <2>4. CASE pc = "namespaces"
    <3>1. pc' = "sync space" BY <1>3, <2>4 DEF AfterStrides
    <3>2. ~failed => SpacesThere BY <1>3, <2>4, PhaseCompleteC DEF Types
    <3>3. Provided' BY <1>1, <2>1, <3>1, <3>2, FactsKept DEF Provided
    <3> QED BY <1>1, <2>3, <3>3, IdleHands DEF CInv
  <2>5. CASE pc \in {"configmaps", "secrets"}
    <3>1. pc' \in {"secrets", "wait secrets"} BY <1>3, <2>5 DEF AfterStrides
    <3>2. ~failed => SpacesThere /\ SyncSpaceThere BY <2>5 DEF CInv, Provided, Settled, Creation, Types
    <3>3. Provided' BY <1>1, <2>1, <3>1, <3>2, FactsKept DEF Provided
    <3> QED BY <1>1, <2>3, <3>3, IdleHands DEF CInv
  <2>6. CASE pc = "deployments"
    <3>1. pc' = "run" BY <1>3, <2>6 DEF AfterStrides
    <3>2. /\ ~failed => SpacesThere /\ SyncSpaceThere
          /\ SyncPodIn /\ ServicesIn
      BY <2>6 DEF CInv, Provided, Settled, Creation, Types
    <3>3. ~failed => BuiltIn("deployments") BY <1>3, <2>6, PhaseCompleteC DEF Types
    <3>4. AllFiles /\ AllSecrets BY <2>6 DEF FInv, Ready
    <3>5. BuiltIn("configmaps") /\ BuiltIn("secrets")
      BY <3>4 DEF AllFiles, FilesIn, AllSecrets, SecretsIn, BuiltIn, InSpace, Built
    <3>6. ~failed => AllIn BY <3>3, <3>5 DEF AllIn, Types
    <3>7. Provided' BY <1>1, <2>1, <2>6, <3>1, <3>2, <3>6, FactsKept DEF Provided
    <3> QED BY <1>1, <2>3, <3>7, IdleHands DEF CInv
  <2> QED BY <1>1, <2>4, <2>5, <2>6 DEF Types
<1> QED BY <1>1, <1>2, <1>3

LEMMA QuietC ==
  ASSUME TypeOK, CInv,
         Refuse \/ SetUp \/ Allocate \/ CheckNamespaces \/ Creates \/ WaitForSecrets \/ DoLogging
         \/ Signal \/ NewRun \/ Kill
  PROVE  CInv'
<1>1. CASE Refuse \/ SetUp \/ Allocate \/ DoLogging
  <2>1. strides' = strides /\ pc \in {"check", "configmaps", "secrets", "sync files", "setup",
                                       "allocate", "run"} /\ (pc \in Types => strides = AllIdle)
    BY <1>1 DEF Refuse, SetUp, Allocate, DoLogging, Types
  <2>2. pc' \in {"final", "allocate", "check"}
    BY <1>1 DEF Refuse, SetUp, Allocate, DoLogging
  <2>3. strides' = AllIdle BY <2>1 DEF TypeOK, StridesOK
  <2> QED BY <2>2, <2>3, ApartC DEF Creation, Types
<1>2. CASE NewRun \/ Kill
  BY <1>2, ApartC DEF NewRun, Reset, Kill, Creation, Types
<1>3. CASE CheckNamespaces
  <2>1. /\ pc' = "namespaces" /\ strides' = Begun /\ doomed' = terminating
        /\ UNCHANGED <<spaces, terminating>> /\ existing' \subseteq spaces
    BY <1>3 DEF CheckNamespaces, clusterVars
  <2>2. Undying' BY <2>1 DEF Undying
  <2>3. Provided' BY <2>1 DEF Provided, Settled
  <2> QED BY <2>1, <2>2, <2>3, IdleHands DEF CInv
<1>4. CASE Creates \/ WaitForSecrets
  <2>1. UNCHANGED <<objects, spaces, terminating, plan, cfg, existing, doomed, failed>>
    BY <1>4 DEF Creates, CreateStrides, WaitForSecrets, clusterVars, runVars, endVars, historyVars, mainRest
  <2>2. \/ pc' = pc /\ pc \in {"configmaps", "secrets"} /\ strides' = Begun
        \/ pc = "wait secrets" /\ pc' = "sync files" /\ strides' = strides
    BY <1>4 DEF Creates, CreateStrides, Start, WaitForSecrets
  <2>3. strides' = Begun \/ strides' = AllIdle BY <2>2 DEF TypeOK, StridesOK, Types
  <2>4. Supplies BY <2>1 DEF Supplies
  <2>5. Undying' BY <2>1, <2>2 DEF CInv, Undying, Creation, Types
  <2>6. ~failed => SpacesThere /\ SyncSpaceThere
    BY <2>2 DEF CInv, Provided, Settled, Creation, Types
  <2>7. Provided' BY <2>1, <2>2, <2>4, <2>6, FactsKept DEF Provided
  <2> QED BY <2>3, <2>5, <2>7, IdleHands DEF CInv
<1>5. CASE Signal
  <2>1. /\ UNCHANGED <<objects, spaces, terminating, plan, cfg, existing, doomed, strides, pc>>
        /\ failed' = TRUE
    BY <1>5 DEF Signal, clusterVars, runVars, historyVars, mainRest
  <2>2. Supplies BY <2>1 DEF Supplies
  <2>3. Undying' BY <2>1 DEF CInv, Undying
  <2>4. Provided' BY <2>1, <2>2, FactsKept DEF CInv, Provided
  <2>5. \A s \in Strides : Hands(s)' BY <2>1, <2>2, HandsKept DEF CInv
  <2> QED BY <2>3, <2>4, <2>5 DEF CInv
<1> QED BY <1>1, <1>2, <1>3, <1>4, <1>5

\* What a namespace that is gone takes with it.
LEMMA TerminateC == ASSUME TypeOK, CInv, Terminates PROVE CInv'
<1>1. PICK n \in Spaces : Terminate(n) BY DEF Terminates
<1>2. /\ UNCHANGED <<plan, cfg, existing, doomed, pc, strides, failed>>
      /\ spaces' = spaces \ {n} /\ objects' = {o \in objects : o.ns # n}
      /\ terminating' = terminating \ {n} /\ n \in terminating
  BY <1>1 DEF Terminate, Without, runVars, endVars, historyVars
<1>3. SyncNs' = SyncNs /\ Used' = Used BY <1>2 DEF SyncNs, Used
<1>4. \A type, m : Built(type, m)' = Built(type, m) BY <1>2 DEF Built, SecretsOf
<1>5. pc \in Creation => n \in doomed BY <1>2 DEF CInv, Undying
<1>6. Undying' BY <1>2, <1>5 DEF CInv, Undying
<1>7. Provided'
  <2>1. pc \in Creation => (SpacesThere => SpacesThere') /\ (SyncSpaceThere => SyncSpaceThere')
    BY <1>2, <1>3, <1>5 DEF SpacesThere, SyncSpaceThere
  <2>2. SyncPodIn => SyncPodIn' BY <1>2, <1>3 DEF SyncPodIn, InSpace
  <2>3. ServicesIn => ServicesIn' BY <1>2, <1>3 DEF ServicesIn, InSpace
  <2>4. AllIn => AllIn'
    <3>1. SUFFICES ASSUME AllIn, NEW type \in Types \ {"namespaces"}, NEW i \in Index, plan[i] \in spaces',
                          NEW o \in Built(type, plan[i])
                   PROVE  o \in objects'
      BY <1>2, <1>4 DEF AllIn, BuiltIn, InSpace
    <3>2. o.ns = plan[i] BY <3>1, BuiltNs
    <3> QED BY <1>2, <3>1, <3>2 DEF AllIn, BuiltIn, InSpace
  <2> QED BY <1>2, <2>1, <2>2, <2>3, <2>4 DEF CInv, Provided, Settled, Creation
<1>8. ASSUME NEW s \in Strides PROVE Hands(s)'
  <2>1. SUFFICES ASSUME strides[s].state \in {"busy", "done"}, NEW i \in Share(s) \ strides[s].left
        PROVE  /\ pc = "namespaces" =>
                     \/ plan[i] \in doomed \cup spaces'
                     \/ Obj("Namespace", plan[i], 0) \in strides[s].todo \cup strides[s].buffer
               /\ pc = "deployments" =>
                     (plan[i] \in spaces' =>
                        Built("deployments", plan[i]) \ (strides[s].todo \cup strides[s].buffer) \subseteq objects')
    BY <1>2, <1>4 DEF Hands, InSpace, Share
  <2>2. CASE pc = "namespaces" BY <1>2, <1>5, <2>1, <2>2 DEF CInv, Hands, Creation, Types
  <2>3. CASE pc = "deployments"
    <3>1. \A o \in Built("deployments", plan[i]) : o.ns = plan[i] BY BuiltNs DEF Types
    <3> QED BY <1>2, <2>1, <2>3, <3>1 DEF CInv, Hands, InSpace
  <2> QED BY <2>2, <2>3
<1> QED BY <1>6, <1>7, <1>8 DEF CInv

\* A command of the main thread.
LEMMA ApplyShapeC ==
  ASSUME NEW os, NEW next, Apply(os, next)
  PROVE  /\ objects \subseteq objects' /\ spaces \subseteq spaces' /\ terminating' = terminating
         /\ (\A o \in os : o.kind # "Namespace") => spaces' = spaces
         /\ UNCHANGED <<plan, cfg, existing, doomed>>
         /\ \/ pc' = "final"
            \/ /\ pc' = next /\ failed' = failed
               /\ \A o \in os : o.kind # "Namespace" => o \in objects'
               /\ \A o \in os : o.kind = "Namespace" => o.ns \in spaces'
<1>1. UNCHANGED <<plan, cfg, existing, doomed>> BY DEF Apply, runVars, mainRest, historyVars
<1>2. \/ pc' = "final"
      \/ pc' = next /\ failed' = failed /\ Submitted(os)
  BY DEF Apply, endVars
<1>3. Submitted(os) =>
        /\ \A o \in os : o.kind # "Namespace" => o \in objects'
        /\ \A o \in os : o.kind = "Namespace" => o.ns \in spaces'
  BY AcceptSupplies DEF Submitted
<1> QED BY <1>1, <1>2, <1>3, CommandSupplies DEF Apply

LEMMA CommandC ==
  ASSUME TypeOK, CInv, SyncNamespace \/ SyncFiles \/ SyncService \/ SyncPod \/ Services
  PROVE  CInv'
<1>1. strides = AllIdle
  BY DEF SyncNamespace, SyncFiles, Start, SyncService, SyncPod, Services, TypeOK, StridesOK, Types
<1>2. CASE pc' = "final"
  <2>1. strides' = AllIdle
    BY <1>1, <1>2 DEF SyncNamespace, SyncFiles, SyncService, SyncPod, Services
  <2> QED BY <1>2, <2>1, ApartC DEF Creation, Types
<1>3. strides' = AllIdle \/ strides' = Begun
  BY <1>1 DEF SyncNamespace, SyncFiles, SyncService, SyncPod, Services
<1>4. ASSUME Undying', Provided' PROVE CInv'
  BY <1>3, <1>4, IdleHands DEF CInv
<1>5. CASE SyncNamespace /\ pc' # "final"
  <2> DEFINE os == IF cfg.outside /\ SyncSpace \notin spaces THEN {Obj("Namespace", SyncSpace, 0)} ELSE {}
  <2>1. Apply(os, "configmaps") /\ pc = "sync space" BY <1>5 DEF SyncNamespace
  <2>2. /\ Supplies /\ UNCHANGED <<plan, cfg, existing, doomed>> /\ pc' = "configmaps" /\ failed' = failed
        /\ \A o \in os : o.kind = "Namespace" => o.ns \in spaces'
    <3> HIDE DEF os
    <3> QED BY <1>5, <2>1, ApplyShapeC DEF Supplies
  <2>3. cfg.outside => SyncSpace \in spaces'
    BY <2>2 DEF Supplies
  <2>4. ~failed => SpacesThere' BY <2>1, <2>2, FactsKept DEF CInv, Provided, Settled, Creation
  <2>5. ~failed => SyncSpaceThere'
    <3>1. SyncNs' = SyncNs BY <2>2 DEF SyncNs
    <3>2. CASE cfg.outside BY <2>3, <3>1, <3>2 DEF SyncNs, SyncSpaceThere
    <3>3. CASE ~cfg.outside
      BY <2>2, <2>4, <3>1, <3>3, IndexZero DEF SyncNs, SyncSpaceThere, SpacesThere
    <3> QED BY <3>2, <3>3
  <2>6. Provided' BY <2>2, <2>4, <2>5 DEF Provided
  <2>7. Undying' BY <2>1, <2>2 DEF CInv, Undying, Supplies, Creation
  <2> QED BY <1>4, <2>6, <2>7
<1>6. CASE (SyncFiles \/ SyncService \/ SyncPod \/ Services) /\ pc' # "final"
  <2>1. PICK os, next :
          /\ Apply(os, next)
          /\ \/ /\ pc = "sync files" /\ next = "sync service"
                /\ os \in {{}, {Obj("System", SyncSpace, 0)}}
             \/ pc = "sync service" /\ next = "sync pod" /\ os = {Obj("Service", SyncNs, 0)}
             \/ pc = "sync pod" /\ next = "services" /\ os = {Obj("SyncPod", SyncNs, 0)}
             \/ pc = "services" /\ next = "deployments" /\ os = ExternalServices
    BY <1>6 DEF SyncFiles, Start, SyncService, SyncPod, Services
  <2>2. \A o \in os : o.kind # "Namespace"
    <3>1. ASSUME os = {Obj("SyncPod", SyncNs, 0)} PROVE \A o \in os : o.kind # "Namespace"
      BY <3>1
    <3>2. ASSUME os = {Obj("Service", SyncNs, 0)} PROVE \A o \in os : o.kind # "Namespace"
      BY <3>2
    <3>3. ASSUME os = ExternalServices PROVE \A o \in os : o.kind # "Namespace"
      BY <3>3 DEF ExternalServices
    <3>4. ASSUME os = {Obj("System", SyncSpace, 0)} PROVE \A o \in os : o.kind # "Namespace"
      BY <3>4
    <3> QED BY <2>1, <3>1, <3>2, <3>3, <3>4
  <2>3. /\ Supplies /\ UNCHANGED <<plan, cfg, existing, doomed>> /\ pc' = next /\ failed' = failed
        /\ os \subseteq objects'
    BY <1>6, <2>1, <2>2, ApplyShapeC DEF Supplies
  <2>4. Undying' BY <2>1, <2>3 DEF CInv, Undying, Supplies, Creation, Types
  <2>5. ~failed => SpacesThere' /\ SyncSpaceThere'
    BY <2>1, <2>3, FactsKept DEF CInv, Provided, Settled, Creation, Types
  <2>6. SyncNs' = SyncNs /\ Used' = Used BY <2>3 DEF SyncNs, Used
  <2>7. pc \in {"sync pod", "services"} => SyncPodIn'
    <3>1. CASE pc = "sync pod" BY <2>1, <2>3, <2>6, <3>1 DEF SyncPodIn, InSpace
    <3>2. CASE pc = "services" BY <2>3, <3>2, FactsKept DEF CInv, Provided
    <3> QED BY <3>1, <3>2
  <2>8. pc = "services" => ServicesIn'
    BY <2>1, <2>3, <2>6 DEF ServicesIn, InSpace, ExternalServices
  <2>9. Provided' BY <2>1, <2>3, <2>5, <2>7, <2>8 DEF Provided
  <2> QED BY <1>4, <2>4, <2>9
<1> QED BY <1>2, <1>5, <1>6

LEMMA SweepC == ASSUME TypeOK, Sweep PROVE CInv'
<1>1. strides' = strides
  BY DEF Sweep, Precleanup, FinalCleanup, DeleteSync, Delete, ForceCleanup, ForceSpaces, Poll, sweepRest
<1>2. pc \in Sweeping \cup {"precleanup", "final"}
  BY SweepTurn DEF Sweep, Precleanup, FinalCleanup
<1>3. strides' = AllIdle
  BY <1>1, <1>2 DEF Sweeping, TypeOK, StridesOK, Types
<1>4. pc' \in Sweeping \cup {"setup", "ended"}
  <2>1. CASE Precleanup \/ FinalCleanup
    BY <2>1, BeginSweepShape DEF Precleanup, FinalCleanup, Sweeping
  <2>2. CASE DeleteSync \/ Delete \/ ForceCleanup \/ ForceSpaces \/ Poll
    BY <2>2, SweepTurn
  <2> QED BY <2>1, <2>2 DEF Sweep
<1> QED BY <1>3, <1>4, ApartC DEF Sweeping, Creation, Types

LEMMA InitCInv == Init => CInv
<1> SUFFICES ASSUME Init PROVE CInv
  OBVIOUS
<1>1. \A s \in Strides : Hands(s)
  <2>1. \A s \in Strides : strides[s].state = "idle" BY DEF Init, AllIdle, Idle
  <2> QED BY <2>1 DEF Hands
<1> QED BY <1>1 DEF Init, CInv, Undying, Provided, Settled, Creation, Types

LEMMA NextCInv == TypeOK /\ FInv /\ CInv /\ [Next]_vars => CInv'
<1> SUFFICES ASSUME TypeOK, FInv, CInv, [Next]_vars PROVE CInv'
  OBVIOUS
<1>1. CASE Threads
  BY <1>1, StrideC, EndStridesC, QuietC, CommandC, SweepC DEF Threads, Main
<1>2. CASE Terminates \/ Signal \/ NewRun \/ Kill
  BY <1>2, TerminateC, QuietC
<1>3. CASE UNCHANGED vars
  <2>1. UNCHANGED <<spaces, objects, terminating, cfg, pc, plan, existing, failed, strides, doomed>>
    BY <1>3 DEF vars, clusterVars, runVars, endVars, historyVars
  <2>2. Supplies BY <2>1 DEF Supplies
  <2>3. Undying' BY <2>1 DEF CInv, Undying
  <2>4. Provided' BY <2>1, <2>2, FactsKept DEF CInv, Provided, SyncPodIn, ServicesIn, AllIn
  <2>5. \A s \in Strides : Hands(s)' BY <2>1, <2>2, HandsKept DEF CInv
  <2> QED BY <2>3, <2>4, <2>5 DEF CInv
<1> QED BY <1>1, <1>2, <1>3 DEF Next

LEMMA CompleteWhenStarted == CInv => StartedComplete
<1> SUFFICES ASSUME CInv, pc = "run", ~failed, NEW n \in Used \ doomed PROVE Wanted(n) \subseteq objects
  BY DEF StartedComplete
<1>1. SpacesThere /\ SyncSpaceThere /\ SyncPodIn /\ ServicesIn /\ AllIn
  BY DEF CInv, Provided, Settled, Creation
<1>2. n \in spaces
  BY <1>1 DEF Used, SpacesThere, SyncSpaceThere
<1>3. Obj("Service", n, 0) \in objects
  BY <1>1, <1>2 DEF ServicesIn, InSpace
<1>4. n = SyncNs => Obj("SyncPod", n, 0) \in objects
  BY <1>1, <1>2 DEF SyncPodIn, InSpace
<1>5. ASSUME n \in {plan[i] : i \in Index}, NEW type \in Types \ {"namespaces"}
      PROVE  Built(type, n) \subseteq objects
  BY <1>1, <1>2, <1>5 DEF AllIn, BuiltIn, InSpace
<1> QED BY <1>3, <1>4, <1>5 DEF Wanted

\* A run that starts and has not failed has all of its objects in every namespace that did not
\* terminate when the run took it: no thread's failure is lost, no namespace is left out, and no
\* command fails unseen, for any number of namespaces, threads, failures and runs
\* (create_all_objects, _create_all_parallel, ObjectBatcher.flush).
THEOREM StartedRunsComplete == Spec => []StartedComplete
<1>1. Init => TypeOK /\ FInv /\ CInv BY InitTypeOK, InitFInv, InitCInv
<1>2. TypeOK /\ FInv /\ CInv /\ [Next]_vars => TypeOK' /\ FInv' /\ CInv'
  BY NextTypeOK, NextFInv, NextCInv
<1> QED BY <1>1, <1>2, CompleteWhenStarted, PTL DEF Spec
===========================================================================
