--------------------------- MODULE ClusterObjects ---------------------------
(***************************************************************************)
(* The objects of a run on the cluster, from the precleanup to the cleanup *)
(* at the end: run() in lib/clusterbuster/driver/orchestrator.py, its      *)
(* object creation in threads, the ObjectBatcher of manifests.py and       *)
(* cleanup.py, over the cluster that oc and kubectl change, and over       *)
(* several runs, of which each may be killed at any step.                  *)
(*                                                                         *)
(* A namespace goes on existing while it terminates, takes no new objects  *)
(* meanwhile, and takes its objects with it.  A command may fail: then any *)
(* part of what it asked for has been done.                                *)
(*                                                                         *)
(* Left out: labels and service accounts, whose commands' results the code *)
(* ignores; VMs; dropping the host caches; and do_logging, which           *)
(* RunControl models.                                                      *)
(***************************************************************************)
EXTENDS Naturals, FiniteSets

CONSTANTS
  Names,             \* the numbers a namespace's name may end with
  SyncSpace,         \* the namespace of the sync pod, if it has its own
  Foreign,           \* the sets of namespaces of these names that others may have made
  Configurations,    \* the command lines
  Count,             \* --namespaces
  Deployments,       \* --deployments
  Secrets,           \* --secrets
  Parallel,          \* --parallel: threads that create objects
  BatchSize,         \* --objs-per-call
  MaxQueryFailures,  \* _MAX_QUERY_FAILURES
  MaxFailures,       \* how many commands fail
  MaxRuns            \* how many runs there are

Spaces == Names \cup {SyncSpace}
Index == 0 .. Count - 1
Strides == 0 .. Parallel - 1
Policies == {"auto", "keep", "remove"}

ASSUME NameAssumption == Names \subseteq Nat /\ Names # {} /\ SyncSpace \notin Names /\ Foreign \subseteq SUBSET Spaces
ASSUME SizeAssumption == Count \in Nat \ {0} /\ Parallel \in Nat \ {0} /\ BatchSize \in Nat
ASSUME ObjectAssumption == Deployments \in Nat /\ Secrets \in Nat
ASSUME BoundAssumption == MaxQueryFailures \in Nat \ {0} /\ MaxFailures \in Nat /\ MaxRuns \in Nat \ {0}

Options == [remove : Policies, scale : BOOLEAN, outside : BOOLEAN, precleanup : BOOLEAN,
            cleanup : BOOLEAN, always : BOOLEAN, force : BOOLEAN, waitSecrets : BOOLEAN]

ASSUME ConfigurationAssumption == Configurations \subseteq Options

Kinds == {"Namespace", "System", "User", "Secret", "Service", "SyncPod", "Deployment"}
Object == [kind : Kinds, ns : Spaces, index : Nat]
Obj(kind, ns, i) == [kind |-> kind, ns |-> ns, index |-> i]

Plans == [Index -> Names]

\* The command is not running.
Over == {"off", "ended", "killed"}

VARIABLES
  \* the cluster: its namespaces, those with the run's label, those that terminate, the objects
  spaces, labelled, terminating, objects,
  \* the run: its command line, where run() is, its namespaces, those that exist already,
  \* effective_remove_namespaces, run_failed, run_started and the status
  cfg, pc, plan, existing, effective, failed, started, status,
  \* the threads that create objects, each with its ObjectBatcher
  strides,
  \* the cleanup: which one, whether it removes namespaces, its ok and its failed queries in a row
  sweep, removes, ok, misses,
  \* history: the namespaces of earlier runs, whether a query for namespaces failed, the
  \* namespaces that terminated when the run took them, whether the last cleanup's commands
  \* succeeded, the failures and runs so far
  before, blind, doomed, swept, failures, runs

clusterVars == <<spaces, labelled, terminating, objects>>
runVars == <<plan, existing, effective, started>>
endVars == <<failed, status>>
sweepVars == <<sweep, removes, ok, misses>>
historyVars == <<before, blind, doomed, swept, runs>>
vars == <<clusterVars, cfg, pc, runVars, endVars, strides, sweepVars, historyVars, failures>>

---------------------------------------------------------------------------
(* The cluster. *)

Fails == failures < MaxFailures /\ failures' = failures + 1
Works == UNCHANGED failures

Without(gone) ==
  /\ spaces' = spaces \ gone
  /\ labelled' = labelled \ gone
  /\ terminating' = terminating \ gone
  /\ objects' = {o \in objects : o.ns \notin gone}

\* A namespace that terminates is gone at last.
Terminate(n) ==
  /\ n \in terminating
  /\ Without({n})
  /\ UNCHANGED <<cfg, pc, runVars, endVars, strides, sweepVars, historyVars, failures>>

\* create refuses a namespace that exists; apply changes an object that does.
Acceptable(o) ==
  IF o.kind = "Namespace"
  THEN o.ns \notin spaces
  ELSE o.ns \in spaces /\ (o.ns \in terminating => o \in objects)

Accept(os) ==
  LET new == {o.ns : o \in {p \in os : p.kind = "Namespace"}} IN
  /\ spaces' = spaces \cup new
  /\ labelled' = labelled \cup new
  /\ objects' = objects \cup {o \in os : o.kind # "Namespace"}
  /\ UNCHANGED terminating

\* ObjectBatcher.flush: one command for what the buffer holds.
Submitted(os) == (\A o \in os : Acceptable(o)) /\ Accept(os) /\ Works

NotSubmitted(os) ==
  \/ (\E o \in os : ~Acceptable(o)) /\ Accept({o \in os : Acceptable(o)}) /\ Works
  \/ os # {} /\ Fails /\ \E part \in SUBSET {o \in os : Acceptable(o)} : Accept(part)

\* oc delete namespace -l returns when the namespaces are gone, or fails before.
DeletesSpaces == Without(labelled) /\ Works

LeavesSpaces ==
  /\ Fails
  /\ \E dying \in SUBSET (labelled \ terminating) : terminating' = terminating \cup dying
  /\ UNCHANGED <<spaces, labelled, objects>>

\* Defect: the sync pod is not among what is deleted.
WithoutSyncPod(kinds) == kinds \cap {"Service", "Deployment"}

\* oc delete all does not cover config maps and secrets.
Covered(kinds) == kinds \cap {"Service", "SyncPod", "Deployment"}

DeletesObjects(kinds) ==
  /\ objects' = {o \in objects : o.kind \notin Covered(kinds)}
  /\ UNCHANGED <<spaces, labelled, terminating>> /\ Works

LeavesObjects(kinds) ==
  /\ Fails
  /\ \E kept \in SUBSET {o \in objects : o.kind \in Covered(kinds)} :
       objects' = {o \in objects : o.kind \notin Covered(kinds)} \cup kept
  /\ UNCHANGED <<spaces, labelled, terminating>>

---------------------------------------------------------------------------
(* What a run creates. *)

SyncNs == IF cfg.outside THEN SyncSpace ELSE plan[0]
Used == {plan[i] : i \in Index} \cup {SyncNs}

SecretsOf(n) == {Obj("Secret", n, k) : k \in 1 .. Secrets}

Types == {"namespaces", "configmaps", "secrets", "deployments"}

Built(type, n) ==
  [namespaces  |-> IF n \in existing THEN {} ELSE {Obj("Namespace", n, 0)},
   configmaps  |-> {Obj("System", n, 0), Obj("User", n, 0)},
   secrets     |-> SecretsOf(n),
   deployments |-> {Obj("Deployment", n, d) : d \in 1 .. Deployments}][type]

ExternalServices == {Obj("Service", n, 0) : n \in Used}

---------------------------------------------------------------------------
(* _create_all_parallel: every thread takes every Parallel-th namespace. *)

Share(s) == {i \in Index : i % Parallel = s}

Idle == [state |-> "idle", left |-> {}, todo |-> {}, buffer |-> {}]
AllIdle == [s \in Strides |-> Idle]
Begun == [s \in Strides |-> [state |-> "busy", left |-> Share(s), todo |-> {}, buffer |-> {}]]

Put(s, stride) == strides' = [strides EXCEPT ![s] = stride]

\* The stride goes on as the given one once its buffer is flushed, or raises.
Flush(s, stride) ==
  \/ Submitted(stride.buffer) /\ Put(s, [stride EXCEPT !.buffer = {}])
  \/ NotSubmitted(stride.buffer) /\ Put(s, [stride EXCEPT !.state = "failed"])

strideRest == <<cfg, pc, runVars, endVars, sweepVars, historyVars>>

Build(s) ==
  /\ strides[s].state = "busy" /\ strides[s].todo = {} /\ ~failed
  /\ \E i \in strides[s].left :
       /\ \A j \in strides[s].left : i <= j
       /\ Put(s, [strides[s] EXCEPT !.left = @ \ {i}, !.todo = Built(pc, plan[i])])
  /\ UNCHANGED <<clusterVars, failures, strideRest>>

Add(s) ==
  /\ strides[s].state = "busy"
  /\ \E o \in strides[s].todo :
       LET added == [strides[s] EXCEPT !.todo = @ \ {o}, !.buffer = @ \cup {o}] IN
       IF Cardinality(added.buffer) >= BatchSize
       THEN Flush(s, added)
       ELSE Put(s, added) /\ UNCHANGED <<clusterVars, failures>>
  /\ UNCHANGED strideRest

StrideEnds(s) ==
  /\ strides[s].state = "busy" /\ strides[s].todo = {}
  /\ strides[s].left = {} \/ failed
  /\ Flush(s, [strides[s] EXCEPT !.state = "done"])
  /\ UNCHANGED strideRest

Stride(s) == Build(s) \/ Add(s) \/ StrideEnds(s)

---------------------------------------------------------------------------
(* run(), step by step. *)

\* Defect: objects are created also when the run has failed.
FailureIgnored == FALSE

\* create_all_objects looks first whether the run has failed.
RunFailedSet == failed

Start(from) == pc = from /\ ~RunFailedSet

mainRest == <<cfg, sweepVars>>

Refuse ==
  /\ pc \in {"check", "configmaps", "secrets", "sync files"} /\ strides = AllIdle
  /\ RunFailedSet
  /\ pc' = "final" /\ status' = 1
  /\ UNCHANGED <<clusterVars, runVars, failed, strides, historyVars, failures, mainRest>>

\* Setting up the run may raise; run() then sets run_failed.
SetUp ==
  /\ pc = "setup"
  /\ \/ pc' = "allocate" /\ Works /\ UNCHANGED endVars
     \/ Fails /\ pc' = "final" /\ status' = 1 /\ failed' = TRUE
  /\ UNCHANGED <<clusterVars, runVars, strides, historyVars, mainRest>>

\* The names in order from 0, without those to skip.
PlansAround(skip) ==
  {p \in Plans :
     /\ \A i, j \in Index : i < j => p[i] < p[j]
     /\ \A i \in Index : p[i] \notin skip
     /\ \A n \in Names \ skip : \A i \in Index : n < p[i] => \E j \in Index : p[j] = n}

Allocate ==
  /\ pc = "allocate"
  /\ \/ Works /\ plan' \in PlansAround(IF cfg.scale THEN labelled ELSE {})
     \/ Fails /\ cfg.scale /\ plan' \in PlansAround({})
  /\ pc' = "check"
  /\ UNCHANGED <<clusterVars, existing, effective, started, endVars, strides, historyVars, mainRest>>

\* Which namespaces exist, and with that what the cleanup may remove.
CheckNamespaces ==
  /\ Start("check")
  /\ \E missed \in SUBSET (Used \cap spaces) :
       /\ IF missed = {} THEN Works ELSE Fails
       /\ existing' = (Used \cap spaces) \ missed
       /\ blind' = (blind \/ missed # {})
  /\ effective' = IF cfg.remove = "auto" /\ existing' # {} THEN "keep" ELSE cfg.remove
  /\ doomed' = terminating
  /\ strides' = Begun /\ pc' = "namespaces"
  /\ UNCHANGED <<clusterVars, plan, started, endVars, before, swept, runs, mainRest>>

\* Defect: a thread's failure is lost.
FailureLost == FALSE

SomeFailed == \E s \in Strides : strides[s].state = "failed"

AfterStrides(type) ==
  CASE type = "namespaces" -> "sync space"
    [] type = "configmaps" -> "secrets"
    [] type = "secrets" -> "wait secrets"
    [] type = "deployments" -> "run"

EndStrides ==
  /\ pc \in Types /\ strides # AllIdle
  /\ \A s \in Strides : strides[s].state \in {"done", "failed"}
  /\ strides' = AllIdle
  /\ IF SomeFailed
     THEN pc' = "final" /\ status' = 1 /\ UNCHANGED started
     ELSE pc' = AfterStrides(pc) /\ started' = (pc = "deployments") /\ UNCHANGED status
  /\ UNCHANGED <<clusterVars, plan, existing, effective, failed, historyVars, failures, mainRest>>

\* One command of the main thread; when it fails the exception sets run_failed.
Apply(os, next) ==
  /\ \/ Submitted(os) /\ pc' = next /\ UNCHANGED endVars
     \/ NotSubmitted(os) /\ pc' = "final" /\ status' = 1 /\ failed' = TRUE
  /\ UNCHANGED <<runVars, historyVars, mainRest>>

\* The sync pod's own namespace is looked for once more and created.
SyncNamespace ==
  /\ pc = "sync space"
  /\ IF cfg.outside /\ SyncSpace \notin spaces
     THEN Apply({Obj("Namespace", SyncSpace, 0)}, "configmaps")
     ELSE Apply({}, "configmaps")
  /\ UNCHANGED strides

CreateStrides(type) ==
  /\ Start(type) /\ strides = AllIdle
  /\ strides' = Begun
  /\ UNCHANGED <<clusterVars, pc, runVars, endVars, historyVars, failures, mainRest>>

Creates == \E type \in {"configmaps", "secrets"} : CreateStrides(type)

\* Defect: waiting for secrets does not end when the run fails.
WaitsOn(seen) == seen

SecretsAwaited(seen) == failed \/ seen

WaitForSecrets ==
  /\ pc = "wait secrets"
  /\ SecretsAwaited(cfg.waitSecrets => \A i \in Index : SecretsOf(plan[i]) \subseteq objects)
  /\ pc' = "sync files"
  /\ UNCHANGED <<clusterVars, runVars, endVars, strides, historyVars, failures, mainRest>>

SyncFiles ==
  /\ Start("sync files")
  /\ Apply(IF cfg.outside THEN {Obj("System", SyncSpace, 0)} ELSE {}, "sync service")
  /\ UNCHANGED strides

SyncService ==
  /\ pc = "sync service"
  /\ Apply({Obj("Service", SyncNs, 0)}, "sync pod")
  /\ UNCHANGED strides

SyncPod ==
  /\ pc = "sync pod"
  /\ Apply({Obj("SyncPod", SyncNs, 0)}, "services")
  /\ UNCHANGED strides

\* The other services, and then the threads that create the deployments.
Services ==
  /\ pc = "services"
  /\ Apply(ExternalServices, "deployments")
  /\ strides' = IF pc' = "deployments" THEN Begun ELSE strides

\* do_logging: the run succeeds or fails.
DoLogging ==
  /\ pc = "run"
  /\ pc' = "final"
  /\ status' \in IF failed THEN {1} ELSE {0, 1}
  /\ UNCHANGED <<clusterVars, runVars, failed, strides, historyVars, failures, mainRest>>

\* The first signal only sets run_failed.
Signal ==
  /\ pc \notin Over /\ ~failed
  /\ failed' = TRUE
  /\ UNCHANGED <<clusterVars, pc, runVars, status, strides, historyVars, failures, mainRest>>

---------------------------------------------------------------------------
(* cleanup.py *)

sweepRest == <<cfg, runVars, endVars, strides, before, doomed, runs>>

BeginSweep(which, policy) ==
  /\ pc' = "delete sync" /\ sweep' = which
  /\ removes' = (policy # "keep") /\ ok' = TRUE /\ misses' = 0

\* _has_labeled_namespaces takes a query that fails for an empty answer.
Precleanup ==
  /\ pc = "precleanup"
  /\ IF ~cfg.precleanup
     THEN pc' = "setup" /\ Works /\ UNCHANGED <<sweepVars, blind>>
     ELSE \/ Works /\ UNCHANGED blind
             /\ BeginSweep("pre", IF cfg.remove = "auto" /\ labelled # {} THEN "keep" ELSE cfg.remove)
          \/ cfg.remove = "auto" /\ labelled # {} /\ Fails /\ blind' = TRUE
             /\ BeginSweep("pre", "auto")
  /\ UNCHANGED <<clusterVars, swept, sweepRest>>

\* Defect: the cleanup at the end uses the option instead of what was found.
OptionPolicy == cfg.remove

FinalPolicy == IF effective = "undecided" THEN cfg.remove ELSE effective

FinalCleanup ==
  /\ pc = "final"
  /\ IF cfg.always \/ (cfg.cleanup /\ status = 0)
     THEN BeginSweep("final", FinalPolicy)
     ELSE pc' = "ended" /\ UNCHANGED sweepVars
  /\ UNCHANGED <<clusterVars, blind, swept, failures, sweepRest>>

\* Objects labelled for the sync pod; no namespace has that label.
DeleteSync ==
  /\ pc = "delete sync"
  /\ \/ /\ ok' = TRUE
        /\ IF removes THEN Works /\ UNCHANGED clusterVars ELSE DeletesObjects({"SyncPod"})
     \/ /\ ok' = FALSE
        /\ IF removes THEN Fails /\ UNCHANGED clusterVars ELSE LeavesObjects({"SyncPod"})
  /\ pc' = "delete"
  /\ UNCHANGED <<sweep, removes, misses, blind, swept, sweepRest>>

SweepEnds == pc' = IF sweep = "pre" THEN "setup" ELSE "ended"
AfterDelete == IF removes THEN pc' = "wait" ELSE SweepEnds

Forced == cfg.force \/ (sweep = "final" /\ cfg.always /\ status # 0)

Delete ==
  /\ pc = "delete"
  /\ \/ /\ swept' = TRUE /\ UNCHANGED ok
        /\ IF removes THEN DeletesSpaces ELSE DeletesObjects(Kinds)
     \/ /\ swept' = FALSE /\ ok' = FALSE
        /\ IF removes THEN LeavesSpaces ELSE LeavesObjects(Kinds)
  /\ IF ~ok' /\ Forced THEN pc' = "force" ELSE AfterDelete
  /\ UNCHANGED <<sweep, removes, misses, blind, sweepRest>>

\* _force_cleanup: objects first, then namespaces; do_cleanup ignores how it went.
ForceCleanup ==
  /\ pc = "force"
  /\ \/ DeletesObjects(Kinds) /\ swept' = (swept \/ ~removes)
     \/ LeavesObjects(Kinds) /\ UNCHANGED swept
  /\ IF removes THEN pc' = "force spaces" /\ UNCHANGED ok ELSE ok' = TRUE /\ SweepEnds
  /\ UNCHANGED <<sweep, removes, misses, blind, sweepRest>>

ForceSpaces ==
  /\ pc = "force spaces"
  /\ \/ DeletesSpaces /\ swept' = TRUE
     \/ LeavesSpaces /\ UNCHANGED swept
  /\ ok' = TRUE /\ pc' = "wait"
  /\ UNCHANGED <<sweep, removes, misses, blind, sweepRest>>

\* Defect: one failed query more than allowed.
GiveUpLate == misses = MaxQueryFailures

GiveUp == misses + 1 = MaxQueryFailures

\* _wait_for_namespace_deletion: one turn of its loop.
Poll ==
  /\ pc = "wait"
  /\ \/ Fails /\ IF GiveUp THEN SweepEnds /\ UNCHANGED misses ELSE misses' = misses + 1 /\ UNCHANGED pc
     \/ labelled # {} /\ Works /\ misses' = 0 /\ UNCHANGED pc
     \/ labelled = {} /\ Fails /\ misses' = 0 /\ UNCHANGED pc
     \/ labelled = {} /\ Works /\ SweepEnds /\ UNCHANGED misses
  /\ UNCHANGED <<clusterVars, sweep, removes, ok, blind, swept, sweepRest>>

Sweep == Precleanup \/ FinalCleanup \/ DeleteSync \/ Delete \/ ForceCleanup \/ ForceSpaces \/ Poll

---------------------------------------------------------------------------
NoPlan == [i \in Index |-> CHOOSE n \in Names : TRUE]

Reset ==
  /\ plan' = NoPlan /\ existing' = {} /\ effective' = "undecided" /\ started' = FALSE
  /\ failed' = FALSE /\ status' = 0 /\ strides' = AllIdle
  /\ sweep' = "pre" /\ removes' = FALSE /\ ok' = TRUE /\ misses' = 0
  /\ blind' = FALSE /\ doomed' = {} /\ swept' = FALSE

\* A run finds what the one before it left.
NewRun ==
  /\ pc \in Over /\ runs < MaxRuns
  /\ runs' = runs + 1
  /\ cfg' \in Configurations
  /\ pc' = "precleanup"
  /\ before' = labelled \ terminating
  /\ Reset
  /\ UNCHANGED <<clusterVars, failures>>

Kill ==
  /\ pc \notin Over /\ runs < MaxRuns
  /\ Fails
  /\ pc' = "killed" /\ strides' = AllIdle
  /\ UNCHANGED <<clusterVars, cfg, runVars, endVars, sweepVars, historyVars>>

Init ==
  /\ spaces \in Foreign /\ labelled = {} /\ terminating = {} /\ objects = {}
  /\ cfg \in Configurations /\ pc = "off" /\ plan = NoPlan /\ existing = {}
  /\ effective = "undecided" /\ failed = FALSE /\ started = FALSE /\ status = 0
  /\ strides = AllIdle
  /\ sweep = "pre" /\ removes = FALSE /\ ok = TRUE /\ misses = 0
  /\ before = {} /\ blind = FALSE /\ doomed = {} /\ swept = FALSE /\ failures = 0 /\ runs = 0

Main ==
  \/ Refuse \/ SetUp \/ Allocate \/ CheckNamespaces \/ EndStrides \/ SyncNamespace \/ Creates
  \/ WaitForSecrets \/ SyncFiles \/ SyncService \/ SyncPod \/ Services \/ DoLogging \/ Sweep

Threads == Main \/ \E s \in Strides : Stride(s)
Terminates == \E n \in Spaces : Terminate(n)

Next == Threads \/ Terminates \/ Signal \/ NewRun \/ Kill

\* The controller's commands return, and what terminates is gone at last.
Spec == Init /\ [][Next]_vars /\ WF_vars(Threads) /\ WF_vars(Terminates)

---------------------------------------------------------------------------
(* Properties. *)

Phases == Over \cup Types \cup
  {"precleanup", "delete sync", "delete", "force", "force spaces", "wait", "setup", "allocate",
   "check", "sync space", "wait secrets", "sync files", "sync service", "sync pod", "services",
   "run", "final"}

StrideRecords == [state : {"idle", "busy", "done", "failed"}, left : SUBSET Index,
                  todo : SUBSET Object, buffer : SUBSET Object]

ClusterOK ==
  /\ spaces \subseteq Spaces /\ labelled \subseteq spaces /\ terminating \subseteq labelled
  /\ objects \subseteq Object /\ \A o \in objects : o.ns \in spaces

RunOK ==
  /\ cfg \in Configurations /\ pc \in Phases /\ plan \in Plans
  /\ existing \subseteq Spaces /\ effective \in Policies \cup {"undecided"}
  /\ failed \in BOOLEAN /\ started \in BOOLEAN /\ status \in {0, 1}

StridesOK ==
  /\ strides \in [Strides -> StrideRecords]
  /\ pc \notin Types => strides = AllIdle

SweepOK ==
  /\ sweep \in {"pre", "final"} /\ removes \in BOOLEAN /\ ok \in BOOLEAN
  /\ misses \in 0 .. MaxQueryFailures - 1

HistoryOK ==
  /\ before \subseteq Spaces /\ blind \in BOOLEAN /\ doomed \subseteq Spaces
  /\ swept \in BOOLEAN /\ failures \in 0 .. MaxFailures /\ runs \in 0 .. MaxRuns

\* Every variable keeps to its states; labels and deletions are of namespaces that exist, every
\* object is in one, only the phases of threads have threads, and the wait for deletions counts
\* fewer failures than make it give up.
TypeOK == ClusterOK /\ RunOK /\ StridesOK /\ SweepOK /\ HistoryOK

\* What a pod mounts must be there before it is created.
Mounts(o) ==
  CASE o.kind = "Deployment" -> {Obj("System", o.ns, 0), Obj("User", o.ns, 0)} \cup SecretsOf(o.ns)
    [] o.kind = "SyncPod" -> {Obj("System", o.ns, 0)}
    [] OTHER -> {}

\* The sync pod and the deployments find their config maps and secrets, also when threads fail,
\* signals arrive while objects are created, runs are killed and other runs follow
\* (create_all_objects, _create_all_parallel).
FilesBeforePods == \A o \in objects : Mounts(o) \subseteq objects

\* What a complete run has in its namespace n.
Wanted(n) ==
  LET worked == n \in {plan[i] : i \in Index} IN
  {Obj("Service", n, 0)} \cup
  (IF n = SyncNs THEN {Obj("SyncPod", n, 0)} ELSE {}) \cup
  (IF worked THEN UNION {Built(type, n) : type \in Types \ {"namespaces"}} ELSE {})

\* A run that starts, and has not failed, has all of its objects: no thread's failure is lost and
\* no namespace is left out.  Namespaces that terminate when the run takes them for existing ones
\* are the exception: they go away under it.
StartedComplete ==
  pc = "run" /\ ~failed => \A n \in Used \ doomed : Wanted(n) \subseteq objects

\* After the cleanup at the end no labelled namespace is left where namespaces are removed,
\* whatever failed, unless the wait gave up; where they are kept, nothing is left that runs or
\* serves, unless the commands failed and force did not help.
NothingLeft ==
  pc = "ended" /\ sweep = "final" =>
    /\ removes => labelled = {} \/ misses = MaxQueryFailures - 1
    /\ ~removes /\ swept => \A o \in objects : o.kind \notin {"Service", "SyncPod", "Deployment"}

Removed(n) == n \in labelled \ terminating /\ n \notin labelled' \ terminating'

\* A namespace that was there before the run is removed only if --removenamespaces says so, or,
\* without the option, after a query for it failed, by the cleanup of a run that failed before
\* it looked, or if the run does not use it (--scale-ns).
KeepsNamespaces ==
  [][\A n \in before : Removed(n) =>
       \/ cfg.remove = "remove"
       \/ /\ cfg.remove = "auto"
          /\ \/ blind
             \/ sweep = "final" /\ (effective = "undecided" \/ n \notin Used)]_vars

\* The waits that no time limit ends: for a namespace whose deletion failed, and for the secrets
\* of a namespace that went away.
WaitsForever ==
  \/ pc = "wait" /\ labelled \ terminating # {}
  \/ pc = "wait secrets" /\ \E i \in Index : plan[i] \in doomed

\* Every run ends, after any failures and a signal at any moment, but for those two waits.
Ends == pc \notin Over ~> pc \in Over \/ WaitsForever
===========================================================================
