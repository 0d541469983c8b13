------------------------------ MODULE RunConfig ------------------------------
(***************************************************************************)
(* From a command line to the configuration of a run: config.build with    *)
(* the two callbacks of the workload registry.  A builder is a record; the *)
(* configuration made of it is the same record with the fields that are    *)
(* computed added or changed.                                              *)
(*                                                                         *)
(* A volume is a record of its name (empty when left out), its type, its   *)
(* mount point, its size, and its claim; type "short" is a specification   *)
(* with too few parts.  Those that are kept keep their positions.          *)
(***************************************************************************)
EXTENDS Workloads

(***************************************************************************)
(* The builder's defaults, as far as the modules of the driver use them.   *)
(***************************************************************************)
Defaults ==
    [workload |-> "sleep", options |-> <<>>, dtype |-> "pod", arch |-> "x86_64",
     namespaces |-> 1, deps |-> 1, replicas |-> 1, containers |-> 1, processes |-> 1,
     firstdep |-> 0, secrets |-> 0, files |-> <<>>, volumes |-> <<>>, resources |-> TRUE,
     metrics |-> "default", netserver |-> "", podprefix |-> "", workdir |-> "/var/tmp/clusterbuster",
     syncstart |-> TRUE, syncfirst |-> FALSE, privileged |-> FALSE, affinity |-> 0,
     syncaffinity |-> 0, exitatend |-> TRUE, runtime |-> 0, starttimeout |-> -1, watchdog |-> 0,
     vmcores |-> 1, extraargs |-> <<>>, runtimeclass |-> ""]

DeploymentType(b) == CASE b.dtype = "rs" -> "replicaset"
                       [] b.dtype \in {"dep", "deploy"} -> "deployment"
                       [] OTHER -> b.dtype

(***************************************************************************)
(* Volumes: the first of those with the same name or mount point is kept.  *)
(***************************************************************************)
VolumeInvalid(v) == \/ v.type \notin {"pvc", "emptydir", "emptydisk"}
                    \/ v.type = "emptydisk" /\ v.size = 0

\* A volume whose mount point is taken still claims its name.
IsFirst(vols, i) == \A j \in DOMAIN vols : j < i => vols[j].name # vols[i].name

KeptVolumes(vols) ==
    {i \in DOMAIN vols : IsFirst(vols, i) /\ \A j \in DOMAIN vols : j < i /\ IsFirst(vols, j) => vols[j].mount # vols[i].mount}

ValidateVolumes(vols) == Restrict(vols, KeptVolumes(vols))

(***************************************************************************)
(* What is wrong with a builder, all of it reported at once.               *)
(***************************************************************************)
Processed(b) == ProcessOptions(ResolveAlias(b.workload), b.options)

Errors(b) ==
    (IF b.workload = "" THEN {"no workload"} ELSE {}) \cup
    Processed(b).unknown \cup
    (IF DeploymentType(b) \in {"pod", "vm", "deployment", "replicaset"} THEN {} ELSE {"type"}) \cup
    (IF DeploymentType(b) = "vm" /\ b.containers # 1 THEN {"containers"} ELSE {}) \cup
    (IF DeploymentType(b) = "vm" /\ b.arch = "aarch64" THEN {"arch"} ELSE {}) \cup
    (IF b.resources THEN {} ELSE {"resources"}) \cup
    (IF \E i \in DOMAIN b.volumes : VolumeInvalid(b.volumes[i]) THEN {"volumes"} ELSE {}) \cup
    (IF b.metrics = "missing" THEN {"metrics"} ELSE {})

\* Deployments and replica sets restart what ends, so their containers must not end.
Resolved(b) ==
    LET dtype == DeploymentType(b)
    IN [f \in DOMAIN b \cup {"resolved", "opts"} |->
           CASE f = "resolved" -> ResolveAlias(b.workload)
             [] f = "opts" -> Processed(b).opts
             [] f = "dtype" -> dtype
             [] f = "exitatend" -> b.exitatend /\ dtype \notin {"deployment", "replicaset"}
             [] f = "runtimeclass" -> IF dtype = "vm" THEN "vm" ELSE b.runtimeclass
             [] f = "volumes" -> ValidateVolumes(b.volumes)
             [] OTHER -> b[f]]

\* A refused option and a workload that is not complete leave the program at once.
Refused(b) == \/ Processed(b).exit
              \/ Errors(b) # {}
              \/ FinalizeExits(Resolved(b))

\* The timeout for starting pods and the watchdog's port are chosen before the workload
\* finalizes the builder.
StartTimeout(c) == IF c.starttimeout < 0 THEN IF c.dtype = "vm" THEN 180 ELSE 60
                                         ELSE c.starttimeout

Build(b) ==
    LET c == Resolved(b)
        final == FinalizeOptions(c)
    IN [f \in DOMAIN final \cup {"usens", "watchdogport"} |->
           CASE f = "usens" -> c.namespaces > 0
             [] f = "watchdogport" -> IF c.watchdog > 0 THEN 7780 ELSE 0
             [] f = "starttimeout" -> StartTimeout(c)
             [] f = "namespaces" -> Max({final.namespaces, 1})
             [] OTHER -> final[f]]
=============================================================================
