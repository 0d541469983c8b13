------------------------------ MODULE Manifests ------------------------------
(***************************************************************************)
(* The objects a run creates: the manifest plan and the builders it calls. *)
(*                                                                         *)
(* A name, and the value of a label, is the sequence of the parts the code *)
(* joins with "-".  A manifest keeps what other objects or the cluster     *)
(* match: its kind, namespace, name and labels, the labels it selects, the *)
(* labels its pods must be placed by, the volumes and disks its pods have, *)
(* and its containers with the mounts and the arguments of each.  A label  *)
(* is a pair of a key and a value.  Of the labels, those are kept that     *)
(* some part of the code selects objects by.  A plan is a set: nothing     *)
(* depends on its order but the addresses of machines, which count them.   *)
(***************************************************************************)
EXTENDS RunConfig

CONSTANTS Basename,     \* --basename
          MaxNumber     \* the numbers of a run are no larger

\* Numbers are told apart by their numerals.
ASSUME NumeralAssumption == MaxNumber \in Nat /\ \A i, j \in 0..MaxNumber : N(i) = N(j) => i = j

PlanNamespaceNames(c, existing) ==
    LET free == {i \in 0..(c.namespaces + Cardinality(existing)) : <<Basename, N(i)>> \notin existing}
    IN [k \in 1..c.namespaces |->
           <<Basename, N(CHOOSE i \in free : Cardinality({j \in free : j < i}) = k - 1)>>]

SyncNs(c, nss) == IF c.syncfirst THEN nss[1] ELSE <<Basename, "sync">>

SyncService == <<Basename, "sync", "0">>
SyncPodName == <<Basename, "sync">>

(***************************************************************************)
(* Names and labels.                                                       *)
(***************************************************************************)
MkPodName(c, name) == IF c.podprefix = "" THEN name ELSE <<c.podprefix>> \o name

True == <<"true">>

StandardLabels(objtype, workload, ns, inst, rep, suffix, isWorker) ==
    LET instance == ns \o workload \o inst
    IN {<<Key, True>> : Key \in {<<Basename>>} \cup
            (IF isWorker THEN {<<Basename, "workload">>} ELSE {}) \cup
            (IF workload = <<>> THEN {} ELSE {workload})} \cup
       {<<Key, <<"uuid">>>> : Key \in {<<Basename, "uuid">>, <<Basename, objtype>>} \cup
            (IF workload = <<>> THEN {} ELSE {<<Basename>> \o workload}) \cup
            (IF objtype \in {"worker", "sync"} THEN {<<Basename, "monitor">>} ELSE {})} \cup
       {<< <<Basename, "objtype">>, <<objtype>> >>} \cup
       (IF workload = <<>> THEN {}
        ELSE {<< <<"name">>, instance \o suffix>>, << <<"app">>, ns \o workload \o suffix>>,
              << <<"instance">>, instance>>, << <<"replica">>, instance \o rep \o suffix>>})

PlainLabels(objtype) == StandardLabels(objtype, <<>>, <<>>, <<>>, <<>>, <<>>, TRUE)

\* Where a pod must (1) or must not (2) be: with a pod that has this label.
Affinity(mode, key, value) == IF mode = 0 THEN {} ELSE {<<mode, key, value>>}

WorkerAffinity(c) == Affinity(c.affinity, <<Basename, "uuid">>, <<"uuid">>)

(***************************************************************************)
(* Volumes and mounts.  A volume's name may have parts that are expanded   *)
(* for each replica; volumes() expands only the claim.                     *)
(***************************************************************************)
ExpandVolumeName(name, ns, inst, rep) ==
    IF Range(name) \cap {"%N", "%i", "%r"} = {} THEN name
    ELSE FlattenSeq([i \in DOMAIN name |-> CASE name[i] = "%N" -> ns
                                             [] name[i] = "%i" -> inst
                                             [] name[i] = "%r" -> rep
                                             [] OTHER -> <<name[i]>>])

NoName(v, types) == v.name = <<>> /\ v.type \in types

Unnamed(c, i, types) == Cardinality({j \in DOMAIN c.volumes : j < i /\ NoName(c.volumes[j], types)})

EmptyTypes == {"emptydir", "emptydisk"}

SecretName(ns, inst, k) == <<"secret">> \o ns \o inst \o <<N(k)>>

SecretVolumes(c, ns, inst) ==
    IF ns = <<>> \/ inst = <<>> THEN {} ELSE {SecretName(ns, inst, k) : k \in 0..(c.secrets - 1)}

VolumeMounts(c, ns, inst, rep) ==
    SecretVolumes(c, ns, inst) \cup {<<"user", "configmap">>, <<"system", "configmap">>, <<"workdir">>} \cup
    {IF NoName(c.volumes[i], EmptyTypes) THEN <<"cbemptydir", N(Unnamed(c, i, EmptyTypes))>>
     ELSE ExpandVolumeName(c.volumes[i].name, ns, inst, rep) : i \in DOMAIN c.volumes}

Volume(name, kind, source) == [name |-> name, kind |-> kind, source |-> source]

ConfigVolume(what) == Volume(<<what, "configmap">>, "ConfigMap", <<Basename, what, "configmap">>)

\* With extra, the volumes the user asked for.
Volumes(c, ns, inst, rep, extra) ==
    {Volume(s, "Secret", s) : s \in SecretVolumes(c, ns, inst)} \cup
    {ConfigVolume("user"), ConfigVolume("system")} \cup
    (IF ~extra THEN {} ELSE
     {Volume(<<"workdir">>, "none", <<>>)} \cup
     {LET v == c.volumes[i]
      IN IF v.type = "pvc"
         THEN Volume(v.name, "Claim", ExpandVolumeName(IF v.claim = <<>> THEN v.name ELSE v.claim, ns, inst, rep))
         ELSE Volume(IF v.name = <<>> THEN <<"cbemptydir", N(Unnamed(c, i, EmptyTypes))>> ELSE v.name, "none", <<>>) :
      i \in DOMAIN c.volumes})

(***************************************************************************)
(* Manifests.                                                              *)
(***************************************************************************)
Manifest(kind, ns, name, labels) ==
    [kind |-> kind, ns |-> ns, name |-> name, labels |-> labels, selector |-> {}, affinity |-> {},
     volumes |-> {}, containers |-> <<>>, disks |-> {}, data |-> {}, external |-> <<>>,
     policy |-> "", address |-> 0, privileged |-> FALSE]

Namespace(name, policy) == [Manifest("Namespace", <<>>, name, PlainLabels("namespace")) EXCEPT !.policy = policy]

Secret(ns, inst, k) == Manifest("Secret", ns, SecretName(ns, inst, k), PlainLabels("secret"))

Service(name, ns, selector) == [Manifest("Service", ns, name, PlainLabels("service")) EXCEPT !.selector = selector]

ExternalService(name, ns, host) == [Manifest("Service", ns, name, PlainLabels("service")) EXCEPT !.external = host]

Configmap(name, ns, data) == [Manifest("ConfigMap", ns, name, PlainLabels("configmap")) EXCEPT !.data = data]

SharedPodFiles == {"cb_util.py", "clusterbuster_pod_client.py", "sync.py", "drop_cache.py", "do-sync", "drop-cache"}

\* The files of src/lib/pod_files beside the shared ones; a file that is not there is left out.
PodFiles == {OwnFile[w] : w \in DOMAIN OwnFile \ {"pausepod"}} \cup ListConfigmaps("server") \cup ListConfigmaps("uperf")

SystemConfigmap(c, ns) ==
    Configmap(<<Basename, "system", "configmap">>, ns, SharedPodFiles \cup (ListConfigmaps(c.resolved) \cap PodFiles))

UserConfigmap(c, ns) ==
    Configmap(<<Basename, "user", "configmap">>, ns, ToSet(c.files \o ListUserConfigmaps(c)))

Container(name, args, mounts) == [name |-> name, args |-> args, mounts |-> mounts]

PodSpec(c, m, containers, volumes) ==
    [m EXCEPT !.containers = containers, !.volumes = volumes, !.affinity = WorkerAffinity(c)]

\* The client of a pair is placed by its server instead of by the run's pods.
ClientAffinity(c, m, label) ==
    IF label = <<>> \/ c.affinity = 0 THEN m
    ELSE [m EXCEPT !.affinity = Affinity(c.affinity, <<"instance">>, label)]

WorkloadLabel(c, role) == IF role = "" THEN <<c.workload>> ELSE <<c.resolved, role>>

WorkerLabels(c, ns, dep, rep, role) ==
    StandardLabels("worker", WorkloadLabel(c, role), ns, <<N(dep)>>, <<N(rep)>>, <<>>, TRUE)

InstanceOf(labels) == CHOOSE l \in labels : l[1] = <<"instance">>

Pod(c, name, ns, dep, rep, role, containers, volumes, server) ==
    ClientAffinity(c, PodSpec(c, Manifest("Pod", ns, MkPodName(c, name), WorkerLabels(c, ns, dep, rep, role)),
                              containers, volumes), server)

\* A deployment selects all the replicas of its instance.  A replica set is the same but its kind.
Deployment(c, name, ns, dep, rep, role, containers, volumes, server) ==
    LET m == Pod(c, name, ns, dep, rep, role, containers, volumes, server)
    IN [m EXCEPT !.kind = "Deployment", !.selector = {InstanceOf(m.labels)}]

ReplicaSet(c, name, ns, dep, rep, role, containers, volumes, server) ==
    [Deployment(c, name, ns, dep, rep, role, containers, volumes, server) EXCEPT !.kind = "ReplicaSet"]

DropCachePod(c, name, ns, worker) ==
    [Manifest("Pod", ns, MkPodName(c, name), StandardLabels("drop-cache", <<"drop-cache">>, ns, <<>>, <<>>, <<"dc">>, FALSE))
        EXCEPT !.affinity = Affinity(1, <<"replica">>, worker),
               !.volumes = {ConfigVolume("system"), Volume(<<"proc-sys-vm">>, "none", <<>>)},
               !.privileged = TRUE,
               !.containers = <<Container("dc", [script |-> "drop_cache.py"], {<<"system", "configmap">>, <<"proc-sys-vm">>})>>]

SyncLabel == << <<Basename, "sync", "sync">>, True>>

SyncPod(c, ns, expected, initial) ==
    [Manifest("Pod", ns, MkPodName(c, SyncPodName),
              StandardLabels("sync", <<"sync">>, ns, <<>>, <<>>, <<>>, FALSE) \cup {SyncLabel})
        EXCEPT !.affinity = Affinity(c.syncaffinity, <<Basename, "worker">>, True),
               !.volumes = {ConfigVolume("system")},
               !.containers = <<Container("sync", [script |-> "sync.py", expected |-> expected, initial |-> initial],
                                          {<<"system", "configmap">>})>>]

(***************************************************************************)
(* Virtual machines.  The guest finds a disk by its serial number.         *)
(***************************************************************************)
DiskName(c, i) ==
    LET v == c.volumes[i]
    IN IF NoName(v, {"emptydisk"}) THEN <<"cbemptydisk", N(Unnamed(c, i, {"emptydisk"}))>> ELSE v.name

DiskVolumes(c) == {i \in DOMAIN c.volumes : c.volumes[i].type # "emptydir"}

\* Disks and their serials: those of the system, the configmaps' and the user's.
DomainDisks(c) ==
    {[name |-> <<n>>, serial |-> <<n>>] : n \in {"containerdisk", "cloudinitdisk"}} \cup
    {[name |-> <<"user", "configmap">>, serial |-> <<"userconfigmap">>],
     [name |-> <<"system", "configmap">>, serial |-> <<"systemconfigmap">>]} \cup
    {[name |-> DiskName(c, i), serial |-> DiskName(c, i)] : i \in DiskVolumes(c)}

\* The serials that the boot commands mount: an emptydisk is looked for by its number, whatever
\* its name.
BootMounts(c) ==
    {IF c.volumes[i].type = "emptydisk"
     THEN <<"cbemptydisk", N(Cardinality({j \in DiskVolumes(c) : j < i /\ c.volumes[j].type = "emptydisk"}))>>
     ELSE c.volumes[i].name : i \in DiskVolumes(c)} \cup {<<"userconfigmap">>, <<"systemconfigmap">>}

\* Without an instance there are no secrets; a claim keeps its name unexpanded.
VmVolumes(c, ns) ==
    Volumes(c, ns, <<>>, <<>>, FALSE) \cup
    {Volume(<<n>>, "none", <<>>) : n \in {"containerdisk", "cloudinitdisk"}} \cup
    {LET v == c.volumes[i]
     IN Volume(DiskName(c, i), IF v.type = "pvc" THEN "Claim" ELSE "none",
               IF v.type # "pvc" THEN <<>> ELSE IF v.claim = <<>> THEN v.name ELSE v.claim) : i \in DiskVolumes(c)}

VirtualMachine(c, name, ns, dep, rep, role, args, address) ==
    [Manifest("VirtualMachine", ns, name, WorkerLabels(c, ns, dep, rep, role))
        EXCEPT !.affinity = WorkerAffinity(c), !.volumes = VmVolumes(c, ns), !.disks = DomainDisks(c),
               !.containers = <<Container("vm", args, BootMounts(c))>>, !.address = address]

(***************************************************************************)
(* The plan.                                                               *)
(***************************************************************************)
NamespacePolicy(c) ==
    IF \/ c.dtype = "vm" \/ c.privileged \/ RequiresDropCache(c) \/ Sysctls(c) # {}
    THEN "privileged"
    ELSE IF WorkloadPolicy(c) # "" THEN WorkloadPolicy(c) ELSE "restricted"

\* Defect: the servers are counted as clients.
ExpectedClientsAndServers(c, numNs) ==
    IF IsClientServer(c) THEN c.containers * (c.replicas + 1) * c.deps * numNs
    ELSE c.containers * c.replicas * c.processes * c.deps * numNs

\* The clients the sync pod waits for: in a round of the workers, and in the first one, of the
\* containers' main processes.
ExpectedClients(c, numNs) ==
    IF IsClientServer(c) THEN c.containers * c.replicas * c.deps * numNs
    ELSE c.containers * c.replicas * c.processes * c.deps * numNs

\* Defect: the drop-cache pods are not counted.
InitialClientsOfWorkers(c, numNs) ==
    IF IsClientServer(c) THEN (c.containers * c.replicas + 1) * c.deps * numNs
    ELSE c.containers * c.replicas * c.deps * numNs

InitialClients(c, numNs) ==
    IF IsClientServer(c) THEN (c.containers * c.replicas + 1) * c.deps * numNs
    ELSE (c.containers + IF RequiresDropCache(c) THEN 1 ELSE 0) * c.replicas * c.deps * numNs

Deps(c) == c.firstdep..(c.firstdep + c.deps - 1)

\* Defect: both roles of a pair get the same name.
RoleNameForAll(c, ns, role, dep) == ns \o <<c.resolved, N(dep)>>

DepName(c, ns, dep) == ns \o <<c.resolved, N(dep)>>
RoleName(c, ns, role, dep) == ns \o <<c.resolved, role, N(dep)>>

PlanSecrets(c, nss) ==
    {Secret(ns, <<N(dep)>>, k) : ns \in Range(nss), dep \in Deps(c), k \in 0..(c.secrets - 1)}

PlanSync(c, nss) ==
    LET ns == SyncNs(c, nss)
        host == SyncService \o ns
    IN IF ~c.syncstart THEN {}
       ELSE {SystemConfigmap(c, n) : n \in {ns} \ Range(nss)} \cup
            {Service(SyncService, ns, {SyncLabel}),
             SyncPod(c, ns, ExpectedClients(c, Len(nss)), InitialClients(c, Len(nss)))} \cup
            {ExternalService(SyncService, n, host) : n \in Range(nss) \ {ns}}

RoleArglist(c, ns, dep, role) ==
    CASE role = "server" -> ServerArglist(c) [] role = "client" -> ClientArglist(c, ns, dep) [] OTHER -> Arglist(c)

BuildContainers(c, ns, dep, rep, role) ==
    [i \in 1..c.containers |-> Container("c" \o N(i - 1), RoleArglist(c, ns, dep, role),
                                         VolumeMounts(c, ns, <<N(dep)>>, <<N(rep)>>))]

Replica(c, base, ns, dep, role, r, dtype, server) ==
    LET name == base \o <<N(r)>>
        containers == BuildContainers(c, ns, dep, r, role)
        volumes == Volumes(c, ns, <<N(dep)>>, <<N(r)>>, TRUE)
    IN CASE dtype = "replicaset" -> ReplicaSet(c, name, ns, dep, r, role, containers, volumes, server)
         [] dtype = "deployment" -> Deployment(c, name, ns, dep, r, role, containers, volumes, server)
         [] OTHER -> Pod(c, name, ns, dep, r, role, containers, volumes, server)

\* One object for every replica, so that a drop-cache pod can be placed with one of them.
SingleRoleDeployment(c, base, ns, dep, role, n, dtype, server) ==
    {Replica(c, base, ns, dep, role, r, dtype, server) : r \in 1..n}

\* The server is one pod whatever the deployment type; the client is placed by it.
ClientServerDeployments(c, ns, dep) ==
    SingleRoleDeployment(c, RoleName(c, ns, "server", dep), ns, dep, "server", 1, "pod", <<>>) \cup
    SingleRoleDeployment(c, RoleName(c, ns, "client", dep), ns, dep, "client", c.replicas, c.dtype,
                         RoleName(c, ns, "server", dep))

\* `first' is the address of the builder's last machine so far; every machine takes one.
Machines(c, base, ns, dep, role, n, first) ==
    {VirtualMachine(c, base \o <<N(r)>>, ns, dep, r, role, RoleArglist(c, ns, dep, role), first + r) : r \in 1..n}

VmManifests(c, ns, dep, first) ==
    IF IsClientServer(c)
    THEN Machines(c, RoleName(c, ns, "server", dep), ns, dep, "server", 1, first) \cup
         Machines(c, RoleName(c, ns, "client", dep), ns, dep, "client", c.replicas, first + 1)
    ELSE Machines(c, DepName(c, ns, dep), ns, dep, "", c.replicas, first)

VmsPerDep(c) == c.replicas + IF IsClientServer(c) THEN 1 ELSE 0

\* The machines planned before those of a deployment in the i-th namespace.
FirstAddress(c, i, dep) == ((i - 1) * c.deps + dep - c.firstdep) * VmsPerDep(c)

\* Defect: the name of the server's role, not of its pod.
ServerNameOfRole(c, ns, dep) == RoleName(c, ns, "server", dep)

ServerName(c, ns, dep) == RoleName(c, ns, "server", dep) \o <<N(1)>>

PlanDropCache(c, ns, dep) ==
    IF ~RequiresDropCache(c) THEN {}
    ELSE {DropCachePod(c, DepName(c, ns, dep) \o <<N(r), "dc">>, ns, DepName(c, ns, dep) \o <<N(r)>>) : r \in 1..c.replicas}

PlanServices(c, ns, dep) ==
    IF IsClientServer(c) /\ c.netserver = ""
    THEN {Service(ServerName(c, ns, dep), ns, {<< <<"replica">>, ServerName(c, ns, dep)>>})} ELSE {}

PlanDeployment(c, ns, dep, first) ==
    PlanDropCache(c, ns, dep) \cup PlanServices(c, ns, dep) \cup
    (IF c.dtype = "vm" THEN VmManifests(c, ns, dep, first)
     ELSE IF IsClientServer(c) THEN ClientServerDeployments(c, ns, dep)
     ELSE SingleRoleDeployment(c, DepName(c, ns, dep), ns, dep, "", c.replicas, c.dtype, <<>>))

PlanNamespaces(c, nss) ==
    {Namespace(ns, NamespacePolicy(c)) : ns \in Range(nss) \cup IF c.syncstart THEN {SyncNs(c, nss)} ELSE {}}

PlanConfigmaps(c, nss) ==
    {SystemConfigmap(c, ns) : ns \in Range(nss)} \cup {UserConfigmap(c, ns) : ns \in Range(nss)}

BuildManifestPlan(c, nss) ==
    PlanNamespaces(c, nss) \cup PlanConfigmaps(c, nss) \cup PlanSecrets(c, nss) \cup PlanSync(c, nss) \cup
    UNION {PlanDeployment(c, nss[i], dep, FirstAddress(c, i, dep)) : i \in DOMAIN nss, dep \in Deps(c)}

(***************************************************************************)
(* What the orchestrator creates of the plan: the sync objects and every   *)
(* service of the plan for all namespaces, then what else the plan for     *)
(* each namespace alone holds.                                             *)
(***************************************************************************)
InfraKinds == {"Namespace", "ConfigMap", "Secret", "Service"}

SyncServices(c, nss) ==
    IF ~c.syncstart THEN {}
    ELSE {m \in BuildManifestPlan(c, nss) :
             \/ m.kind = "ConfigMap" /\ m.ns = SyncNs(c, nss) /\ m.ns \notin Range(nss)
             \/ m.kind = "Service"
             \/ m.kind = "Pod" /\ m.name = SyncPodName}

DeploymentsOf(c, ns) ==
    {m \in BuildManifestPlan(c, <<ns>>) : m.kind \notin InfraKinds /\ m.name # SyncPodName}

\* Defect: the secrets are numbered from one, the volumes from zero.
CreatedSecretsFromOne(c, ns) ==
    {<<"secret", Basename, ns[Len(ns)], N(dep), N(k)>> : dep \in Deps(c), k \in 1..c.secrets}

\* The names of secrets are made anew from the last part of the namespace's name.
CreatedSecrets(c, ns) ==
    {<<"secret", Basename, ns[Len(ns)], N(dep), N(k)>> : dep \in Deps(c), k \in 0..(c.secrets - 1)}

\* With --scale-deployments, the first index that no deployment's name ends with.
FindFirstDeployment(deployments) ==
    LET indices == {m.name[Len(m.name)] : m \in deployments}
    IN IF indices = {} THEN 0 ELSE 1 + Max({i \in 0..MaxNumber : N(i) \in indices})

Created(c, nss) == SyncServices(c, nss) \cup UNION {DeploymentsOf(c, ns) : ns \in Range(nss)}
=============================================================================
