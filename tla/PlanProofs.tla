------------------------------ MODULE PlanProofs ------------------------------
(***************************************************************************)
(* What the plan of a run is, for every command line: its names, its       *)
(* services, what its pods need to start, and how many processes it makes, *)
(* whatever the numbers of namespaces, deployments, replicas, containers   *)
(* and processes, the kind of deployment and the volumes.                  *)
(*                                                                         *)
(* The argument has no induction.  A configuration that was accepted has   *)
(* the numbers and the kinds its plan rests on (IsConfig); every object    *)
(* that is created is one of a few forms (ObjectIs); a name is a sequence  *)
(* of parts of which the deployment's, the role's and the replica's have   *)
(* a fixed place, so that it tells what it was made for (SamePlainName);   *)
(* and the processes are counted by bijections from what tells them apart  *)
(* (Counted4).                                                             *)
(***************************************************************************)
EXTENDS PodWorkloads, FunctionTheorems, SequenceTheorems, FiniteSetTheorems, TLAPS

(***************************************************************************)
(* Sequences of parts.                                                     *)
(***************************************************************************)
\* A sequence of n elements, whatever they are.
IsSeq(s, n) == n \in Nat /\ s = [i \in 1..n |-> s[i]]

LEMMA Tuples ==
  /\ IsSeq(<<>>, 0)
  /\ \A a : IsSeq(<<a>>, 1)
  /\ \A a, b : IsSeq(<<a, b>>, 2)
  /\ \A a, b, c : IsSeq(<<a, b, c>>, 3)
  /\ \A a, b, c, d : IsSeq(<<a, b, c, d>>, 4)
  /\ \A a, b, c, d, e : IsSeq(<<a, b, c, d, e>>, 5)
BY DEF IsSeq

Cat(s, t) == s \o t

LEMMA CatIs ==
  ASSUME NEW s, NEW m, IsSeq(s, m), NEW t, NEW n, IsSeq(t, n)
  PROVE  /\ IsSeq(Cat(s, t), m + n)
         /\ \A i \in 1..m : Cat(s, t)[i] = s[i]
         /\ \A i \in 1..n : Cat(s, t)[m + i] = t[i]
<1> DEFINE S == {s[i] : i \in 1..m} \cup {t[i] : i \in 1..n}
<1>1. m \in Nat /\ n \in Nat BY DEF IsSeq
<1>2. s \in Seq(S) /\ Len(s) = m
  <2>1. s \in [1..m -> S] BY DEF IsSeq
  <2> QED BY <1>1, <2>1
<1>3. t \in Seq(S) /\ Len(t) = n
  <2>1. t \in [1..n -> S] BY DEF IsSeq
  <2> QED BY <1>1, <2>1
<1> HIDE DEF S
<1>4. s \o t \in Seq(S) /\ Len(s \o t) = m + n BY <1>2, <1>3, ConcatProperties
<1>5. \A i \in 1..m : Cat(s, t)[i] = s[i] BY <1>1, <1>2, <1>3, ConcatProperties DEF Cat
<1>6. ASSUME NEW i \in 1..n PROVE Cat(s, t)[m + i] = t[i]
  <2>1. m + i \in 1..(m + n) /\ ~(m + i <= m) /\ (m + i) - m = i BY <1>1
  <2> QED BY <1>1, <1>2, <1>3, <2>1, ConcatProperties DEF Cat
<1>7. IsSeq(s \o t, m + n) BY <1>1, <1>4 DEF IsSeq
<1> QED BY <1>5, <1>6, <1>7 DEF Cat

LEMMA CatNone == ASSUME NEW s, NEW m, IsSeq(s, m) PROVE Cat(s, <<>>) = s
<1> DEFINE none == <<>>
<1>1. IsSeq(none, 0) BY Tuples
<1> HIDE DEF none
<1>2. m \in Nat BY DEF IsSeq
<1>3. IsSeq(Cat(s, none), m + 0) /\ \A i \in 1..m : Cat(s, none)[i] = s[i] BY <1>1, CatIs
<1>4. m + 0 = m BY <1>2
<1>5. Cat(s, none) = s BY <1>3, <1>4 DEF IsSeq
<1> QED BY <1>5 DEF none

LEMMA SameSeq ==
  ASSUME NEW s, NEW m, IsSeq(s, m), NEW t, NEW n, IsSeq(t, n)
  PROVE  (s = t => m = n) /\ (m = n /\ (\A i \in 1..m : s[i] = t[i]) => s = t)
BY DEF IsSeq

-----------------------------------------------------------------------------
(***************************************************************************)
(* The configuration that a builder gives.                                 *)
(***************************************************************************)
ConfigFields == DOMAIN Defaults \cup {"resolved", "opts"}

\* The fields that the configuration has from the builder as they are.
Unchanged == {"workload", "deps", "replicas", "containers", "firstdep", "secrets", "netserver", "podprefix",
              "syncstart", "syncfirst", "affinity", "syncaffinity"}

LEMMA ResolvedOf ==
  ASSUME NEW b, IsBuilder(b)
  PROVE  /\ DOMAIN Resolved(b) = ConfigFields
         /\ \A f \in Unchanged \cup {"namespaces", "processes"} : Resolved(b)[f] = b[f]
         /\ Resolved(b).dtype = DeploymentType(b)
         /\ Resolved(b).volumes = ValidateVolumes(b.volumes)
         /\ Resolved(b).resolved = ResolveAlias(b.workload)
<1>1. DOMAIN Resolved(b) = ConfigFields BY DEF Resolved, IsBuilder, ConfigFields
<1>2. Unchanged \cup {"namespaces", "processes", "dtype", "volumes"} \subseteq ConfigFields
  BY DEF Unchanged, ConfigFields, Defaults
<1> QED BY <1>1, <1>2 DEF Resolved, ConfigFields, Unchanged, IsBuilder

OneProcess == {"uperf", "server", "pausepod", "waitforever"}

LEMMA FinalOf ==
  ASSUME NEW c, DOMAIN c = ConfigFields
  PROVE  /\ DOMAIN FinalizeOptions(c) = ConfigFields
         /\ FinalizeOptions(c).processes = IF c.resolved \in OneProcess THEN 1 ELSE c.processes
         /\ \A f \in Unchanged \cup {"namespaces", "dtype", "volumes", "resolved"} : FinalizeOptions(c)[f] = c[f]
BY DEF FinalizeOptions, FinalizeFio, FinalizeHammerdb, ConfigFields, Unchanged, Defaults, OneProcess

LEMMA BuildOf ==
  ASSUME NEW b, IsBuilder(b)
  PROVE  /\ ConfigFields \subseteq DOMAIN Build(b)
         /\ \A f \in Unchanged : Build(b)[f] = b[f]
         /\ Build(b).dtype = DeploymentType(b)
         /\ Build(b).volumes = ValidateVolumes(b.volumes)
         /\ Build(b).resolved = ResolveAlias(b.workload)
         /\ Build(b).namespaces = Max({b.namespaces, 1})
         /\ Build(b).processes = IF Build(b).resolved \in OneProcess THEN 1 ELSE b.processes
<1> DEFINE c == Resolved(b)
           final == FinalizeOptions(c)
<1>1. DOMAIN c = ConfigFields /\ DOMAIN final = ConfigFields BY ResolvedOf, FinalOf
<1>2. (\A f \in Unchanged : final[f] = b[f]) /\ final.dtype = DeploymentType(b)
      /\ final.volumes = ValidateVolumes(b.volumes) /\ final.namespaces = b.namespaces
      /\ final.resolved = ResolveAlias(b.workload)
      /\ final.processes = IF ResolveAlias(b.workload) \in OneProcess THEN 1 ELSE b.processes
  BY ResolvedOf, FinalOf
<1>3. Unchanged \cup {"namespaces", "processes", "dtype", "volumes", "resolved"} \subseteq ConfigFields
  BY DEF Unchanged, ConfigFields, Defaults
<1>4. DOMAIN Build(b) = ConfigFields \cup {"usens", "watchdogport"} BY <1>1 DEF Build
<1>5. \A f \in ConfigFields : f \notin {"usens", "watchdogport", "starttimeout", "namespaces"} => Build(b)[f] = final[f]
  BY <1>1 DEF Build
<1>6. Build(b).namespaces = Max({final.namespaces, 1}) BY <1>1, <1>3 DEF Build
<1>7. \A f \in Unchanged \cup {"dtype", "volumes", "resolved", "processes"} : f \notin {"usens", "watchdogport", "starttimeout", "namespaces"}
  BY DEF Unchanged
<1> HIDE DEF c, final
<1> QED BY <1>2, <1>3, <1>4, <1>5, <1>6, <1>7

\* What the plan of a configuration rests on.
IsConfig(c) ==
    /\ ConfigFields \subseteq DOMAIN c
    /\ c.namespaces \in Nat \ {0} /\ c.namespaces <= MaxNumber + 1
    /\ c.deps \in Nat /\ c.replicas \in Nat /\ c.firstdep \in Nat
    /\ c.firstdep + c.deps <= MaxNumber + 1 /\ c.deps + c.replicas <= MaxNumber
    /\ c.dtype \in {"pod", "vm", "deployment", "replicaset"}
    /\ c.syncstart \in BOOLEAN /\ c.syncfirst \in BOOLEAN
    /\ c.secrets \in Nat /\ c.containers \in Nat /\ c.processes \in Nat
    /\ c.dtype = "vm" => c.containers = 1
    /\ c.resolved \in OneProcess => c.processes = 1
    /\ c.resolved \in Registered
    /\ \A i \in DOMAIN c.volumes : c.volumes[i].type \in {"pvc", "emptydir", "emptydisk"}

LEMMA MaxOne == ASSUME NEW n \in Nat PROVE Max({n, 1}) \in Nat /\ Max({n, 1}) = IF n < 1 THEN 1 ELSE n
<1>1. Max({n, 1}) = CHOOSE x \in {n, 1} : \A y \in {n, 1} : x >= y BY DEF Max
<1> QED BY <1>1

LEMMA VolumesKept ==
  ASSUME NEW vols
  PROVE  DOMAIN ValidateVolumes(vols) \subseteq DOMAIN vols /\ \A i \in DOMAIN ValidateVolumes(vols) : ValidateVolumes(vols)[i] = vols[i]
BY DEF ValidateVolumes, KeptVolumes, Restrict

LEMMA BuildIsConfig == ASSUME NEW b, IsBuilder(b), ~Rejected(b) PROVE IsConfig(Build(b))
<1>1. Build(b).namespaces = Max({b.namespaces, 1}) /\ b.namespaces \in Nat /\ b.namespaces <= MaxNumber
  BY BuildOf DEF IsBuilder
<1>2. \A f \in {"deps", "replicas", "firstdep", "secrets", "containers"} : Build(b)[f] = b[f] /\ b[f] \in Nat
  BY BuildOf DEF IsBuilder, Unchanged
<1>3. b.firstdep + b.deps + b.replicas <= MaxNumber BY DEF IsBuilder
<1>4. MaxNumber \in Nat BY NumeralAssumption
<1>5. ~Refused(b) /\ Errors(b) = {} BY DEF Rejected, Refused
<1>6. Build(b).dtype \in {"pod", "vm", "deployment", "replicaset"} BY <1>5, BuildOf DEF Errors
<1>7. Max({b.namespaces, 1}) \in Nat \ {0} /\ Max({b.namespaces, 1}) <= MaxNumber + 1 BY <1>1, <1>4, MaxOne
<1>8. \A f \in {"syncstart", "syncfirst"} : Build(b)[f] = b[f] /\ b[f] \in BOOLEAN BY BuildOf DEF IsBuilder, Unchanged
<1>9. Build(b).resolved \in Registered BY BuildOf DEF Rejected
<1>10. \A i \in DOMAIN Build(b).volumes : Build(b).volumes[i].type \in {"pvc", "emptydir", "emptydisk"}
  <2>1. ~\E i \in DOMAIN b.volumes : VolumeInvalid(b.volumes[i]) BY <1>5 DEF Errors
  <2>2. \A i \in DOMAIN b.volumes : b.volumes[i].type \in {"pvc", "emptydir", "emptydisk"} BY <2>1 DEF VolumeInvalid
  <2>3. Build(b).volumes = ValidateVolumes(b.volumes) BY BuildOf
  <2> QED BY <2>2, <2>3, VolumesKept
<1>11. Build(b).dtype = "vm" => Build(b).containers = 1
  <2>1. ~(DeploymentType(b) = "vm" /\ b.containers # 1) BY <1>5 DEF Errors
  <2> QED BY <1>2, <2>1, BuildOf
<1>12. Build(b).processes \in Nat /\ (Build(b).resolved \in OneProcess => Build(b).processes = 1)
  <2>1. PICK n : n = b.processes OBVIOUS
  <2>2. n \in Nat BY <2>1 DEF IsBuilder
  <2>3. Build(b).processes = IF Build(b).resolved \in OneProcess THEN 1 ELSE n BY <2>1, BuildOf
  <2> QED BY <2>2, <2>3
<1> QED BY <1>1, <1>2, <1>3, <1>4, <1>6, <1>7, <1>8, <1>9, <1>10, <1>11, <1>12, BuildOf DEF IsConfig

-----------------------------------------------------------------------------
(***************************************************************************)
(* Names.                                                                  *)
(***************************************************************************)
NsName(x) == <<Basename, x>>

LEMMA NssOf ==
  ASSUME NEW c
  PROVE  DOMAIN Nss(c) = 1..c.namespaces /\ \A k \in 1..c.namespaces : \E x : Nss(c)[k] = NsName(x)
BY DEF Nss, PlanNamespaceNames, NsName

LEMMA NsForm == ASSUME NEW c, NEW ns \in Range(Nss(c)) PROVE \E x : ns = NsName(x)
BY NssOf DEF Range

\* The name of a deployment, and of a worker before the prefix.
Base(c, ns, dep, role) == IF role = "" THEN DepName(c, ns, dep) ELSE RoleName(c, ns, role, dep)

NoRole == ""

PlainName(c, ns, dep, role, r) == Base(c, ns, dep, role) \o <<N(r)>>

DropCacheName(c, ns, dep, r) == DepName(c, ns, dep) \o <<N(r), "dc">>

LEMMA NsNameIs == \A x : IsSeq(NsName(x), 2) /\ NsName(x)[1] = Basename /\ NsName(x)[2] = x
BY Tuples DEF NsName

LEMMA DepNameIs ==
  ASSUME NEW c, NEW x, NEW dep, NEW s, s = DepName(c, NsName(x), dep)
  PROVE  IsSeq(s, 4) /\ s[1] = Basename /\ s[2] = x /\ s[3] = c.resolved /\ s[4] = N(dep)
<1> DEFINE t == <<c.resolved, N(dep)>>
<1>1. IsSeq(t, 2) /\ t[1] = c.resolved /\ t[2] = N(dep) BY Tuples
<1>2. s = Cat(NsName(x), t) BY DEF DepName, Cat
<1> HIDE DEF t
<1> QED BY <1>1, <1>2, CatIs, NsNameIs

LEMMA RoleNameIs ==
  ASSUME NEW c, NEW x, NEW role, NEW dep, NEW s, s = RoleName(c, NsName(x), role, dep)
  PROVE  IsSeq(s, 5) /\ s[1] = Basename /\ s[2] = x /\ s[3] = c.resolved /\ s[4] = role /\ s[5] = N(dep)
<1> DEFINE t == <<c.resolved, role, N(dep)>>
<1>1. IsSeq(t, 3) /\ t[1] = c.resolved /\ t[2] = role /\ t[3] = N(dep) BY Tuples
<1>2. s = Cat(NsName(x), t) BY DEF RoleName, Cat
<1> HIDE DEF t
<1> QED BY <1>1, <1>2, CatIs, NsNameIs

\* A prefix keeps names apart, and makes all of them longer by one.
LEMMA PrefixIs ==
  ASSUME NEW c, NEW s, NEW m, IsSeq(s, m), NEW t, NEW n, IsSeq(t, n)
  PROVE  /\ c.podprefix = "" => MkPodName(c, s) = s
         /\ c.podprefix # "" => IsSeq(MkPodName(c, s), 1 + m)
         /\ MkPodName(c, s) = MkPodName(c, t) => s = t
<1> DEFINE p == <<c.podprefix>>
<1>1. IsSeq(p, 1) BY Tuples
<1>2. m \in Nat /\ n \in Nat BY DEF IsSeq
<1>3. MkPodName(c, s) = (IF c.podprefix = "" THEN s ELSE Cat(p, s))
      /\ MkPodName(c, t) = (IF c.podprefix = "" THEN t ELSE Cat(p, t))
  BY DEF MkPodName, Cat
<1> HIDE DEF p
<1>4. IsSeq(Cat(p, s), 1 + m) /\ \A i \in 1..m : Cat(p, s)[1 + i] = s[i] BY <1>1, CatIs
<1>5. IsSeq(Cat(p, t), 1 + n) /\ \A i \in 1..n : Cat(p, t)[1 + i] = t[i] BY <1>1, CatIs
<1>6. ASSUME Cat(p, s) = Cat(p, t) PROVE s = t
  <2>1. 1 + m = 1 + n BY <1>4, <1>5, <1>6, SameSeq
  <2>2. m = n BY <1>2, <2>1
  <2>3. \A i \in 1..m : s[i] = t[i] BY <1>4, <1>5, <1>6, <2>2
  <2> QED BY <2>2, <2>3, SameSeq
<1> QED BY <1>3, <1>4, <1>6

-----------------------------------------------------------------------------
(***************************************************************************)
(* The parts of a plan.                                                    *)
(***************************************************************************)
Roles(c) == IF IsClientServer(c) THEN {"server", "client"} ELSE {""}

Copies(c, role) == 1..(IF role = "server" THEN 1 ELSE c.replicas)

Worker(c, ns, dep, role, r, first) ==
    IF c.dtype = "vm"
    THEN VirtualMachine(c, Base(c, ns, dep, role) \o <<N(r)>>, ns, dep, r, role, RoleArglist(c, ns, dep, role),
                        IF role = "client" THEN first + 1 + r ELSE first + r)
    ELSE Replica(c, Base(c, ns, dep, role), ns, dep, role, r,
                 IF role = "server" THEN "pod" ELSE c.dtype,
                 IF role = "client" THEN RoleName(c, ns, "server", dep) ELSE <<>>)

IsWorker(c, ns, dep, first, m) ==
    \E role \in Roles(c) : \E r \in Copies(c, role) : m = Worker(c, ns, dep, role, r, first)

LEMMA WorkersOfDeployment ==
  ASSUME NEW c, NEW ns, NEW dep, NEW first, NEW m
  PROVE  m \in PlanDeployment(c, ns, dep, first) <=>
             m \in PlanDropCache(c, ns, dep) \/ m \in PlanServices(c, ns, dep) \/ IsWorker(c, ns, dep, first, m)
<1>1. CASE c.dtype = "vm"
  BY <1>1 DEF PlanDeployment, IsWorker, Roles, Copies, Worker, VmManifests, Machines, Base
<1>2. CASE c.dtype # "vm"
  BY <1>2 DEF PlanDeployment, IsWorker, Roles, Copies, Worker, ClientServerDeployments, SingleRoleDeployment, Base
<1> QED BY <1>1, <1>2

WorkerKind(c, role) ==
    CASE c.dtype = "vm" -> "VirtualMachine"
      [] c.dtype = "replicaset" /\ role # "server" -> "ReplicaSet"
      [] c.dtype = "deployment" /\ role # "server" -> "Deployment"
      [] OTHER -> "Pod"

WorkerName(c, ns, dep, role, r) ==
    IF c.dtype = "vm" THEN PlainName(c, ns, dep, role, r) ELSE MkPodName(c, PlainName(c, ns, dep, role, r))

LEMMA PodIs ==
  ASSUME NEW c, NEW name, NEW ns, NEW dep, NEW r, NEW role, NEW containers, NEW volumes, NEW server
  PROVE  /\ Pod(c, name, ns, dep, r, role, containers, volumes, server).kind = "Pod"
         /\ Pod(c, name, ns, dep, r, role, containers, volumes, server).ns = ns
         /\ Pod(c, name, ns, dep, r, role, containers, volumes, server).name = MkPodName(c, name)
         /\ {"kind", "ns", "name", "labels", "selector"} \subseteq DOMAIN Pod(c, name, ns, dep, r, role, containers, volumes, server)
BY DEF Pod, ClientAffinity, PodSpec, Manifest

LEMMA DeploymentIs ==
  ASSUME NEW c, NEW name, NEW ns, NEW dep, NEW r, NEW role, NEW containers, NEW volumes, NEW server
  PROVE  /\ LET d == Deployment(c, name, ns, dep, r, role, containers, volumes, server)
            IN d.kind = "Deployment" /\ d.ns = ns /\ d.name = MkPodName(c, name)
         /\ LET d == ReplicaSet(c, name, ns, dep, r, role, containers, volumes, server)
            IN d.kind = "ReplicaSet" /\ d.ns = ns /\ d.name = MkPodName(c, name)
<1> DEFINE p == Pod(c, name, ns, dep, r, role, containers, volumes, server)
<1>1. p.kind = "Pod" /\ p.ns = ns /\ p.name = MkPodName(c, name) BY PodIs
<1>2. {"kind", "ns", "name", "selector"} \subseteq DOMAIN p BY PodIs
<1>3. Deployment(c, name, ns, dep, r, role, containers, volumes, server) =
        [p EXCEPT !.kind = "Deployment", !.selector = {InstanceOf(p.labels)}]
  BY DEF Deployment
<1> HIDE DEF p
<1> QED BY <1>1, <1>2, <1>3 DEF ReplicaSet

LEMMA WorkerIs ==
  ASSUME NEW c, NEW ns, NEW dep, NEW role, NEW r, NEW first
  PROVE  LET m == Worker(c, ns, dep, role, r, first)
         IN m.kind = WorkerKind(c, role) /\ m.ns = ns /\ m.name = WorkerName(c, ns, dep, role, r)
<1>1. CASE c.dtype = "vm" BY <1>1 DEF Worker, WorkerKind, WorkerName, VirtualMachine, Manifest, PlainName
<1>2. CASE c.dtype # "vm" 
  <2> DEFINE dtype == IF role = "server" THEN "pod" ELSE c.dtype
             base == Base(c, ns, dep, role)
             server == IF role = "client" THEN RoleName(c, ns, "server", dep) ELSE <<>>
             name == base \o <<N(r)>>
             containers == BuildContainers(c, ns, dep, r, role)
             volumes == Volumes(c, ns, <<N(dep)>>, <<N(r)>>, TRUE)
  <2>1. Worker(c, ns, dep, role, r, first) = Replica(c, base, ns, dep, role, r, dtype, server) BY <1>2 DEF Worker
  <2>2. Worker(c, ns, dep, role, r, first) =
            CASE dtype = "replicaset" -> ReplicaSet(c, name, ns, dep, r, role, containers, volumes, server)
              [] dtype = "deployment" -> Deployment(c, name, ns, dep, r, role, containers, volumes, server)
              [] OTHER -> Pod(c, name, ns, dep, r, role, containers, volumes, server)
    BY <2>1 DEF Replica
  <2>3. WorkerKind(c, role) = CASE dtype = "replicaset" -> "ReplicaSet" [] dtype = "deployment" -> "Deployment" [] OTHER -> "Pod"
    BY <1>2 DEF WorkerKind
  <2>4. WorkerName(c, ns, dep, role, r) = MkPodName(c, name) BY <1>2 DEF WorkerName, PlainName
  <2> HIDE DEF dtype, base, server, name, containers, volumes
  <2>5. CASE dtype = "replicaset" BY <2>2, <2>3, <2>4, <2>5, DeploymentIs
  <2>6. CASE dtype = "deployment" BY <2>2, <2>3, <2>4, <2>6, DeploymentIs
  <2>7. CASE dtype \notin {"deployment", "replicaset"} BY <2>2, <2>3, <2>4, <2>7, PodIs
  <2> QED BY <2>5, <2>6, <2>7
<1> QED BY <1>1, <1>2

LEMMA PlainIs ==
  /\ \A name, policy : Namespace(name, policy).kind = "Namespace"
  /\ \A ns, inst, k : Secret(ns, inst, k).kind = "Secret"
  /\ \A name, ns, data : LET m == Configmap(name, ns, data)
                         IN m.kind = "ConfigMap" /\ m.ns = ns /\ m.name = name /\ m.data = data /\ m.containers = <<>>
  /\ \A name, ns, selector : LET m == Service(name, ns, selector)
                             IN /\ m.kind = "Service" /\ m.ns = ns /\ m.name = name /\ m.selector = selector
                                /\ m.external = <<>> /\ m.containers = <<>>
  /\ \A name, ns, host : LET m == ExternalService(name, ns, host)
                         IN /\ m.kind = "Service" /\ m.ns = ns /\ m.name = name /\ m.external = host
                            /\ m.containers = <<>>
BY DEF Namespace, Secret, Configmap, Service, ExternalService, Manifest

LEMMA SyncPodIs ==
  ASSUME NEW c, NEW ns, NEW e, NEW i
  PROVE  /\ SyncPod(c, ns, e, i).kind = "Pod" /\ SyncPod(c, ns, e, i).ns = ns
         /\ SyncPod(c, ns, e, i).name = MkPodName(c, SyncPodName)
         /\ SyncLabel \in SyncPod(c, ns, e, i).labels
BY DEF SyncPod, Manifest

LEMMA DropCachePodIs ==
  ASSUME NEW c, NEW name, NEW ns, NEW worker
  PROVE  /\ DropCachePod(c, name, ns, worker).kind = "Pod" /\ DropCachePod(c, name, ns, worker).ns = ns
         /\ DropCachePod(c, name, ns, worker).name = MkPodName(c, name)
BY DEF DropCachePod, Manifest

\* What a plan holds beside namespaces, secrets and the configmaps of its namespaces.
IsSyncPart(c, nss, m) ==
    LET ns == SyncNs(c, nss)
    IN /\ c.syncstart
       /\ \/ ns \notin Range(nss) /\ m = SystemConfigmap(c, ns)
          \/ m = Service(SyncService, ns, {SyncLabel})
          \/ m = SyncPod(c, ns, ExpectedClients(c, Len(nss)), InitialClients(c, Len(nss)))
          \/ \E n \in Range(nss) \ {ns} : m = ExternalService(SyncService, n, SyncService \o ns)

LEMMA InPlan ==
  ASSUME NEW c, c.syncstart \in BOOLEAN, NEW nss, NEW m
  PROVE  m \in BuildManifestPlan(c, nss) <=>
            \/ m \in PlanNamespaces(c, nss) \cup PlanSecrets(c, nss) \cup PlanConfigmaps(c, nss)
            \/ IsSyncPart(c, nss, m)
            \/ \E i \in DOMAIN nss : \E dep \in Deps(c) : m \in PlanDeployment(c, nss[i], dep, FirstAddress(c, i, dep))
<1>1. m \in PlanSync(c, nss) <=> IsSyncPart(c, nss, m) BY DEF PlanSync, IsSyncPart
<1>2. m \in UNION {PlanDeployment(c, nss[i], dep, FirstAddress(c, i, dep)) : i \in DOMAIN nss, dep \in Deps(c)} <=>
         \E i \in DOMAIN nss : \E dep \in Deps(c) : m \in PlanDeployment(c, nss[i], dep, FirstAddress(c, i, dep))
  OBVIOUS
<1> QED BY <1>1, <1>2 DEF BuildManifestPlan

LEMMA PlainInPlan ==
  ASSUME NEW c, NEW nss, NEW m \in PlanNamespaces(c, nss) \cup PlanSecrets(c, nss) \cup PlanConfigmaps(c, nss)
  PROVE  m.kind \in {"Namespace", "Secret"} \/ (m.kind = "ConfigMap" /\ m.ns \in Range(nss))
<1>1. CASE m \in PlanNamespaces(c, nss) BY <1>1, PlainIs DEF PlanNamespaces
<1>2. CASE m \in PlanSecrets(c, nss)
  <2>1. \E ns \in Range(nss), dep \in Deps(c), k \in 0..(c.secrets - 1) : m = Secret(ns, <<N(dep)>>, k)
    BY <1>2 DEF PlanSecrets
  <2> QED BY <2>1, PlainIs
<1>3. CASE m \in PlanConfigmaps(c, nss)
  <2>1. \A ns : SystemConfigmap(c, ns).kind = "ConfigMap" /\ SystemConfigmap(c, ns).ns = ns BY PlainIs DEF SystemConfigmap
  <2>2. \A ns : UserConfigmap(c, ns).kind = "ConfigMap" /\ UserConfigmap(c, ns).ns = ns BY PlainIs DEF UserConfigmap
  <2> QED BY <1>3, <2>1, <2>2 DEF PlanConfigmaps
<1> QED BY <1>1, <1>2, <1>3

-----------------------------------------------------------------------------
(***************************************************************************)
(* The objects that are created.                                           *)
(***************************************************************************)
IsServerService(c, m) == \E ns \in Range(Nss(c)) : \E dep \in Deps(c) : m \in PlanServices(c, ns, dep)

IsSyncService(c, m) == m = Service(SyncService, SyncNs(c, Nss(c)), {SyncLabel})

IsExternal(c, m) == \E n \in Range(Nss(c)) \ {SyncNs(c, Nss(c))} : m = ExternalService(SyncService, n, SyncService \o SyncNs(c, Nss(c)))

IsSyncMap(c, m) == SyncNs(c, Nss(c)) \notin Range(Nss(c)) /\ m = SystemConfigmap(c, SyncNs(c, Nss(c)))

\* Of all namespaces without a prefix, of each with one.
SyncPodOf(c, nss) == SyncPod(c, SyncNs(c, nss), ExpectedClients(c, Len(nss)), InitialClients(c, Len(nss)))

IsSyncPod(c, m) ==
    \/ c.podprefix = "" /\ m = SyncPodOf(c, Nss(c))
    \/ c.podprefix # "" /\ \E ns \in Range(Nss(c)) : m = SyncPodOf(c, <<ns>>)

IsSync(c, m) == c.syncstart /\ (IsServerService(c, m) \/ IsSyncService(c, m) \/ IsExternal(c, m) \/ IsSyncMap(c, m) \/ IsSyncPod(c, m))

IsDropCache(c, m) == \E ns \in Range(Nss(c)) : \E dep \in Deps(c) : m \in PlanDropCache(c, ns, dep)

IsWorkload(c, m) == \E ns \in Range(Nss(c)) : \E dep \in Deps(c) : IsWorker(c, ns, dep, FirstAddress(c, 1, dep), m)

LEMMA SyncPodNameIs == IsSeq(SyncPodName, 2)
BY Tuples DEF SyncPodName

LEMMA SyncPodNames == ASSUME NEW c PROVE MkPodName(c, SyncPodName) = SyncPodName <=> c.podprefix = ""
<1>1. CASE c.podprefix = "" BY <1>1 DEF MkPodName
<1>2. CASE c.podprefix # ""
  <2>1. IsSeq(MkPodName(c, SyncPodName), 1 + 2) BY <1>2, SyncPodNameIs, PrefixIs
  <2>2. IsSeq(MkPodName(c, SyncPodName), 3) BY <2>1
  <2>3. MkPodName(c, SyncPodName) # SyncPodName BY <2>2, SyncPodNameIs, SameSeq
  <2> QED BY <1>2, <2>3
<1> QED BY <1>1, <1>2

\* The names of workers and of their drop-cache pods.
LEMMA PlainOfDep ==
  ASSUME NEW c, NEW x, NEW dep, NEW r
  PROVE  /\ IsSeq(PlainName(c, NsName(x), dep, NoRole, r), 5)
         /\ PlainName(c, NsName(x), dep, NoRole, r)[1] = Basename
         /\ PlainName(c, NsName(x), dep, NoRole, r)[2] = x
         /\ PlainName(c, NsName(x), dep, NoRole, r)[3] = c.resolved
         /\ PlainName(c, NsName(x), dep, NoRole, r)[4] = N(dep)
         /\ PlainName(c, NsName(x), dep, NoRole, r)[5] = N(r)
<1> DEFINE t == <<N(r)>>
<1>1. IsSeq(t, 1) /\ t[1] = N(r) BY Tuples
<1>2. PICK b : b = DepName(c, NsName(x), dep) OBVIOUS
<1>3. PlainName(c, NsName(x), dep, NoRole, r) = Cat(b, t) BY <1>2 DEF Cat, PlainName, Base, NoRole
<1> HIDE DEF t
<1>4. IsSeq(b, 4) /\ b[1] = Basename /\ b[2] = x /\ b[3] = c.resolved /\ b[4] = N(dep) BY <1>2, DepNameIs
<1>5. IsSeq(Cat(b, t), 5) /\ (\A i \in 1..4 : Cat(b, t)[i] = b[i]) /\ Cat(b, t)[5] = t[1] BY <1>1, <1>4, CatIs
<1> QED BY <1>1, <1>3, <1>4, <1>5

LEMMA PlainOfRole ==
  ASSUME NEW c, NEW x, NEW dep, NEW role, role # NoRole, NEW r
  PROVE  /\ IsSeq(PlainName(c, NsName(x), dep, role, r), 6)
         /\ PlainName(c, NsName(x), dep, role, r)[1] = Basename
         /\ PlainName(c, NsName(x), dep, role, r)[2] = x
         /\ PlainName(c, NsName(x), dep, role, r)[3] = c.resolved
         /\ PlainName(c, NsName(x), dep, role, r)[4] = role
         /\ PlainName(c, NsName(x), dep, role, r)[5] = N(dep)
         /\ PlainName(c, NsName(x), dep, role, r)[6] = N(r)
<1> DEFINE t == <<N(r)>>
<1>1. IsSeq(t, 1) /\ t[1] = N(r) BY Tuples
<1>2. PICK b : b = RoleName(c, NsName(x), role, dep) OBVIOUS
<1>3. PlainName(c, NsName(x), dep, role, r) = Cat(b, t) BY <1>2 DEF Cat, PlainName, Base, NoRole
<1> HIDE DEF t
<1>4. IsSeq(b, 5) /\ b[1] = Basename /\ b[2] = x /\ b[3] = c.resolved /\ b[4] = role /\ b[5] = N(dep) BY <1>2, RoleNameIs
<1>5. IsSeq(Cat(b, t), 6) /\ (\A i \in 1..5 : Cat(b, t)[i] = b[i]) /\ Cat(b, t)[6] = t[1]
  BY <1>1, <1>4, CatIs
<1> QED BY <1>1, <1>3, <1>4, <1>5

LEMMA DropCacheNameIs ==
  ASSUME NEW c, NEW x, NEW dep, NEW r
  PROVE  /\ IsSeq(DropCacheName(c, NsName(x), dep, r), 6)
         /\ DropCacheName(c, NsName(x), dep, r)[4] = N(dep)
         /\ DropCacheName(c, NsName(x), dep, r)[5] = N(r)
<1> DEFINE t == <<N(r), "dc">>
<1>1. IsSeq(t, 2) /\ t[1] = N(r) BY Tuples
<1>2. DropCacheName(c, NsName(x), dep, r) = Cat(DepName(c, NsName(x), dep), t) BY DEF Cat, DropCacheName
<1> HIDE DEF t
<1>3. PICK b : b = DepName(c, NsName(x), dep) OBVIOUS
<1>4. IsSeq(b, 4) /\ b[4] = N(dep) BY <1>3, DepNameIs
<1>5. IsSeq(Cat(b, t), 4 + 2) /\ Cat(b, t)[4] = b[4] /\ Cat(b, t)[4 + 1] = t[1] BY <1>1, <1>4, CatIs
<1> QED BY <1>1, <1>2, <1>3, <1>4, <1>5

LEMMA LongNames ==
  ASSUME NEW c, NEW s, NEW m, IsSeq(s, m), m > 3
  PROVE  s # SyncPodName /\ MkPodName(c, s) # SyncPodName /\ MkPodName(c, s) # MkPodName(c, SyncPodName) /\ s # MkPodName(c, SyncPodName)
<1>1. m \in Nat /\ m # 2 BY DEF IsSeq
<1>2. s # SyncPodName BY <1>1, SyncPodNameIs, SameSeq
<1>3. MkPodName(c, s) # MkPodName(c, SyncPodName) BY <1>2, SyncPodNameIs, PrefixIs
<1>4. CASE c.podprefix = "" BY <1>2, <1>3, <1>4, SyncPodNameIs, PrefixIs
<1>5. CASE c.podprefix # ""
  <2>1. IsSeq(MkPodName(c, s), 1 + m) BY <1>5, SyncPodNameIs, PrefixIs
  <2>2. IsSeq(MkPodName(c, SyncPodName), 1 + 2) BY <1>5, SyncPodNameIs, PrefixIs
  <2>3. 1 + m # 2 /\ m # 1 + 2 BY <1>1
  <2> QED BY <1>2, <1>3, <2>1, <2>2, <2>3, SyncPodNameIs, SameSeq
<1> QED BY <1>4, <1>5

LEMMA WorkerNamed ==
  ASSUME NEW c, NEW ns \in Range(Nss(c)), NEW dep, NEW role, NEW r
  PROVE  /\ WorkerName(c, ns, dep, role, r) # SyncPodName
         /\ WorkerName(c, ns, dep, role, r) # MkPodName(c, SyncPodName)
         /\ MkPodName(c, DropCacheName(c, ns, dep, r)) # SyncPodName
         /\ MkPodName(c, DropCacheName(c, ns, dep, r)) # MkPodName(c, SyncPodName)
<1>1. PICK x : ns = NsName(x) BY NsForm
<1>2. \E m : IsSeq(PlainName(c, ns, dep, role, r), m) /\ m > 3
  <2>1. 5 > 3 /\ 6 > 3 OBVIOUS
  <2> QED BY <1>1, <2>1, PlainOfDep, PlainOfRole
<1>3. IsSeq(DropCacheName(c, ns, dep, r), 6) BY <1>1, DropCacheNameIs
<1>4. 6 > 3 OBVIOUS
<1>5. /\ WorkerName(c, ns, dep, role, r) # SyncPodName
      /\ WorkerName(c, ns, dep, role, r) # MkPodName(c, SyncPodName)
  BY <1>2, LongNames DEF WorkerName
<1> QED BY <1>3, <1>4, <1>5, LongNames

LEMMA PartsOfDeployment ==
  ASSUME NEW c, NEW ns \in Range(Nss(c)), NEW dep, NEW first, NEW m
  PROVE  /\ m \in PlanServices(c, ns, dep) => m.kind = "Service"
         /\ m \in PlanDropCache(c, ns, dep) => m.kind = "Pod" /\ m.ns = ns /\ m.name # SyncPodName
         /\ IsWorker(c, ns, dep, first, m) =>
               m.ns = ns /\ m.name # SyncPodName /\ m.kind \in {"VirtualMachine", "ReplicaSet", "Deployment", "Pod"}
<1>1. m \in PlanServices(c, ns, dep) => m.kind = "Service"
  <2>1. m \in PlanServices(c, ns, dep) =>
          m = Service(ServerName(c, ns, dep), ns, {<< <<"replica">>, ServerName(c, ns, dep)>>})
    BY DEF PlanServices
  <2> QED BY <2>1, PlainIs
<1>2. ASSUME m \in PlanDropCache(c, ns, dep) PROVE m.kind = "Pod" /\ m.ns = ns /\ m.name # SyncPodName
  <2>1. PICK r : m = DropCachePod(c, DropCacheName(c, ns, dep, r), ns, DepName(c, ns, dep) \o <<N(r)>>)
    BY <1>2 DEF PlanDropCache, DropCacheName
  <2>2. m.kind = "Pod" /\ m.ns = ns /\ m.name = MkPodName(c, DropCacheName(c, ns, dep, r)) BY <2>1, DropCachePodIs
  <2> QED BY <2>2, WorkerNamed
<1>3. ASSUME IsWorker(c, ns, dep, first, m)
      PROVE  m.ns = ns /\ m.name # SyncPodName /\ m.kind \in {"VirtualMachine", "ReplicaSet", "Deployment", "Pod"}
  <2>1. PICK role, r : m = Worker(c, ns, dep, role, r, first) BY <1>3 DEF IsWorker
  <2>2. m.ns = ns /\ m.name = WorkerName(c, ns, dep, role, r) /\ m.kind = WorkerKind(c, role) BY <2>1, WorkerIs
  <2> QED BY <2>2, WorkerNamed DEF WorkerKind
<1> QED BY <1>1, <1>2, <1>3

LEMMA ObjectIs ==
  ASSUME NEW c, IsConfig(c), NEW m \in Objects(c)
  PROVE  IsSync(c, m) \/ IsDropCache(c, m) \/ IsWorkload(c, m)
<1> DEFINE nss == Nss(c)
<1>1. c.syncstart \in BOOLEAN BY DEF IsConfig
<1>2. CASE m \in SyncServices(c, nss)
  <2>1. /\ c.syncstart /\ m \in BuildManifestPlan(c, nss)
        /\ \/ m.kind = "ConfigMap" /\ m.ns = SyncNs(c, nss) /\ m.ns \notin Range(nss)
           \/ m.kind = "Service"
           \/ m.kind = "Pod" /\ m.name = SyncPodName
    BY <1>1, <1>2 DEF SyncServices
  <2>2. m \notin PlanNamespaces(c, nss) \cup PlanSecrets(c, nss) \cup PlanConfigmaps(c, nss) BY <2>1, PlainInPlan
  <2>3. CASE IsSyncPart(c, nss, m)
    <3>1. ASSUME m = SyncPodOf(c, nss) PROVE IsSync(c, m)
      <4>1. m.kind = "Pod" /\ m.name = MkPodName(c, SyncPodName) BY <3>1, SyncPodIs DEF SyncPodOf
      <4>2. c.podprefix = "" BY <2>1, <4>1, SyncPodNames
      <4> QED BY <2>1, <3>1, <4>2 DEF IsSync, IsSyncPod
    <3>2. ASSUME m # SyncPodOf(c, nss) PROVE IsSync(c, m)
      BY <2>1, <2>3, <3>2 DEF IsSyncPart, SyncPodOf, IsSync, IsSyncMap, IsSyncService, IsExternal
    <3> QED BY <3>1, <3>2
  <2>4. ASSUME NEW i \in DOMAIN nss, NEW dep \in Deps(c), m \in PlanDeployment(c, nss[i], dep, FirstAddress(c, i, dep))
        PROVE  IsSync(c, m)
    <3>1. nss[i] \in Range(nss) BY DEF Range
    <3>2. m \in PlanServices(c, nss[i], dep) BY <2>1, <2>4, <3>1, WorkersOfDeployment, PartsOfDeployment
    <3> QED BY <2>1, <3>1, <3>2 DEF IsSync, IsServerService
  <2>5. \/ IsSyncPart(c, nss, m)
        \/ \E i \in DOMAIN nss : \E dep \in Deps(c) : m \in PlanDeployment(c, nss[i], dep, FirstAddress(c, i, dep))
    <3>1. m \in BuildManifestPlan(c, nss) BY <2>1
    <3> HIDE DEF nss
    <3>2. \/ m \in PlanNamespaces(c, nss) \cup PlanSecrets(c, nss) \cup PlanConfigmaps(c, nss)
          \/ IsSyncPart(c, nss, m)
          \/ \E i \in DOMAIN nss : \E dep \in Deps(c) : m \in PlanDeployment(c, nss[i], dep, FirstAddress(c, i, dep))
      BY <1>1, <3>1, InPlan
    <3> QED BY <2>2, <3>2
  <2> QED BY <2>3, <2>4, <2>5
<1>3. ASSUME NEW ns \in Range(nss), m \in DeploymentsOf(c, ns)
      PROVE  IsSync(c, m) \/ IsDropCache(c, m) \/ IsWorkload(c, m)
  <2>1. m \in BuildManifestPlan(c, <<ns>>) /\ m.kind \notin InfraKinds /\ m.name # SyncPodName
    BY <1>3 DEF DeploymentsOf
  <2>2. m \notin PlanNamespaces(c, <<ns>>) \cup PlanSecrets(c, <<ns>>) \cup PlanConfigmaps(c, <<ns>>)
    BY <2>1, PlainInPlan DEF InfraKinds
  <2>3. CASE IsSyncPart(c, <<ns>>, m)
    <3>1. m = SyncPodOf(c, <<ns>>) /\ c.syncstart
      BY <2>1, <2>3, PlainIs DEF IsSyncPart, SyncPodOf, InfraKinds, SystemConfigmap
    <3>2. m.name = MkPodName(c, SyncPodName) BY <3>1, SyncPodIs DEF SyncPodOf
    <3>3. c.podprefix # "" BY <2>1, <3>2, SyncPodNames
    <3> QED BY <3>1, <3>3 DEF IsSync, IsSyncPod
  <2>4. ASSUME NEW i \in DOMAIN <<ns>>, NEW dep \in Deps(c), m \in PlanDeployment(c, <<ns>>[i], dep, FirstAddress(c, i, dep))
        PROVE  IsDropCache(c, m) \/ IsWorkload(c, m)
    <3>1. i = 1 /\ <<ns>>[i] = ns OBVIOUS
    <3>2. m \in PlanDeployment(c, ns, dep, FirstAddress(c, 1, dep)) BY <2>4, <3>1
    <3>3. m \in PlanDropCache(c, ns, dep) \/ IsWorker(c, ns, dep, FirstAddress(c, 1, dep), m)
      BY <2>1, <3>2, WorkersOfDeployment, PartsOfDeployment DEF InfraKinds
    <3> QED BY <3>3 DEF IsDropCache, IsWorkload
  <2> QED BY <1>1, <2>2, <2>3, <2>4, <2>1, InPlan
<1> QED BY <1>2, <1>3 DEF Objects, Created

-----------------------------------------------------------------------------
(***************************************************************************)
(* Names are not used twice.                                               *)
(***************************************************************************)
LEMMA Numerals ==
  ASSUME NEW c, IsConfig(c)
  PROVE  /\ \A d, e \in Deps(c) : N(d) = N(e) => d = e
         /\ \A role \in Roles(c) : \A q, r \in Copies(c, role) : N(q) = N(r) => q = r
<1>1. MaxNumber \in Nat /\ \A i, j \in 0..MaxNumber : N(i) = N(j) => i = j BY NumeralAssumption
<1>2. c.deps \in Nat /\ c.replicas \in Nat /\ c.firstdep \in Nat
      /\ c.firstdep + c.deps <= MaxNumber + 1 /\ c.deps + c.replicas <= MaxNumber
  BY DEF IsConfig
<1>3. Deps(c) \subseteq 0..MaxNumber BY <1>1, <1>2 DEF Deps
<1>4. 1..c.replicas \subseteq 0..MaxNumber BY <1>1, <1>2
<1>5. \A q, r \in 1..1 : q = r OBVIOUS
<1> QED BY <1>1, <1>3, <1>4, <1>5 DEF Copies

LEMMA SamePlainName ==
  ASSUME NEW c, NEW x, NEW y, NEW d, NEW e, NEW role, NEW part, NEW q, NEW r,
         role \in Roles(c), part \in Roles(c),
         PlainName(c, NsName(x), d, role, q) = PlainName(c, NsName(y), e, part, r)
  PROVE  role = part /\ N(d) = N(e) /\ N(q) = N(r)
<1> DEFINE s == PlainName(c, NsName(x), d, role, q)
<1>1. (role = NoRole) <=> (part = NoRole) BY DEF Roles, NoRole
<1>2. CASE role = NoRole BY <1>1, <1>2, PlainOfDep
<1>3. CASE role # NoRole BY <1>1, <1>3, PlainOfRole
<1> QED BY <1>2, <1>3

LEMMA IsSeqOfPlainName == \A c, x, d, role, r : \E m : m > 3 /\ IsSeq(PlainName(c, NsName(x), d, role, r), m)
<1>1. 5 > 3 /\ 6 > 3 OBVIOUS
<1> QED BY <1>1, PlainOfRole, PlainOfDep

LEMMA SameDropCacheName ==
  ASSUME NEW c, NEW x, NEW y, NEW d, NEW e, NEW q, NEW r,
         MkPodName(c, DropCacheName(c, NsName(x), d, q)) = MkPodName(c, DropCacheName(c, NsName(y), e, r))
  PROVE  N(d) = N(e) /\ N(q) = N(r)
<1>1. DropCacheName(c, NsName(x), d, q) = DropCacheName(c, NsName(y), e, r) BY DropCacheNameIs, PrefixIs
<1> QED BY <1>1, DropCacheNameIs

\* A pod and its drop-cache pod.
LEMMA DropCacheNamed ==
  ASSUME NEW c, NEW x, NEW y, NEW d, NEW e, NEW q, NEW r
  PROVE  MkPodName(c, DropCacheName(c, NsName(x), d, q)) # MkPodName(c, PlainName(c, NsName(y), e, NoRole, r))
<1>1. IsSeq(DropCacheName(c, NsName(x), d, q), 6) BY DropCacheNameIs
<1>2. IsSeq(PlainName(c, NsName(y), e, NoRole, r), 5) BY PlainOfDep
<1>3. DropCacheName(c, NsName(x), d, q) # PlainName(c, NsName(y), e, NoRole, r) BY <1>1, <1>2, SameSeq
<1>4. PICK s, t : s = DropCacheName(c, NsName(x), d, q) /\ t = PlainName(c, NsName(y), e, NoRole, r) OBVIOUS
<1>5. MkPodName(c, s) = MkPodName(c, t) => s = t BY <1>1, <1>2, <1>4, PrefixIs
<1> QED BY <1>3, <1>4, <1>5

LEMMA DropCacheRoles == ASSUME NEW c, RequiresDropCache(c) PROVE ~IsClientServer(c)
BY DEF RequiresDropCache, IsClientServer

LEMMA ServerNameIs ==
  ASSUME NEW c, NEW x, NEW d
  PROVE  IsSeq(ServerName(c, NsName(x), d), 6) /\ ServerName(c, NsName(x), d)[5] = N(d)
<1>1. PICK role : role = "server" OBVIOUS
<1>2. ServerName(c, NsName(x), d) = PlainName(c, NsName(x), d, role, 1) /\ role # NoRole
  BY <1>1 DEF ServerName, PlainName, Base, NoRole
<1> HIDE <1>1
<1> QED BY <1>2, PlainOfRole

LEMMA SyncServiceIs == IsSeq(SyncService, 3)
BY Tuples DEF SyncService

LEMMA ConfigmapIs ==
  ASSUME NEW c, NEW ns
  PROVE  /\ SystemConfigmap(c, ns).kind = "ConfigMap" /\ SystemConfigmap(c, ns).ns = ns
         /\ SystemConfigmap(c, ns).containers = <<>>
BY PlainIs DEF SystemConfigmap

ReplicaLabel(name) == << <<"replica">>, name>>

Replicas(name) == {ReplicaLabel(name)}

LEMMA ServiceOf ==
  ASSUME NEW c, NEW ns, NEW dep, NEW m \in PlanServices(c, ns, dep)
  PROVE  /\ IsClientServer(c)
         /\ m = Service(ServerName(c, ns, dep), ns, Replicas(ServerName(c, ns, dep)))
         /\ m.kind = "Service" /\ m.ns = ns /\ m.name = ServerName(c, ns, dep)
         /\ m.selector = Replicas(ServerName(c, ns, dep)) /\ m.external = <<>> /\ m.containers = <<>>
<1>1. IsClientServer(c) /\ m = Service(ServerName(c, ns, dep), ns, Replicas(ServerName(c, ns, dep)))
  BY DEF PlanServices, Replicas, ReplicaLabel
<1> QED BY <1>1, PlainIs

LEMMA SyncKinds ==
  ASSUME NEW c, NEW m, IsSync(c, m)
  PROVE  /\ IsServerService(c, m) \/ IsSyncService(c, m) \/ IsExternal(c, m) => m.kind = "Service"
         /\ IsSyncMap(c, m) => m.kind = "ConfigMap"
         /\ IsSyncPod(c, m) => m.kind = "Pod" /\ m.name = MkPodName(c, SyncPodName)
<1>1. IsServerService(c, m) => m.kind = "Service" BY ServiceOf DEF IsServerService
<1>2. IsSyncService(c, m) => m.kind = "Service" BY PlainIs DEF IsSyncService
<1>3. IsExternal(c, m) => m.kind = "Service" BY PlainIs DEF IsExternal
<1>4. IsSyncMap(c, m) => m.kind = "ConfigMap" BY ConfigmapIs DEF IsSyncMap
<1>5. ASSUME IsSyncPod(c, m) PROVE m.kind = "Pod" /\ m.name = MkPodName(c, SyncPodName)
  <2>1. PICK nss : m = SyncPodOf(c, nss) BY <1>5 DEF IsSyncPod
  <2> QED BY <2>1, SyncPodIs DEF SyncPodOf
<1> QED BY <1>1, <1>2, <1>3, <1>4, <1>5

LEMMA DropCacheOf ==
  ASSUME NEW c, NEW m, IsDropCache(c, m)
  PROVE  /\ RequiresDropCache(c)
         /\ \E ns \in Range(Nss(c)) : \E dep \in Deps(c) : \E r \in 1..c.replicas :
               /\ m = DropCachePod(c, DropCacheName(c, ns, dep, r), ns, PlainName(c, ns, dep, NoRole, r))
               /\ m.kind = "Pod" /\ m.ns = ns /\ m.name = MkPodName(c, DropCacheName(c, ns, dep, r))
<1>1. PICK ns \in Range(Nss(c)) : \E dep \in Deps(c) : m \in PlanDropCache(c, ns, dep) BY DEF IsDropCache
<1>2. PICK dep \in Deps(c) : m \in PlanDropCache(c, ns, dep) BY <1>1
<1>3. RequiresDropCache(c) BY <1>2 DEF PlanDropCache
<1>4. PICK r \in 1..c.replicas : m = DropCachePod(c, DropCacheName(c, ns, dep, r), ns, DepName(c, ns, dep) \o <<N(r)>>)
  BY <1>2, <1>3 DEF PlanDropCache, DropCacheName
<1>5. m = DropCachePod(c, DropCacheName(c, ns, dep, r), ns, PlainName(c, ns, dep, NoRole, r))
  BY <1>4 DEF PlainName, Base, NoRole
<1> QED BY <1>3, <1>5, DropCachePodIs

LEMMA WorkloadOf ==
  ASSUME NEW c, NEW m, IsWorkload(c, m)
  PROVE  \E ns \in Range(Nss(c)) : \E dep \in Deps(c) : \E role \in Roles(c) : \E r \in Copies(c, role) :
            /\ m = Worker(c, ns, dep, role, r, FirstAddress(c, 1, dep))
            /\ m.kind = WorkerKind(c, role) /\ m.ns = ns /\ m.name = WorkerName(c, ns, dep, role, r)
BY WorkerIs DEF IsWorkload, IsWorker

LEMMA OthersNamed ==
  ASSUME NEW c, NEW m, IsDropCache(c, m) \/ IsWorkload(c, m)
  PROVE  m.kind \in {"VirtualMachine", "ReplicaSet", "Deployment", "Pod"} /\ m.name # MkPodName(c, SyncPodName) /\ m.name # SyncPodName
<1>1. CASE IsDropCache(c, m) BY <1>1, DropCacheOf, WorkerNamed
<1>2. CASE IsWorkload(c, m) BY <1>2, WorkloadOf, WorkerNamed DEF WorkerKind
<1> QED BY <1>1, <1>2

LEMMA SameSync ==
  ASSUME NEW c, IsConfig(c), NEW m, IsSync(c, m), NEW o, IsSync(c, o), m.kind = o.kind, m.ns = o.ns, m.name = o.name
  PROVE  m = o
<1> DEFINE sync == SyncNs(c, Nss(c))
<1>1. CASE m.kind = "ConfigMap" BY <1>1, SyncKinds DEF IsSync, IsSyncMap
<1>2. CASE m.kind = "Pod"
  <2>1. IsSyncPod(c, m) /\ IsSyncPod(c, o) BY <1>2, SyncKinds DEF IsSync
  <2>2. CASE c.podprefix = "" BY <2>1, <2>2 DEF IsSyncPod
  <2>3. CASE c.podprefix # ""
    <3>1. PICK n : m = SyncPodOf(c, <<n>>) BY <2>1, <2>3 DEF IsSyncPod
    <3>2. PICK k : o = SyncPodOf(c, <<k>>) BY <2>1, <2>3 DEF IsSyncPod
    <3>3. Len(<<n>>) = 1 /\ Len(<<k>>) = 1 OBVIOUS
    <3>4. m = SyncPod(c, SyncNs(c, <<n>>), ExpectedClients(c, 1), InitialClients(c, 1)) BY <3>1, <3>3 DEF SyncPodOf
    <3>5. o = SyncPod(c, SyncNs(c, <<k>>), ExpectedClients(c, 1), InitialClients(c, 1)) BY <3>2, <3>3 DEF SyncPodOf
    <3>6. SyncNs(c, <<n>>) = SyncNs(c, <<k>>) BY <3>4, <3>5, SyncPodIs
    <3> QED BY <3>4, <3>5, <3>6
  <2> QED BY <2>2, <2>3
<1>3. CASE m.kind \notin {"ConfigMap", "Pod"}
  <2>1. IsServerService(c, m) \/ IsSyncService(c, m) \/ IsExternal(c, m) BY <1>3, SyncKinds DEF IsSync
  <2>2. IsServerService(c, o) \/ IsSyncService(c, o) \/ IsExternal(c, o) BY <1>3, SyncKinds DEF IsSync
  <2>3. \A s : IsSyncService(c, s) => s.ns = sync /\ s.name = SyncService BY PlainIs DEF IsSyncService
  <2>4. \A s : IsExternal(c, s) => s.ns # sync /\ s.name = SyncService /\ s = ExternalService(SyncService, s.ns, SyncService \o sync)
    BY PlainIs DEF IsExternal
  <2>5. ASSUME NEW s, IsServerService(c, s) PROVE s.name # SyncService
    <3>1. PICK ns \in Range(Nss(c)), dep \in Deps(c) : s \in PlanServices(c, ns, dep) BY <2>5 DEF IsServerService
    <3>2. PICK x : ns = NsName(x) BY NsForm
    <3>3. IsSeq(s.name, 6) BY <3>1, <3>2, ServiceOf, ServerNameIs
    <3> QED BY <3>3, SyncServiceIs, SameSeq
  <2>6. CASE IsServerService(c, m) /\ IsServerService(c, o)
    <3>1. PICK ns \in Range(Nss(c)), d \in Deps(c) : m \in PlanServices(c, ns, d) BY <2>6 DEF IsServerService
    <3>2. PICK ns2 \in Range(Nss(c)), e \in Deps(c) : o \in PlanServices(c, ns2, e) BY <2>6 DEF IsServerService
    <3>3. ns2 = ns BY <3>1, <3>2, ServiceOf
    <3>4. PICK x : ns = NsName(x) BY NsForm
    <3>5. ServerName(c, NsName(x), d) = ServerName(c, NsName(x), e) BY <3>1, <3>2, <3>3, <3>4, ServiceOf
    <3>6. N(d) = N(e) BY <3>5, ServerNameIs
    <3>7. d = e BY <3>6, Numerals
    <3> QED BY <3>1, <3>2, <3>3, <3>7, ServiceOf
  <2>7. CASE ~IsServerService(c, m) /\ ~IsServerService(c, o)
    BY <2>1, <2>2, <2>3, <2>4, <2>7 DEF IsSyncService
  <2> QED BY <2>1, <2>2, <2>3, <2>4, <2>5, <2>6, <2>7
<1> QED BY <1>1, <1>2, <1>3

LEMMA SameWorkload ==
  ASSUME NEW c, IsConfig(c), NEW m, IsWorkload(c, m), NEW o, IsWorkload(c, o), m.ns = o.ns, m.name = o.name
  PROVE  m = o
<1>1. PICK ns \in Range(Nss(c)), d \in Deps(c), role \in Roles(c) : \E r \in Copies(c, role) :
         m = Worker(c, ns, d, role, r, FirstAddress(c, 1, d)) /\ m.ns = ns /\ m.name = WorkerName(c, ns, d, role, r)
  BY WorkloadOf
<1>2. PICK r \in Copies(c, role) :
         m = Worker(c, ns, d, role, r, FirstAddress(c, 1, d)) /\ m.ns = ns /\ m.name = WorkerName(c, ns, d, role, r)
  BY <1>1
<1>3. PICK ns2 \in Range(Nss(c)), e \in Deps(c), part \in Roles(c) : \E q \in Copies(c, part) :
         o = Worker(c, ns2, e, part, q, FirstAddress(c, 1, e)) /\ o.ns = ns2 /\ o.name = WorkerName(c, ns2, e, part, q)
  BY WorkloadOf
<1>4. PICK q \in Copies(c, part) :
         o = Worker(c, ns2, e, part, q, FirstAddress(c, 1, e)) /\ o.ns = ns2 /\ o.name = WorkerName(c, ns2, e, part, q)
  BY <1>3
<1>5. PICK x : ns = NsName(x) BY NsForm
<1>6. ns2 = ns BY <1>2, <1>4
<1>7. role = part /\ N(d) = N(e) /\ N(r) = N(q)
  <2>1. WorkerName(c, NsName(x), d, role, r) = WorkerName(c, NsName(x), e, part, q) BY <1>2, <1>4, <1>5, <1>6
  <2>2. PICK i, j : IsSeq(PlainName(c, NsName(x), d, role, r), i) /\ IsSeq(PlainName(c, NsName(x), e, part, q), j)
    BY IsSeqOfPlainName
  <2>3. PlainName(c, NsName(x), d, role, r) = PlainName(c, NsName(x), e, part, q) BY <2>1, <2>2, PrefixIs DEF WorkerName
  <2> QED BY <2>3, SamePlainName
<1>8. d = e /\ r = q BY <1>7, Numerals
<1> QED BY <1>2, <1>4, <1>6, <1>7, <1>8

LEMMA SameDropCache ==
  ASSUME NEW c, IsConfig(c), NEW m, IsDropCache(c, m), NEW o, IsDropCache(c, o), m.ns = o.ns, m.name = o.name
  PROVE  m = o
<1>1. PICK ns \in Range(Nss(c)), d \in Deps(c), r \in 1..c.replicas :
         /\ m = DropCachePod(c, DropCacheName(c, ns, d, r), ns, PlainName(c, ns, d, NoRole, r))
         /\ m.ns = ns /\ m.name = MkPodName(c, DropCacheName(c, ns, d, r))
  BY DropCacheOf
<1>2. PICK ns2 \in Range(Nss(c)), e \in Deps(c), q \in 1..c.replicas :
         /\ o = DropCachePod(c, DropCacheName(c, ns2, e, q), ns2, PlainName(c, ns2, e, NoRole, q))
         /\ o.ns = ns2 /\ o.name = MkPodName(c, DropCacheName(c, ns2, e, q))
  BY DropCacheOf
<1>3. PICK x : ns = NsName(x) BY NsForm
<1>4. ns2 = ns BY <1>1, <1>2
<1>5. N(d) = N(e) /\ N(r) = N(q) BY <1>1, <1>2, <1>3, <1>4, SameDropCacheName
<1>6. NoRole \in Roles(c) /\ Copies(c, NoRole) = 1..c.replicas
  <2>1. ~IsClientServer(c) BY DropCacheOf, DropCacheRoles
  <2> QED BY <2>1 DEF Roles, Copies, NoRole
<1>7. d = e /\ r = q BY <1>5, <1>6, Numerals
<1> QED BY <1>1, <1>2, <1>4, <1>7

LEMMA DropCacheIsNoWorkload ==
  ASSUME NEW c, IsConfig(c), NEW m, IsDropCache(c, m), NEW o, IsWorkload(c, o), m.kind = o.kind
  PROVE  m.name # o.name
<1>1. PICK ns \in Range(Nss(c)), d \in Deps(c), r \in 1..c.replicas :
         m.kind = "Pod" /\ m.name = MkPodName(c, DropCacheName(c, ns, d, r))
  BY DropCacheOf
<1>2. PICK ns2 \in Range(Nss(c)), e \in Deps(c), part \in Roles(c) : \E q \in Copies(c, part) :
         o.kind = WorkerKind(c, part) /\ o.name = WorkerName(c, ns2, e, part, q)
  BY WorkloadOf
<1>3. PICK q \in Copies(c, part) : o.kind = WorkerKind(c, part) /\ o.name = WorkerName(c, ns2, e, part, q)
  BY <1>2
<1>4. part = NoRole
  <2>1. ~IsClientServer(c) BY DropCacheOf, DropCacheRoles
  <2> QED BY <2>1 DEF Roles, NoRole
<1>5. o.name = MkPodName(c, PlainName(c, ns2, e, NoRole, q))
  <2>1. c.dtype # "vm" BY <1>1, <1>3 DEF WorkerKind
  <2> QED BY <1>3, <1>4, <2>1 DEF WorkerName
<1>6. PICK x, y : ns = NsName(x) /\ ns2 = NsName(y) BY NsForm
<1> QED BY <1>1, <1>5, <1>6, DropCacheNamed

LEMMA SameObject ==
  ASSUME NEW c, IsConfig(c), NEW m \in Objects(c), NEW o \in Objects(c), m.kind = o.kind, m.ns = o.ns, m.name = o.name
  PROVE  m = o
<1>1. \A a : IsSync(c, a) => a.kind \in {"Service", "ConfigMap"} \/ (a.kind = "Pod" /\ a.name = MkPodName(c, SyncPodName))
  BY SyncKinds DEF IsSync
<1>2. \A a, b : IsSync(c, a) /\ (IsDropCache(c, b) \/ IsWorkload(c, b)) => a.kind # b.kind \/ a.name # b.name
  BY <1>1, OthersNamed
<1>3. CASE IsSync(c, m) /\ IsSync(c, o) BY <1>3, SameSync
<1>4. CASE IsWorkload(c, m) /\ IsWorkload(c, o) BY <1>4, SameWorkload
<1>5. CASE IsDropCache(c, m) /\ IsDropCache(c, o) BY <1>5, SameDropCache
<1> QED BY <1>2, <1>3, <1>4, <1>5, ObjectIs, DropCacheIsNoWorkload

-----------------------------------------------------------------------------
(***************************************************************************)
(* The addresses of machines.                                              *)
(***************************************************************************)
Offset(role, r) == IF role = "client" THEN 1 + r ELSE r

LEMMA AddressIs ==
  ASSUME NEW c, c.dtype = "vm", NEW ns, NEW dep \in Int, NEW role, NEW r \in Int, NEW first \in Int
  PROVE  Worker(c, ns, dep, role, r, first).address = first + Offset(role, r)
<1>1. Worker(c, ns, dep, role, r, first).address = IF role = "client" THEN first + 1 + r ELSE first + r
  BY DEF Worker, VirtualMachine, Manifest
<1> QED BY <1>1 DEF Offset

LEMMA Blocks ==
  ASSUME NEW d \in Nat, NEW e \in Nat, NEW v \in Nat, NEW i \in 1..v, NEW j \in 1..v, d * v + i = e * v + j
  PROVE  d = e /\ i = j
<1>1. \A a, b \in Nat : a < b => a * v + v <= b * v
  <2>1. TAKE a, b \in Nat
  <2>2. ASSUME a < b PROVE a * v + v <= b * v
    <3>1. b - a - 1 \in Nat BY <2>2
    <3>2. (b - a - 1) * v \in Nat BY <3>1
    <3>3. (b - a - 1) * v = b * v - a * v - v OBVIOUS
    <3>4. a * v \in Nat /\ b * v \in Nat OBVIOUS
    <3> QED BY <3>2, <3>3, <3>4
  <2> QED BY <2>2
<1>2. d * v \in Nat /\ e * v \in Nat OBVIOUS
<1>3. ~(d < e) BY <1>1, <1>2
<1>4. ~(e < d) BY <1>1, <1>2
<1>5. d = e BY <1>3, <1>4
<1> QED BY <1>2, <1>5

LEMMA MachineOf ==
  ASSUME NEW c, IsConfig(c), NEW m \in Objects(c), m.kind = "VirtualMachine"
  PROVE  c.dtype = "vm" /\ IsWorkload(c, m)
<1>1. IsWorkload(c, m) BY ObjectIs, SyncKinds, DropCacheOf DEF IsSync
<1> QED BY <1>1, WorkloadOf DEF WorkerKind

LEMMA SameAddress ==
  ASSUME NEW c, IsConfig(c), NEW m \in Objects(c), NEW o \in Objects(c),
         m.kind = "VirtualMachine", o.kind = m.kind, m.ns = o.ns, m.address = o.address
  PROVE  m = o
<1>1. c.dtype = "vm" /\ IsWorkload(c, m) /\ IsWorkload(c, o) BY MachineOf
<1>2. c.deps \in Nat /\ c.replicas \in Nat /\ c.firstdep \in Nat BY DEF IsConfig
<1>3. VmsPerDep(c) \in Nat BY <1>2 DEF VmsPerDep
<1>4. ASSUME NEW s, IsWorkload(c, s)
      PROVE  \E d \in Deps(c), role \in Roles(c) : \E r \in Copies(c, role) :
                /\ s = Worker(c, s.ns, d, role, r, FirstAddress(c, 1, d))
                /\ s.address = (d - c.firstdep) * VmsPerDep(c) + Offset(role, r)
                /\ d - c.firstdep \in Nat /\ Offset(role, r) \in 1..VmsPerDep(c)
  <2>1. PICK d \in Deps(c), role \in Roles(c) : \E r \in Copies(c, role) : s = Worker(c, s.ns, d, role, r, FirstAddress(c, 1, d))
    BY <1>4, WorkloadOf
  <2>2. PICK r \in Copies(c, role) : s = Worker(c, s.ns, d, role, r, FirstAddress(c, 1, d)) BY <2>1
  <2>3. d \in Nat /\ d - c.firstdep \in Nat BY <1>2 DEF Deps
  <2>4. r \in Nat BY <1>2 DEF Copies
  <2>5. Offset(role, r) \in 1..VmsPerDep(c)
    <3>1. CASE IsClientServer(c)
      <4>1. role \in {"server", "client"} BY <3>1 DEF Roles
      <4>2. (role = "server" => r = 1) /\ (role # "server" => r \in 1..c.replicas) BY DEF Copies
      <4>3. VmsPerDep(c) = c.replicas + 1 BY <3>1 DEF VmsPerDep
      <4> QED BY <1>2, <4>1, <4>2, <4>3 DEF Offset
    <3>2. CASE ~IsClientServer(c)
      <4>1. role = "" /\ r \in 1..c.replicas BY <3>2 DEF Roles, Copies
      <4>2. VmsPerDep(c) = c.replicas BY <1>2, <3>2 DEF VmsPerDep
      <4> QED BY <1>2, <4>1, <4>2 DEF Offset
    <3> QED BY <3>1, <3>2
  <2>6. (1 - 1) * c.deps = 0 BY <1>2
  <2>7. FirstAddress(c, 1, d) = (d - c.firstdep) * VmsPerDep(c) BY <1>2, <2>3, <2>6 DEF FirstAddress
  <2>8. FirstAddress(c, 1, d) \in Int BY <1>3, <2>3, <2>7
  <2>9. s.address = FirstAddress(c, 1, d) + Offset(role, r) BY <1>1, <2>2, <2>3, <2>4, <2>8, AddressIs
  <2> QED BY <2>2, <2>3, <2>5, <2>7, <2>9
<1>5. PICK d \in Deps(c), role \in Roles(c) : \E r \in Copies(c, role) :
        /\ m = Worker(c, m.ns, d, role, r, FirstAddress(c, 1, d))
        /\ m.address = (d - c.firstdep) * VmsPerDep(c) + Offset(role, r)
        /\ d - c.firstdep \in Nat /\ Offset(role, r) \in 1..VmsPerDep(c)
  BY <1>1, <1>4
<1>6. PICK r \in Copies(c, role) :
        /\ m = Worker(c, m.ns, d, role, r, FirstAddress(c, 1, d))
        /\ m.address = (d - c.firstdep) * VmsPerDep(c) + Offset(role, r)
        /\ d - c.firstdep \in Nat /\ Offset(role, r) \in 1..VmsPerDep(c)
  BY <1>5
<1>7. PICK e \in Deps(c), part \in Roles(c) : \E q \in Copies(c, part) :
        /\ o = Worker(c, o.ns, e, part, q, FirstAddress(c, 1, e))
        /\ o.address = (e - c.firstdep) * VmsPerDep(c) + Offset(part, q)
        /\ e - c.firstdep \in Nat /\ Offset(part, q) \in 1..VmsPerDep(c)
  BY <1>1, <1>4
<1>8. PICK q \in Copies(c, part) :
        /\ o = Worker(c, o.ns, e, part, q, FirstAddress(c, 1, e))
        /\ o.address = (e - c.firstdep) * VmsPerDep(c) + Offset(part, q)
        /\ e - c.firstdep \in Nat /\ Offset(part, q) \in 1..VmsPerDep(c)
  BY <1>7
<1>9. d - c.firstdep = e - c.firstdep /\ Offset(role, r) = Offset(part, q)
  <2>1. (d - c.firstdep) * VmsPerDep(c) + Offset(role, r) = (e - c.firstdep) * VmsPerDep(c) + Offset(part, q)
    BY <1>6, <1>8
  <2>2. PICK i, j : i = d - c.firstdep /\ j = e - c.firstdep OBVIOUS
  <2>3. i \in Nat /\ j \in Nat /\ Offset(role, r) \in 1..VmsPerDep(c) /\ Offset(part, q) \in 1..VmsPerDep(c)
    BY <1>6, <1>8, <2>2
  <2>4. i * VmsPerDep(c) + Offset(role, r) = j * VmsPerDep(c) + Offset(part, q) BY <2>1, <2>2
  <2>5. i = j /\ Offset(role, r) = Offset(part, q) BY <1>3, <2>3, <2>4, Blocks
  <2> QED BY <2>2, <2>5
<1>10. d = e BY <1>2, <1>9 DEF Deps
<1>11. role = part /\ r = q
  <2>1. CASE IsClientServer(c)
    <3>1. role \in {"server", "client"} /\ part \in {"server", "client"} BY <2>1 DEF Roles
    <3>2. (role = "server" => r = 1) /\ (part = "server" => q = 1) BY DEF Copies
    <3>3. (role = "client" => r \in 1..c.replicas) /\ (part = "client" => q \in 1..c.replicas) BY DEF Copies
    <3> QED BY <1>2, <1>9, <3>1, <3>2, <3>3 DEF Offset
  <2>2. CASE ~IsClientServer(c) BY <1>9, <2>2 DEF Roles, Offset
  <2> QED BY <2>1, <2>2
<1> QED BY <1>6, <1>8, <1>10, <1>11

LEMMA ObjectsUnique == ASSUME NEW c, IsConfig(c) PROVE OneName(Objects(c))
BY SameObject, SameAddress DEF OneName

-----------------------------------------------------------------------------
(***************************************************************************)
(* The names that a second run with --scale-deployments begins with.       *)
(***************************************************************************)
LEMMA SeqLen == ASSUME NEW s, NEW n, IsSeq(s, n) PROVE Len(s) = n
<1>1. n \in Nat /\ s = [i \in 1..n |-> s[i]] BY DEF IsSeq
<1>2. s \in [1..n -> Range(s)] BY <1>1 DEF Range
<1> QED BY <1>1, <1>2

LEMMA LastOfName ==
  ASSUME NEW c, NEW ns \in Range(Nss(c)), NEW dep, NEW role, NEW r, NEW s, s = WorkerName(c, ns, dep, role, r)
  PROVE  s[Len(s)] = N(r)
<1>1. PICK x : ns = NsName(x) BY NsForm
<1>2. PICK t : t = PlainName(c, NsName(x), dep, role, r) OBVIOUS
<1>3. PICK n \in Nat \ {0} : IsSeq(t, n) /\ t[n] = N(r)
  <2>1. CASE role = NoRole BY <1>2, <2>1, PlainOfDep
  <2>2. CASE role # NoRole BY <1>2, <2>2, PlainOfRole
  <2> QED BY <2>1, <2>2
<1> DEFINE p == <<c.podprefix>>
<1>4. IsSeq(p, 1) BY Tuples
<1>5. s = t \/ s = Cat(p, t) BY <1>1, <1>2 DEF WorkerName, MkPodName, Cat
<1> HIDE DEF p
<1>6. IsSeq(Cat(p, t), 1 + n) /\ Cat(p, t)[1 + n] = t[n] BY <1>3, <1>4, CatIs
<1> QED BY <1>3, <1>5, <1>6, SeqLen

LEMMA WorkersCreated ==
  ASSUME NEW c, IsConfig(c), NEW ns \in Range(Nss(c)), NEW dep \in Deps(c), NEW role \in Roles(c), NEW r \in Copies(c, role)
  PROVE  Worker(c, ns, dep, role, r, FirstAddress(c, 1, dep)) \in Objects(c)
<1> DEFINE m == Worker(c, ns, dep, role, r, FirstAddress(c, 1, dep))
           one == <<ns>>
<1>1. c.syncstart \in BOOLEAN BY DEF IsConfig
<1>2. IsWorker(c, ns, dep, FirstAddress(c, 1, dep), m) BY DEF IsWorker
<1>3. 1 \in DOMAIN one /\ one[1] = ns OBVIOUS
<1> HIDE DEF m
<1>4. m \in PlanDeployment(c, ns, dep, FirstAddress(c, 1, dep)) BY <1>2, WorkersOfDeployment
<1> HIDE DEF one
<1>5. m \in BuildManifestPlan(c, one) BY <1>1, <1>3, <1>4, InPlan
<1>6. m.kind \notin InfraKinds /\ m.name # SyncPodName BY <1>2, PartsOfDeployment DEF InfraKinds
<1>7. m \in DeploymentsOf(c, ns) BY <1>5, <1>6 DEF DeploymentsOf, one
<1> QED BY <1>7 DEF Objects, Created, m

\* The deployments of a configuration.
LEMMA DeploymentOf ==
  ASSUME NEW c, IsConfig(c), NEW m \in Deployments(c)
  PROVE  /\ c.dtype = "deployment"
         /\ \E ns \in Range(Nss(c)) : \E dep \in Deps(c) : \E role \in Roles(c) \ {"server"} : \E r \in 1..c.replicas :
               m.name = WorkerName(c, ns, dep, role, r)
<1>1. m \in Objects(c) /\ m.kind = "Deployment" BY DEF Deployments
<1>2. IsWorkload(c, m) BY <1>1, ObjectIs, SyncKinds, DropCacheOf DEF IsSync
<1>3. PICK ns \in Range(Nss(c)), dep \in Deps(c), role \in Roles(c) : \E r \in Copies(c, role) :
         m.kind = WorkerKind(c, role) /\ m.name = WorkerName(c, ns, dep, role, r)
  BY <1>2, WorkloadOf
<1>4. c.dtype = "deployment" /\ role # "server" BY <1>1, <1>3 DEF WorkerKind
<1>5. Copies(c, role) = 1..c.replicas BY <1>4 DEF Copies
<1> QED BY <1>3, <1>4, <1>5

LEMMA FirstFree ==
  ASSUME NEW c, IsConfig(c), Deployments(c) # {}
  PROVE  FindFirstDeployment(Deployments(c)) = 1 + c.replicas
<1> DEFINE indices == {m.name[Len(m.name)] : m \in Deployments(c)}
           S == {i \in 0..MaxNumber : N(i) \in indices}
<1>1. c.replicas \in Nat /\ c.replicas <= MaxNumber /\ MaxNumber \in Nat BY NumeralAssumption DEF IsConfig
<1>2. \A i, j \in 0..MaxNumber : N(i) = N(j) => i = j BY NumeralAssumption
<1>3. ASSUME NEW m \in Deployments(c) PROVE \E r \in 1..c.replicas : m.name[Len(m.name)] = N(r)
  <2>1. PICK ns \in Range(Nss(c)), dep \in Deps(c), role \in Roles(c) : \E r \in 1..c.replicas :
           m.name = WorkerName(c, ns, dep, role, r)
    BY DeploymentOf
  <2> QED BY <2>1, LastOfName
<1>4. S \subseteq 1..c.replicas BY <1>1, <1>2, <1>3
<1>5. c.replicas \in S
  <2>1. PICK m0 \in Deployments(c) : TRUE OBVIOUS
  <2>2. PICK ns \in Range(Nss(c)), dep \in Deps(c), role \in Roles(c) \ {"server"} : \E r \in 1..c.replicas : TRUE
    BY DeploymentOf
  <2>3. c.dtype = "deployment" BY <2>1, DeploymentOf
  <2>4. c.replicas \in Copies(c, role) BY <1>1, <2>2 DEF Copies
  <2>5. PICK m : m = Worker(c, ns, dep, role, c.replicas, FirstAddress(c, 1, dep)) OBVIOUS
  <2>6. m \in Objects(c) BY <2>2, <2>4, <2>5, WorkersCreated
  <2>7. m.kind = WorkerKind(c, role) /\ m.name = WorkerName(c, ns, dep, role, c.replicas) BY <2>5, WorkerIs
  <2>8. WorkerKind(c, role) = "Deployment" BY <2>2, <2>3 DEF WorkerKind
  <2>9. m \in Deployments(c) BY <2>6, <2>7, <2>8 DEF Deployments
  <2>10. m.name[Len(m.name)] = N(c.replicas) BY <2>7, LastOfName
  <2> QED BY <1>1, <2>9, <2>10
<1>6. indices # {} OBVIOUS
<1>7. FindFirstDeployment(Deployments(c)) = 1 + Max(S) BY <1>6 DEF FindFirstDeployment
<1> HIDE DEF S
<1>8. Max(S) = c.replicas
  <2>1. \A y \in S : c.replicas >= y BY <1>1, <1>4
  <2>2. PICK x : x = Max(S) OBVIOUS
  <2>3. x \in S /\ \A y \in S : x >= y BY <1>5, <2>1, <2>2 DEF Max
  <2> QED BY <1>1, <1>4, <1>5, <2>2, <2>3
<1> QED BY <1>7, <1>8

LEMMA AddedUnique ==
  ASSUME NEW c, IsConfig(c), c.firstdep + c.deps <= c.replicas + 1
  PROVE  {m.name : m \in Added(c)} \cap {m.name : m \in Deployments(c)} = {}
<1> SUFFICES ASSUME NEW m \in Added(c), NEW o \in Deployments(c), m.name = o.name PROVE FALSE OBVIOUS
<1> DEFINE first == FindFirstDeployment(Deployments(c))
<1>1. first = 1 + c.replicas BY FirstFree
<1>2. PICK d : d = [c EXCEPT !.firstdep = first] OBVIOUS
<1>3. m \in Deployments(d) BY <1>2 DEF Added
<1>4. c.deps \in Nat /\ c.replicas \in Nat /\ c.firstdep \in Nat
      /\ c.firstdep + c.deps <= MaxNumber + 1 /\ c.deps + c.replicas <= MaxNumber
      /\ "firstdep" \in DOMAIN c
  BY DEF IsConfig, ConfigFields, Defaults
<1>5. d.firstdep = 1 + c.replicas /\ DOMAIN d = DOMAIN c /\ \A f \in DOMAIN c \ {"firstdep"} : d[f] = c[f] BY <1>1, <1>2, <1>4
<1>6. d.deps = c.deps /\ d.replicas = c.replicas /\ d.resolved = c.resolved /\ d.dtype = c.dtype
      /\ d.podprefix = c.podprefix
  BY <1>2
<1>7. IsConfig(d)
  <2>1. d.namespaces = c.namespaces /\ d.syncstart = c.syncstart /\ d.syncfirst = c.syncfirst
        /\ d.secrets = c.secrets /\ d.containers = c.containers /\ d.volumes = c.volumes
        /\ d.processes = c.processes
    BY <1>2
  <2>2. 1 + c.replicas + c.deps <= MaxNumber + 1 BY <1>4, NumeralAssumption
  <2> QED BY <1>4, <1>5, <1>6, <2>1, <2>2 DEF IsConfig
<1>8. PICK ns \in Range(Nss(c)), dep \in Deps(c), role \in Roles(c) : \E r \in 1..c.replicas :
         o.name = WorkerName(c, ns, dep, role, r)
  BY DeploymentOf
<1>9. PICK r \in 1..c.replicas : o.name = WorkerName(c, ns, dep, role, r) BY <1>8
<1>10. PICK ns2 \in Range(Nss(d)), e \in Deps(d), part \in Roles(d) : \E q \in 1..d.replicas :
         m.name = WorkerName(d, ns2, e, part, q)
  BY <1>3, <1>7, DeploymentOf
<1>11. PICK q \in 1..d.replicas : m.name = WorkerName(d, ns2, e, part, q) BY <1>10
<1>12. Roles(d) = Roles(c) BY <1>6 DEF Roles, IsClientServer
<1>13. WorkerName(d, ns2, e, part, q) = WorkerName(c, ns2, e, part, q)
  BY <1>6 DEF WorkerName, PlainName, Base, DepName, RoleName, MkPodName
<1>14. PICK x, y : ns = NsName(x) /\ ns2 = NsName(y) BY NsForm
<1>15. N(dep) = N(e)
  <2>1. WorkerName(c, NsName(x), dep, role, r) = WorkerName(c, NsName(y), e, part, q) BY <1>9, <1>11, <1>13, <1>14
  <2>2. PICK i, j : IsSeq(PlainName(c, NsName(x), dep, role, r), i) /\ IsSeq(PlainName(c, NsName(y), e, part, q), j)
    BY IsSeqOfPlainName
  <2>3. PlainName(c, NsName(x), dep, role, r) = PlainName(c, NsName(y), e, part, q) BY <2>1, <2>2, PrefixIs DEF WorkerName
  <2> QED BY <1>12, <2>3, SamePlainName
<1>16. dep \in 0..MaxNumber /\ dep <= c.replicas
  <2>1. dep \in Int /\ 0 <= dep /\ dep <= c.firstdep + c.deps - 1 BY <1>4 DEF Deps
  <2> QED BY <1>4, <2>1, NumeralAssumption
<1>17. e \in 0..MaxNumber /\ e > c.replicas
  <2>1. e \in (1 + c.replicas)..(1 + c.replicas + c.deps - 1) BY <1>5, <1>6 DEF Deps
  <2> QED BY <1>4, <2>1, NumeralAssumption
<1> QED BY <1>4, <1>15, <1>16, <1>17, NumeralAssumption

-----------------------------------------------------------------------------
(***************************************************************************)
(* What is planned is what a command line says.                            *)
(***************************************************************************)
PlanInv ==
    /\ \E i \in DOMAIN Builders : builder = Builders[i]
    /\ Planned => cfg = Build(builder) /\ ~Rejected(builder)

LEMMA PostStage ==
  ASSUME stage = "running", NEW command, NEW ms, NEW ws, Post(command, ms, ws)
  PROVE  stage' \in {"running", "finished", "failed"}
BY DEF Post

LEMMA PodsFrame ==
  ASSUME Pods \/ Fault
  PROVE  UNCHANGED <<driverVars, podVars>> /\ stage' \in {"running", "finished", "failed"}
<1>1. ASSUME NEW k \in DOMAIN mains, MainConnects(k) \/ MainAborts(k) \/ MainForks(k) \/ MainReaps(k)
      PROVE  UNCHANGED <<driverVars, podVars>> /\ stage' \in {"running", "finished", "failed"}
  BY <1>1, PostStage DEF MainConnects, MainAborts, MainForks, MainReaps
<1>2. ASSUME NEW w \in DOMAIN team, Proceeds(w) \/ Raises(w), stage = "running"
      PROVE  UNCHANGED <<driverVars, podVars>> /\ stage' \in {"running", "finished", "failed"}
  BY <1>2 DEF Proceeds, Raises
<1>3. ASSUME NEW w \in DOMAIN team, Syncs(w) \/ Reports(w) \/ Ends(w)
      PROVE  UNCHANGED <<driverVars, podVars>> /\ stage' \in {"running", "finished", "failed"}
  BY <1>3, PostStage DEF Syncs, Reports, Ends, At
<1>4. ASSUME NEW w \in DOMAIN team, Clears(w) \/ Makes(w) \/ Drops(w) \/ RemovesOld(w) \/ MakesForProcess(w) \/ Needs(w)
      PROVE  UNCHANGED <<driverVars, podVars>> /\ stage' \in {"running", "finished", "failed"}
  BY <1>2, <1>4 DEF Clears, Makes, Drops, RemovesOld, MakesForProcess, Needs, At
<1>5. ASSUME NEW w \in DOMAIN team,
             Connects(w) \/ Serves(w) \/ Probes(w) \/ StartsDb(w) \/ Works(w) \/ ClockTicks(w) \/ Throws(w)
      PROVE  UNCHANGED <<driverVars, podVars>> /\ stage' \in {"running", "finished", "failed"}
  BY <1>2, <1>5 DEF Connects, Serves, Probes, StartsDb, Works, ClockTicks, Throws, At
<1>6. ASSUME NEW w \in DOMAIN team, OpFails(w) \/ Killed(w)
      PROVE  UNCHANGED <<driverVars, podVars>> /\ stage' \in {"running", "finished", "failed"}
  BY <1>2, <1>6 DEF OpFails, Killed, At
<1> QED BY <1>1, <1>3, <1>4, <1>5, <1>6 DEF Pods, Fault

LEMMA RunningBefore == ASSUME Pods \/ Fault PROVE stage = "running"
<1>1. ASSUME NEW k \in DOMAIN mains, MainConnects(k) \/ MainAborts(k) \/ MainForks(k) \/ MainReaps(k) PROVE stage = "running"
  BY <1>1 DEF MainConnects, MainAborts, MainForks, MainReaps
<1>2. ASSUME NEW w \in DOMAIN team, Syncs(w) \/ Reports(w) \/ Ends(w) PROVE stage = "running"
  BY <1>2 DEF Syncs, Reports, Ends, At
<1>3. ASSUME NEW w \in DOMAIN team, Clears(w) \/ Makes(w) \/ Drops(w) \/ RemovesOld(w) \/ MakesForProcess(w) \/ Needs(w)
      PROVE  stage = "running"
  BY <1>3 DEF Clears, Makes, Drops, RemovesOld, MakesForProcess, Needs, At
<1>4. ASSUME NEW w \in DOMAIN team,
             Connects(w) \/ Serves(w) \/ Probes(w) \/ StartsDb(w) \/ Works(w) \/ ClockTicks(w) \/ Throws(w)
      PROVE  stage = "running"
  BY <1>4 DEF Connects, Serves, Probes, StartsDb, Works, ClockTicks, Throws, At
<1>5. ASSUME NEW w \in DOMAIN team, OpFails(w) \/ Killed(w) PROVE stage = "running" BY <1>5 DEF OpFails, Killed, At
<1> QED BY <1>1, <1>2, <1>3, <1>4, <1>5 DEF Pods, Fault

LEMMA PlanInvariant == Spec => []PlanInv
<1>1. Init => PlanInv BY DEF Init, PlanInv, Planned
<1>2. ASSUME PlanInv, [Next]_vars PROVE PlanInv'
  <2>1. CASE Refuse BY <1>2, <2>1 DEF Refuse, PlanInv, Planned, driverVars
  <2>2. CASE Plan BY <1>2, <2>2 DEF Plan, PlanInv, Planned
  <2>3. CASE Create BY <1>2, <2>3 DEF Create, PlanInv, Planned, driverVars
  <2>4. CASE Pods \/ Fault BY <1>2, <2>4, PodsFrame DEF PlanInv, Planned, driverVars
  <2>5. CASE UNCHANGED vars BY <1>2, <2>5 DEF vars, PlanInv, Planned
  <2> QED BY <1>2, <2>1, <2>2, <2>3, <2>4, <2>5 DEF Next, Driver
<1> QED BY <1>1, <1>2, PTL DEF Spec

LEMMA PlannedConfig == PlanInv /\ Planned => IsConfig(cfg)
<1> SUFFICES ASSUME PlanInv, Planned PROVE IsConfig(cfg) OBVIOUS
<1>1. IsBuilder(builder) BY BuildersAssumption DEF PlanInv
<1> QED BY <1>1, BuildIsConfig DEF PlanInv

\* For all command lines: no two objects of a plan have the same kind, namespace and name, no two
\* machines of a namespace the same address, and the deployments that a second run adds have new
\* names as long as there is at most one deployment more than replicas (build_manifest_plan,
\* _find_first_deployment).
THEOREM NamesAreUnique == Spec => []NamesUnique
<1>1. PlanInv => NamesUnique
  <2> SUFFICES ASSUME PlanInv, Planned
               PROVE  /\ OneName(Objects(cfg))
                      /\ cfg.firstdep + cfg.deps <= cfg.replicas + 1 =>
                            {m.name : m \in Added(cfg)} \cap {m.name : m \in Deployments(cfg)} = {}
    BY DEF NamesUnique
  <2>1. IsConfig(cfg) BY PlannedConfig
  <2> QED BY <2>1, ObjectsUnique, AddedUnique
<1> QED BY <1>1, PlanInvariant, PTL

-----------------------------------------------------------------------------
(***************************************************************************)
(* Labels.                                                                 *)
(***************************************************************************)
Single(x) == <<x>>

ReplicaKey == Single("replica")

InstanceValue(ns, workload, inst) == ns \o workload \o inst

ReplicaValue(ns, workload, inst, rep, suffix) == ns \o workload \o inst \o rep \o suffix

LEMMA SingleIs == \A x : IsSeq(Single(x), 1) /\ Single(x)[1] = x
BY Tuples DEF Single

\* Only a key of one or two parts is set to "true", only the replica's to a value of several.
LEMMA LabelIs ==
  ASSUME NEW objtype, NEW workload, NEW ns, NEW inst, NEW rep, NEW suffix, NEW isWorker \in BOOLEAN,
         NEW l \in StandardLabels(objtype, workload, ns, inst, rep, suffix, isWorker)
  PROVE  /\ l[2] = True => l[1] = workload \/ \E n \in {1, 2} : IsSeq(l[1], n)
         /\ l[1] = ReplicaKey =>
               \/ IsSeq(l[2], 1)
               \/ workload # <<>> /\ l[2] = ReplicaValue(ns, workload, inst, rep, suffix)
<1>1. CASE \E Key \in {<<Basename>>} \cup (IF isWorker THEN {<<Basename, "workload">>} ELSE {}) \cup
                   (IF workload = <<>> THEN {} ELSE {workload}) : l = <<Key, True>>
  <2>1. l[2] = True /\ (l[1] = <<Basename>> \/ l[1] = <<Basename, "workload">> \/ l[1] = workload) BY <1>1
  <2> QED BY <2>1, Tuples DEF True
<1>2. CASE l[2] = <<"uuid">> BY <1>2, Tuples DEF True
<1>3. CASE l = << <<Basename, "objtype">>, <<objtype>> >>
  <2>1. l[1] = <<Basename, "objtype">> /\ l[2] = <<objtype>> BY <1>3
  <2> QED BY <2>1, Tuples
<1>4. CASE workload # <<>> /\ \E k \in {"name", "app", "instance"} : l[1] = Single(k)
  <2>1. PICK k \in {"name", "app", "instance"} : l[1] = Single(k) BY <1>4
  <2>2. Single(k)[1] = k /\ ReplicaKey[1] = "replica" /\ IsSeq(Single(k), 1) BY SingleIs DEF ReplicaKey
  <2> QED BY <2>1, <2>2
<1>5. CASE workload # <<>> /\ l[1] = ReplicaKey /\ l[2] = ReplicaValue(ns, workload, inst, rep, suffix)
  BY <1>5, SingleIs DEF ReplicaKey
<1> QED BY <1>1, <1>2, <1>3, <1>4, <1>5 DEF StandardLabels, Single, ReplicaKey, ReplicaValue

LEMMA LabelsHave ==
  ASSUME NEW objtype, NEW workload, NEW ns, NEW inst, NEW rep, NEW suffix, NEW isWorker \in BOOLEAN
  PROVE  /\ << <<Basename, "uuid">>, <<"uuid">> >> \in StandardLabels(objtype, workload, ns, inst, rep, suffix, isWorker)
         /\ workload # <<>> =>
               /\ << <<"instance">>, InstanceValue(ns, workload, inst)>> \in
                     StandardLabels(objtype, workload, ns, inst, rep, suffix, isWorker)
               /\ << <<"replica">>, ReplicaValue(ns, workload, inst, rep, suffix)>> \in
                     StandardLabels(objtype, workload, ns, inst, rep, suffix, isWorker)
BY DEF StandardLabels, InstanceValue, ReplicaValue

PlacedBy(c, server) ==
    IF server = <<>> \/ c.affinity = 0 THEN WorkerAffinity(c) ELSE Affinity(c.affinity, <<"instance">>, server)

LEMMA PodHas ==
  ASSUME NEW c, NEW name, NEW ns, NEW dep, NEW r, NEW role, NEW containers, NEW volumes, NEW server
  PROVE  LET p == Pod(c, name, ns, dep, r, role, containers, volumes, server)
         IN /\ p.labels = WorkerLabels(c, ns, dep, r, role) /\ p.affinity = PlacedBy(c, server)
            /\ p.volumes = volumes /\ p.containers = containers
            /\ {"labels", "affinity", "volumes", "containers", "kind", "selector"} \subseteq DOMAIN p
BY DEF Pod, ClientAffinity, PodSpec, Manifest, PlacedBy

LEMMA DeploymentHas ==
  ASSUME NEW c, NEW name, NEW ns, NEW dep, NEW r, NEW role, NEW containers, NEW volumes, NEW server
  PROVE  \A f \in {"labels", "affinity", "volumes", "containers"} :
            /\ Deployment(c, name, ns, dep, r, role, containers, volumes, server)[f] =
                   Pod(c, name, ns, dep, r, role, containers, volumes, server)[f]
            /\ ReplicaSet(c, name, ns, dep, r, role, containers, volumes, server)[f] =
                   Pod(c, name, ns, dep, r, role, containers, volumes, server)[f]
<1> DEFINE p == Pod(c, name, ns, dep, r, role, containers, volumes, server)
<1>1. {"labels", "affinity", "volumes", "containers", "kind", "selector"} \subseteq DOMAIN p BY PodHas
<1>2. Deployment(c, name, ns, dep, r, role, containers, volumes, server) =
        [p EXCEPT !.kind = "Deployment", !.selector = {InstanceOf(p.labels)}]
  BY DEF Deployment
<1> HIDE DEF p
<1>3. PICK d : d = Deployment(c, name, ns, dep, r, role, containers, volumes, server) OBVIOUS
<1>4. DOMAIN d = DOMAIN p /\ \A f \in {"labels", "affinity", "volumes", "containers"} : d[f] = p[f] BY <1>1, <1>2, <1>3
<1>5. ReplicaSet(c, name, ns, dep, r, role, containers, volumes, server) = [d EXCEPT !.kind = "ReplicaSet"]
  BY <1>3 DEF ReplicaSet
<1>6. \A f \in {"labels", "affinity", "volumes", "containers"} : [d EXCEPT !.kind = "ReplicaSet"][f] = d[f]
  BY <1>1, <1>4
<1> QED BY <1>3, <1>4, <1>5, <1>6 DEF p

\* What placing, mounting and selecting look at.
WorkerServer(c, ns, dep, role) == IF role = "client" THEN RoleName(c, ns, "server", dep) ELSE <<>>

VmContainers(c, ns, dep, role) == <<Container("vm", RoleArglist(c, ns, dep, role), BootMounts(c))>>

WorkerVolumes(c, ns, dep, r) == Volumes(c, ns, <<N(dep)>>, <<N(r)>>, TRUE)

WorkerPlaced(c, ns, dep, role) == PlacedBy(c, WorkerServer(c, ns, dep, role))

LEMMA MachineHas ==
  ASSUME NEW c, c.dtype = "vm", NEW ns, NEW dep, NEW role, NEW r, NEW first
  PROVE  /\ Worker(c, ns, dep, role, r, first).labels = WorkerLabels(c, ns, dep, r, role)
         /\ Worker(c, ns, dep, role, r, first).affinity = WorkerAffinity(c)
         /\ Worker(c, ns, dep, role, r, first).volumes = VmVolumes(c, ns)
         /\ Worker(c, ns, dep, role, r, first).disks = DomainDisks(c)
         /\ Worker(c, ns, dep, role, r, first).containers = VmContainers(c, ns, dep, role)
BY DEF Worker, VirtualMachine, Manifest, VmContainers

LEMMA ContainerHas ==
  ASSUME NEW c, c.dtype # "vm", NEW ns, NEW dep, NEW role, NEW r, NEW first
  PROVE  /\ Worker(c, ns, dep, role, r, first).labels = WorkerLabels(c, ns, dep, r, role)
         /\ Worker(c, ns, dep, role, r, first).affinity = WorkerPlaced(c, ns, dep, role)
         /\ Worker(c, ns, dep, role, r, first).volumes = WorkerVolumes(c, ns, dep, r)
         /\ Worker(c, ns, dep, role, r, first).containers = BuildContainers(c, ns, dep, r, role)
<1> DEFINE dtype == IF role = "server" THEN "pod" ELSE c.dtype
           base == Base(c, ns, dep, role)
           server == WorkerServer(c, ns, dep, role)
           name == base \o <<N(r)>>
           containers == BuildContainers(c, ns, dep, r, role)
           volumes == WorkerVolumes(c, ns, dep, r)
           pod == Pod(c, name, ns, dep, r, role, containers, volumes, server)
           m == Worker(c, ns, dep, role, r, first)
<1>1. m = Replica(c, base, ns, dep, role, r, dtype, server) BY DEF Worker, WorkerServer
<1>2. m = CASE dtype = "replicaset" -> ReplicaSet(c, name, ns, dep, r, role, containers, volumes, server)
            [] dtype = "deployment" -> Deployment(c, name, ns, dep, r, role, containers, volumes, server)
            [] OTHER -> pod
  BY <1>1 DEF Replica, WorkerVolumes
<1> HIDE DEF dtype, base, server, name, containers, volumes
<1>3. \A f \in {"labels", "affinity", "volumes", "containers"} : m[f] = pod[f] BY <1>2, DeploymentHas
<1>4. pod.labels = WorkerLabels(c, ns, dep, r, role) /\ pod.affinity = PlacedBy(c, server)
      /\ pod.volumes = volumes /\ pod.containers = containers
  BY PodHas
<1> HIDE DEF pod, m
<1>5. m.labels = pod.labels /\ m.affinity = pod.affinity /\ m.volumes = pod.volumes /\ m.containers = pod.containers
  BY <1>3
<1> QED BY <1>4, <1>5 DEF server, containers, volumes, m, WorkerPlaced

LEMMA WorkerLabelled ==
  ASSUME NEW c, NEW ns, NEW dep, NEW role, NEW r, NEW first
  PROVE  Worker(c, ns, dep, role, r, first).labels = WorkerLabels(c, ns, dep, r, role)
BY MachineHas, ContainerHas

\* The workload's label has one or two parts.
LEMMA WorkloadLabelIs ==
  ASSUME NEW c, NEW role
  PROVE  /\ role = NoRole => IsSeq(WorkloadLabel(c, role), 1) /\ WorkloadLabel(c, role)[1] = c.workload
         /\ role # NoRole => /\ IsSeq(WorkloadLabel(c, role), 2) /\ WorkloadLabel(c, role)[1] = c.resolved
                             /\ WorkloadLabel(c, role)[2] = role
         /\ WorkloadLabel(c, role) # <<>>
<1>1. CASE role = NoRole
  <2>1. WorkloadLabel(c, role) = Single(c.workload) BY <1>1 DEF WorkloadLabel, Single, NoRole
  <2>2. IsSeq(Single(c.workload), 1) /\ Single(c.workload)[1] = c.workload /\ IsSeq(<<>>, 0) BY SingleIs, Tuples
  <2> QED BY <1>1, <2>1, <2>2, SameSeq
<1>2. CASE role # NoRole
  <2> DEFINE t == <<c.resolved, role>>
  <2>1. WorkloadLabel(c, role) = t BY <1>2 DEF WorkloadLabel, NoRole
  <2>2. IsSeq(t, 2) /\ t[1] = c.resolved /\ t[2] = role /\ IsSeq(<<>>, 0) BY Tuples
  <2> HIDE DEF t
  <2> QED BY <1>2, <2>1, <2>2, SameSeq
<1> QED BY <1>1, <1>2

LEMMA InstanceOfWorker ==
  ASSUME NEW c, NEW x, NEW dep, NEW role
  PROVE  LET s == InstanceValue(NsName(x), WorkloadLabel(c, role), Single(N(dep)))
         IN /\ role = NoRole => IsSeq(s, 4) /\ s[1] = Basename /\ s[2] = x /\ s[3] = c.workload /\ s[4] = N(dep)
            /\ role # NoRole => IsSeq(s, 5) /\ s[1] = Basename /\ s[2] = x /\ s[3] = c.resolved /\ s[4] = role /\ s[5] = N(dep)
<1> DEFINE w == WorkloadLabel(c, role)
           a == Cat(NsName(x), w)
           s == Cat(a, Single(N(dep)))
<1>1. s = InstanceValue(NsName(x), w, Single(N(dep))) BY DEF Cat, InstanceValue
<1>2. IsSeq(Single(N(dep)), 1) /\ Single(N(dep))[1] = N(dep) BY SingleIs
<1>3. IsSeq(NsName(x), 2) /\ NsName(x)[1] = Basename /\ NsName(x)[2] = x BY NsNameIs
<1>4. /\ role = NoRole => IsSeq(w, 1) /\ w[1] = c.workload
      /\ role # NoRole => IsSeq(w, 2) /\ w[1] = c.resolved /\ w[2] = role
  BY WorkloadLabelIs
<1> HIDE DEF w
<1>5. /\ role = NoRole => IsSeq(a, 3) /\ a[1] = Basename /\ a[2] = x /\ a[3] = c.workload
      /\ role # NoRole => IsSeq(a, 4) /\ a[1] = Basename /\ a[2] = x /\ a[3] = c.resolved /\ a[4] = role
  <2>1. ASSUME role = NoRole PROVE IsSeq(a, 3) /\ a[1] = Basename /\ a[2] = x /\ a[3] = c.workload
    <3>1. IsSeq(a, 2 + 1) /\ a[1] = NsName(x)[1] /\ a[2] = NsName(x)[2] /\ a[2 + 1] = w[1] BY <1>3, <1>4, <2>1, CatIs
    <3> QED BY <1>3, <1>4, <2>1, <3>1
  <2>2. ASSUME role # NoRole PROVE IsSeq(a, 4) /\ a[1] = Basename /\ a[2] = x /\ a[3] = c.resolved /\ a[4] = role
    <3>1. IsSeq(a, 2 + 2) /\ a[1] = NsName(x)[1] /\ a[2] = NsName(x)[2] /\ a[2 + 1] = w[1] /\ a[2 + 2] = w[2]
      BY <1>3, <1>4, <2>2, CatIs
    <3> QED BY <1>3, <1>4, <2>2, <3>1
  <2> QED BY <2>1, <2>2
<1> HIDE DEF a
<1>6. ASSUME role = NoRole PROVE IsSeq(s, 4) /\ s[1] = Basename /\ s[2] = x /\ s[3] = c.workload /\ s[4] = N(dep)
  <2>1. IsSeq(s, 3 + 1) /\ s[1] = a[1] /\ s[2] = a[2] /\ s[3] = a[3] /\ s[3 + 1] = Single(N(dep))[1]
    BY <1>2, <1>5, <1>6, CatIs
  <2> QED BY <1>2, <1>5, <1>6, <2>1
<1>7. ASSUME role # NoRole
      PROVE  IsSeq(s, 5) /\ s[1] = Basename /\ s[2] = x /\ s[3] = c.resolved /\ s[4] = role /\ s[5] = N(dep)
  <2>1. IsSeq(s, 4 + 1) /\ s[1] = a[1] /\ s[2] = a[2] /\ s[3] = a[3] /\ s[4] = a[4] /\ s[4 + 1] = Single(N(dep))[1]
    BY <1>2, <1>5, <1>7, CatIs
  <2> QED BY <1>2, <1>5, <1>7, <2>1
<1> QED BY <1>1, <1>6, <1>7 DEF w

\* The replica's label is the worker's name, when the workload was not given by an alias or has roles.
LEMMA ReplicaOfWorker ==
  ASSUME NEW c, NEW x, NEW dep, NEW role, NEW r, role = NoRole => c.workload = c.resolved
  PROVE  ReplicaValue(NsName(x), WorkloadLabel(c, role), Single(N(dep)), Single(N(r)), <<>>) = PlainName(c, NsName(x), dep, role, r)
<1> DEFINE s == InstanceValue(NsName(x), WorkloadLabel(c, role), Single(N(dep)))
           u == Cat(s, Single(N(r)))
           v == Cat(u, <<>>)
<1>1. v = ReplicaValue(NsName(x), WorkloadLabel(c, role), Single(N(dep)), Single(N(r)), <<>>)
  BY DEF Cat, ReplicaValue, InstanceValue
<1>2. IsSeq(Single(N(r)), 1) /\ Single(N(r))[1] = N(r) BY SingleIs
<1>3. PICK p : p = PlainName(c, NsName(x), dep, role, r) OBVIOUS
<1>4. CASE role = NoRole
  <2>1. IsSeq(s, 4) /\ s[1] = Basename /\ s[2] = x /\ s[3] = c.resolved /\ s[4] = N(dep) BY <1>4, InstanceOfWorker
  <2> HIDE DEF s
  <2>2. IsSeq(u, 4 + 1) /\ (\A i \in 1..4 : u[i] = s[i]) /\ u[4 + 1] = Single(N(r))[1] BY <1>2, <2>1, CatIs
  <2> HIDE DEF u
  <2>3. IsSeq(u, 5) /\ u[5] = N(r) BY <1>2, <2>2
  <2>4. v = u BY <2>3, CatNone
  <2>5. IsSeq(p, 5) /\ p[1] = Basename /\ p[2] = x /\ p[3] = c.resolved /\ p[4] = N(dep) /\ p[5] = N(r)
    BY <1>3, <1>4, PlainOfDep
  <2>6. \A i \in 1..5 : u[i] = p[i] BY <2>1, <2>2, <2>3, <2>5
  <2>7. u = p BY <2>3, <2>5, <2>6, SameSeq
  <2> QED BY <1>1, <1>3, <2>4, <2>7
<1>5. CASE role # NoRole
  <2>1. IsSeq(s, 5) /\ s[1] = Basename /\ s[2] = x /\ s[3] = c.resolved /\ s[4] = role /\ s[5] = N(dep)
    BY <1>5, InstanceOfWorker
  <2> HIDE DEF s
  <2>2. IsSeq(u, 5 + 1) /\ (\A i \in 1..5 : u[i] = s[i]) /\ u[5 + 1] = Single(N(r))[1] BY <1>2, <2>1, CatIs
  <2> HIDE DEF u
  <2>3. IsSeq(u, 6) /\ u[6] = N(r) BY <1>2, <2>2
  <2>4. v = u BY <2>3, CatNone
  <2>5. IsSeq(p, 6) /\ p[1] = Basename /\ p[2] = x /\ p[3] = c.resolved /\ p[4] = role /\ p[5] = N(dep) /\ p[6] = N(r)
    BY <1>3, <1>5, PlainOfRole
  <2>6. \A i \in 1..6 : u[i] = p[i] BY <2>1, <2>2, <2>3, <2>5
  <2>7. u = p BY <2>3, <2>5, <2>6, SameSeq
  <2> QED BY <1>1, <1>3, <2>4, <2>7
<1> QED BY <1>4, <1>5

\* A server's client is placed by the label of the server's instance.
LEMMA InstanceOfServer ==
  ASSUME NEW c, NEW x, NEW dep, NEW role, role # NoRole
  PROVE  InstanceValue(NsName(x), WorkloadLabel(c, role), Single(N(dep))) = RoleName(c, NsName(x), role, dep)
<1> DEFINE s == InstanceValue(NsName(x), WorkloadLabel(c, role), Single(N(dep)))
<1>1. IsSeq(s, 5) /\ s[1] = Basename /\ s[2] = x /\ s[3] = c.resolved /\ s[4] = role /\ s[5] = N(dep) BY InstanceOfWorker
<1>2. PICK p : p = RoleName(c, NsName(x), role, dep) OBVIOUS
<1>3. IsSeq(p, 5) /\ p[1] = Basename /\ p[2] = x /\ p[3] = c.resolved /\ p[4] = role /\ p[5] = N(dep) BY <1>2, RoleNameIs
<1> HIDE DEF s
<1>4. \A i \in 1..5 : s[i] = p[i] BY <1>1, <1>3
<1>5. s = p BY <1>1, <1>3, <1>4, SameSeq
<1> QED BY <1>2, <1>5 DEF s

LEMMA WorkerLabelsAre ==
  ASSUME NEW c, NEW ns, NEW dep, NEW r, NEW role
  PROVE  WorkerLabels(c, ns, dep, r, role) =
            StandardLabels("worker", WorkloadLabel(c, role), ns, Single(N(dep)), Single(N(r)), <<>>, TRUE)
BY DEF WorkerLabels, Single

-----------------------------------------------------------------------------
(***************************************************************************)
(* What the services select.                                               *)
(***************************************************************************)
SyncKey == <<Basename, "sync", "sync">>

LEMMA SyncLabelIs == SyncLabel[1] = SyncKey /\ SyncLabel[2] = True /\ IsSeq(SyncKey, 3)
BY Tuples DEF SyncLabel, SyncKey

LEMMA NoSyncLabel ==
  ASSUME NEW objtype, NEW workload, NEW n \in {0, 1, 2}, IsSeq(workload, n), NEW ns, NEW inst, NEW rep, NEW suffix,
         NEW isWorker \in BOOLEAN
  PROVE  SyncLabel \notin StandardLabels(objtype, workload, ns, inst, rep, suffix, isWorker)
<1> SUFFICES ASSUME SyncLabel \in StandardLabels(objtype, workload, ns, inst, rep, suffix, isWorker) PROVE FALSE OBVIOUS
<1>1. PICK l : l = SyncLabel OBVIOUS
<1>2. l[1] = SyncKey /\ l[2] = True BY <1>1, SyncLabelIs
<1>3. SyncKey = workload \/ \E k \in {1, 2} : IsSeq(SyncKey, k) BY <1>1, <1>2, LabelIs
<1> QED BY <1>3, SyncLabelIs, SameSeq

LEMMA DropCacheLabels ==
  ASSUME NEW c, NEW name, NEW ns, NEW worker
  PROVE  DropCachePod(c, name, ns, worker).labels =
            StandardLabels("drop-cache", Single("drop-cache"), ns, <<>>, <<>>, <<"dc">>, FALSE)
BY DEF DropCachePod, Manifest, Single

LEMMA SyncPodLabels ==
  ASSUME NEW c, NEW ns, NEW e, NEW i
  PROVE  SyncPod(c, ns, e, i).labels =
            StandardLabels("sync", Single("sync"), ns, <<>>, <<>>, <<>>, FALSE) \cup {SyncLabel}
BY DEF SyncPod, Manifest, Single

LEMMA PlainLabelled ==
  ASSUME NEW name, NEW ns, NEW data
  PROVE  Configmap(name, ns, data).labels = StandardLabels("configmap", <<>>, <<>>, <<>>, <<>>, <<>>, TRUE)
BY DEF Configmap, Manifest, PlainLabels

LEMMA WorkloadLabelShort == \A c, role : \E n \in {0, 1, 2} : IsSeq(WorkloadLabel(c, role), n)
BY WorkloadLabelIs

LEMMA SyncSelected ==
  ASSUME NEW c, IsConfig(c), NEW o \in Objects(c), o.kind # "Service", SyncLabel \in o.labels
  PROVE  IsSyncPod(c, o)
<1>1. CASE IsWorkload(c, o)
  <2>1. PICK ns, dep, role, r : o = Worker(c, ns, dep, role, r, FirstAddress(c, 1, dep)) BY <1>1, WorkloadOf
  <2>2. o.labels = WorkerLabels(c, ns, dep, r, role) BY <2>1, WorkerLabelled
  <2>3. TRUE \in BOOLEAN OBVIOUS
  <2>4. PICK n \in {0, 1, 2} : IsSeq(WorkloadLabel(c, role), n) BY WorkloadLabelShort
  <2> QED BY <2>2, <2>3, <2>4, NoSyncLabel, WorkerLabelsAre
<1>2. CASE IsDropCache(c, o)
  <2>1. PICK ns, dep, r : o = DropCachePod(c, DropCacheName(c, ns, dep, r), ns, PlainName(c, ns, dep, NoRole, r))
    BY <1>2, DropCacheOf
  <2>2. o.labels = StandardLabels("drop-cache", Single("drop-cache"), ns, <<>>, <<>>, <<"dc">>, FALSE)
    BY <2>1, DropCacheLabels
  <2>3. FALSE \in BOOLEAN /\ 1 \in {0, 1, 2} /\ IsSeq(Single("drop-cache"), 1) BY SingleIs
  <2> QED BY <2>2, <2>3, NoSyncLabel
<1>3. CASE IsSyncMap(c, o)
  <2>1. o.labels = StandardLabels("configmap", <<>>, <<>>, <<>>, <<>>, <<>>, TRUE)
    BY <1>3, PlainLabelled DEF IsSyncMap, SystemConfigmap
  <2>2. TRUE \in BOOLEAN /\ 0 \in {0, 1, 2} /\ IsSeq(<<>>, 0) BY Tuples
  <2> QED BY <2>1, <2>2, NoSyncLabel
<1> QED BY <1>1, <1>2, <1>3, ObjectIs, SyncKinds DEF IsSync

\* Who has a replica's label of six parts.
LEMMA ReplicaLabelled ==
  ASSUME NEW objtype, NEW workload, NEW ns, NEW inst, NEW rep, NEW suffix, NEW isWorker \in BOOLEAN,
         NEW s, IsSeq(s, 6), ReplicaLabel(s) \in StandardLabels(objtype, workload, ns, inst, rep, suffix, isWorker)
  PROVE  s = ReplicaValue(ns, workload, inst, rep, suffix)
<1>1. PICK l : l = ReplicaLabel(s) OBVIOUS
<1>2. l[1] = ReplicaKey /\ l[2] = s BY <1>1 DEF ReplicaKey, Single, ReplicaLabel
<1>3. IsSeq(s, 1) \/ (workload # <<>> /\ s = ReplicaValue(ns, workload, inst, rep, suffix)) BY <1>1, <1>2, LabelIs
<1> QED BY <1>3, SameSeq

LEMMA PlainReplica == ASSUME NEW objtype, NEW s, IsSeq(s, 6) PROVE ReplicaLabel(s) \notin PlainLabels(objtype)
<1> SUFFICES ASSUME ReplicaLabel(s) \in PlainLabels(objtype) PROVE FALSE OBVIOUS
<1>1. PICK l : l = ReplicaLabel(s) OBVIOUS
<1>2. l[1] = ReplicaKey /\ l[2] = s BY <1>1 DEF ReplicaKey, Single, ReplicaLabel
<1>3. PICK none, yes : none = <<>> /\ yes = TRUE OBVIOUS
<1>4. l \in StandardLabels(objtype, none, none, none, none, none, yes) /\ yes \in BOOLEAN BY <1>1, <1>3 DEF PlainLabels
<1>5. IsSeq(l[2], 1) BY <1>2, <1>3, <1>4, LabelIs
<1> QED BY <1>2, <1>5, SameSeq

LEMMA SyncReplica ==
  ASSUME NEW x
  PROVE  IsSeq(ReplicaValue(NsName(x), Single("sync"), <<>>, <<>>, <<>>), 3)
<1> DEFINE s == Cat(NsName(x), Single("sync"))
<1>1. IsSeq(s, 2 + 1) BY NsNameIs, SingleIs, CatIs
<1>2. ReplicaValue(NsName(x), Single("sync"), <<>>, <<>>, <<>>) = Cat(Cat(Cat(s, <<>>), <<>>), <<>>) BY DEF ReplicaValue, Cat
<1> HIDE DEF s
<1>3. Cat(s, <<>>) = s BY <1>1, CatNone
<1> QED BY <1>1, <1>2, <1>3

LEMMA SyncNsIs ==
  ASSUME NEW c, IsConfig(c)
  PROVE  /\ SyncNs(c, Nss(c)) = (IF c.syncfirst THEN Nss(c)[1] ELSE NsName("sync"))
         /\ \A ns : SyncNs(c, <<ns>>) = IF c.syncfirst THEN ns ELSE NsName("sync")
         /\ Nss(c)[1] \in Range(Nss(c))
         /\ \E x : SyncNs(c, Nss(c)) = NsName(x)
<1>1. SyncNs(c, Nss(c)) = (IF c.syncfirst THEN Nss(c)[1] ELSE NsName("sync")) BY DEF SyncNs, NsName
<1>2. ASSUME NEW ns PROVE SyncNs(c, <<ns>>) = IF c.syncfirst THEN ns ELSE NsName("sync")
  <2>1. <<ns>>[1] = ns OBVIOUS
  <2> QED BY <2>1 DEF SyncNs, NsName
<1>3. Nss(c)[1] \in Range(Nss(c))
  <2>1. 1 \in 1..c.namespaces BY DEF IsConfig
  <2> QED BY <2>1, NssOf DEF Range
<1>4. \E x : SyncNs(c, Nss(c)) = NsName(x) BY <1>1, <1>3, NsForm
<1> QED BY <1>1, <1>2, <1>3, <1>4

LEMMA ServerSelected ==
  ASSUME NEW c, IsConfig(c), IsClientServer(c), NEW x, NEW d \in Deps(c),
         NEW o \in Objects(c), o.kind # "Service", ReplicaLabel(ServerName(c, NsName(x), d)) \in o.labels
  PROVE  o = Worker(c, NsName(x), d, "server", 1, FirstAddress(c, 1, d))
<1>1. PICK s : s = ServerName(c, NsName(x), d) OBVIOUS
<1>2. PICK server : server = "server" OBVIOUS
<1>3. server # NoRole BY <1>2 DEF NoRole
<1>4. s = PlainName(c, NsName(x), d, server, 1) BY <1>1, <1>2 DEF ServerName, PlainName, Base
<1> HIDE <1>2
<1>5. IsSeq(s, 6) /\ s[2] = x /\ s[4] = server /\ s[5] = N(d) /\ s[6] = N(1) BY <1>3, <1>4, PlainOfRole
<1>6. ~IsDropCache(c, o) BY DropCacheOf, DropCacheRoles
<1>7. ~IsSyncMap(c, o)
  <2>1. ASSUME IsSyncMap(c, o) PROVE FALSE
    <3>1. o.labels = StandardLabels("configmap", <<>>, <<>>, <<>>, <<>>, <<>>, TRUE)
      BY <2>1, PlainLabelled DEF IsSyncMap, SystemConfigmap
    <3>2. ReplicaLabel(s) \in PlainLabels("configmap") BY <1>1, <3>1 DEF PlainLabels
    <3> QED BY <1>5, <3>2, PlainReplica
  <2> QED BY <2>1
<1>8. ~IsSyncPod(c, o)
  <2>1. ASSUME IsSyncPod(c, o) PROVE FALSE
    <3>1. PICK y : \E e, i : o = SyncPod(c, NsName(y), e, i)
      <4>1. CASE o = SyncPodOf(c, Nss(c)) BY <4>1, SyncNsIs DEF SyncPodOf
      <4>2. CASE \E ns \in Range(Nss(c)) : o = SyncPodOf(c, <<ns>>)
        <5>1. PICK ns \in Range(Nss(c)) : o = SyncPodOf(c, <<ns>>) BY <4>2
        <5>2. PICK z : ns = NsName(z) BY NsForm
        <5>3. \E y : SyncNs(c, <<ns>>) = NsName(y) BY <5>2, SyncNsIs
        <5> QED BY <5>1, <5>3 DEF SyncPodOf
      <4> QED BY <2>1, <4>1, <4>2 DEF IsSyncPod
    <3>2. PICK e, i : o = SyncPod(c, NsName(y), e, i) BY <3>1
    <3>3. o.labels = StandardLabels("sync", Single("sync"), NsName(y), <<>>, <<>>, <<>>, FALSE) \cup {SyncLabel}
      BY <3>2, SyncPodLabels
    <3>4. ReplicaLabel(s) # SyncLabel
      <4>1. PICK l : l = ReplicaLabel(s) OBVIOUS
      <4>2. l[1] = ReplicaKey BY <4>1 DEF ReplicaKey, Single, ReplicaLabel
      <4>3. IsSeq(ReplicaKey, 1) BY SingleIs DEF ReplicaKey
      <4> QED BY <4>1, <4>2, <4>3, SyncLabelIs, SameSeq
    <3>5. ReplicaLabel(s) \in StandardLabels("sync", Single("sync"), NsName(y), <<>>, <<>>, <<>>, FALSE)
      BY <1>1, <3>3, <3>4
    <3>6. FALSE \in BOOLEAN OBVIOUS
    <3>7. s = ReplicaValue(NsName(y), Single("sync"), <<>>, <<>>, <<>>)
      BY <1>5, <3>5, <3>6, ReplicaLabelled
    <3> QED BY <1>5, <3>7, SyncReplica, SameSeq
  <2> QED BY <2>1
<1>9. IsWorkload(c, o) BY <1>6, <1>7, <1>8, ObjectIs, SyncKinds DEF IsSync
<1>10. PICK ns \in Range(Nss(c)), dep \in Deps(c), role \in Roles(c) : \E r \in Copies(c, role) :
          o = Worker(c, ns, dep, role, r, FirstAddress(c, 1, dep))
  BY <1>9, WorkloadOf
<1>11. PICK r \in Copies(c, role) : o = Worker(c, ns, dep, role, r, FirstAddress(c, 1, dep)) BY <1>10
<1>12. PICK y : ns = NsName(y) BY NsForm
<1>13. o.labels = WorkerLabels(c, ns, dep, r, role) BY <1>11, WorkerLabelled
<1>14. role # NoRole BY DEF Roles, NoRole
<1>15. s = ReplicaValue(ns, WorkloadLabel(c, role), Single(N(dep)), Single(N(r)), <<>>)
  <2>1. ReplicaLabel(s) \in StandardLabels("worker", WorkloadLabel(c, role), ns, Single(N(dep)), Single(N(r)), <<>>, TRUE)
    BY <1>1, <1>13, WorkerLabelsAre
  <2>2. TRUE \in BOOLEAN OBVIOUS
  <2> QED BY <1>5, <2>1, <2>2, ReplicaLabelled
<1>16. s = PlainName(c, NsName(y), dep, role, r) BY <1>12, <1>14, <1>15, ReplicaOfWorker
<1>17. s[2] = y /\ s[4] = role /\ s[5] = N(dep) /\ s[6] = N(r) BY <1>14, <1>16, PlainOfRole
<1>18. x = y /\ role = server /\ N(dep) = N(d) /\ N(r) = N(1) BY <1>5, <1>17
<1>19. dep = d BY <1>18, Numerals
<1>20. role = "server" BY <1>2, <1>18
<1>21. r = 1 BY <1>20 DEF Copies
<1> QED BY <1>11, <1>12, <1>18, <1>19, <1>20, <1>21

LEMMA SyncPodNamed == ASSUME NEW c, NEW m, IsSyncPod(c, m) PROVE m.kind = "Pod" /\ m.name = MkPodName(c, SyncPodName)
<1>1. PICK nss : m = SyncPodOf(c, nss) BY DEF IsSyncPod
<1> QED BY <1>1, SyncPodIs DEF SyncPodOf

LEMMA SyncPartPlanned ==
  ASSUME NEW c, IsConfig(c), NEW nss, NEW m, IsSyncPart(c, nss, m)
  PROVE  m \in BuildManifestPlan(c, nss)
<1>1. c.syncstart \in BOOLEAN BY DEF IsConfig
<1>2. m \in PlanSync(c, nss) BY <1>1 DEF PlanSync, IsSyncPart
<1> QED BY <1>2 DEF BuildManifestPlan

LEMMA SyncMade ==
  ASSUME NEW c, IsConfig(c), c.syncstart
  PROVE  /\ Service(SyncService, SyncNs(c, Nss(c)), {SyncLabel}) \in Objects(c)
         /\ \E o \in Objects(c) : IsSyncPod(c, o) /\ o.kind = "Pod" /\ o.ns = SyncNs(c, Nss(c)) /\ SyncLabel \in o.labels
<1> DEFINE nss == Nss(c)
           first == <<nss[1]>>
           service == Service(SyncService, SyncNs(c, nss), {SyncLabel})
<1>1. c.syncstart \in BOOLEAN BY DEF IsConfig
<1>2. service \in Objects(c)
  <2>1. IsSyncPart(c, nss, service) BY DEF IsSyncPart
  <2>2. service.kind = "Service" BY PlainIs
  <2> HIDE DEF nss, service
  <2>3. service \in BuildManifestPlan(c, nss) BY <2>1, SyncPartPlanned
  <2>4. service \in SyncServices(c, nss) BY <2>2, <2>3 DEF SyncServices
  <2> QED BY <2>4 DEF Objects, Created, nss
<1>3. CASE c.podprefix = ""
  <2>1. PICK m : m = SyncPodOf(c, nss) OBVIOUS
  <2>2. IsSyncPart(c, nss, m) BY <2>1 DEF IsSyncPart, SyncPodOf
  <2>3. m.kind = "Pod" /\ m.ns = SyncNs(c, nss) /\ m.name = MkPodName(c, SyncPodName) /\ SyncLabel \in m.labels
    BY <2>1, SyncPodIs DEF SyncPodOf
  <2>4. m.name = SyncPodName BY <1>3, <2>3, SyncPodNames
  <2>5. IsSyncPod(c, m) BY <1>3, <2>1 DEF IsSyncPod
  <2> HIDE DEF nss
  <2>6. m \in BuildManifestPlan(c, nss) BY <2>2, SyncPartPlanned
  <2>7. m \in SyncServices(c, nss) BY <2>3, <2>4, <2>6 DEF SyncServices
  <2>8. m \in Objects(c) BY <2>7 DEF Objects, Created, nss
  <2> QED BY <1>2, <2>3, <2>5, <2>8 DEF nss
<1>4. CASE c.podprefix # ""
  <2>1. PICK m : m = SyncPodOf(c, first) OBVIOUS
  <2>2. IsSyncPart(c, first, m) BY <2>1 DEF IsSyncPart, SyncPodOf
  <2>3. m.kind = "Pod" /\ m.ns = SyncNs(c, first) /\ m.name = MkPodName(c, SyncPodName) /\ SyncLabel \in m.labels
    BY <2>1, SyncPodIs DEF SyncPodOf
  <2>4. m.name # SyncPodName BY <1>4, <2>3, SyncPodNames
  <2>5. nss[1] \in Range(nss) /\ SyncNs(c, first) = SyncNs(c, nss) BY SyncNsIs
  <2>6. IsSyncPod(c, m) BY <1>4, <2>1, <2>5 DEF IsSyncPod
  <2> HIDE DEF nss
  <2>7. m \in DeploymentsOf(c, nss[1])
    <3> HIDE DEF first
    <3>1. m \in BuildManifestPlan(c, first) BY <2>2, SyncPartPlanned
    <3> QED BY <2>3, <2>4, <3>1 DEF DeploymentsOf, InfraKinds, first
  <2>8. m \in Objects(c) BY <2>5, <2>7 DEF Objects, Created, nss
  <2> QED BY <1>2, <2>3, <2>5, <2>6, <2>8 DEF nss
<1> QED BY <1>3, <1>4

\* The host of a service that is not external.
NoHost == <<>>

LEMMA ServiceHosts ==
  ASSUME NEW c, NEW s
  PROVE  /\ IsServerService(c, s) => s.external = NoHost
         /\ IsSyncService(c, s) => s.external = NoHost
         /\ IsExternal(c, s) => s.external = Cat(SyncService, SyncNs(c, Nss(c)))
<1>1. IsServerService(c, s) => s.external = NoHost BY ServiceOf DEF IsServerService, NoHost
<1>2. IsSyncService(c, s) => s.external = NoHost BY PlainIs DEF IsSyncService, NoHost
<1>3. ASSUME IsExternal(c, s) PROVE s.external = Cat(SyncService, SyncNs(c, Nss(c)))
  <2>1. PICK n, host : host = Cat(SyncService, SyncNs(c, Nss(c))) /\ s = ExternalService(SyncService, n, host)
    BY <1>3 DEF IsExternal, Cat
  <2> QED BY <2>1, PlainIs
<1> QED BY <1>1, <1>2, <1>3

Chosen(objects, s) == {o \in objects : o.kind # "Service" /\ o.ns = s.ns /\ s.selector \subseteq o.labels}

LEMMA OneChosen ==
  ASSUME NEW c, IsConfig(c), NEW s \in Objects(c), s.kind = "Service", s.external = NoHost
  PROVE  \E o : Chosen(Objects(c), s) = {o}
<1>1. IsSync(c, s) BY ObjectIs, OthersNamed
<1>2. ~IsExternal(c, s)
  <2>1. ASSUME IsExternal(c, s) PROVE FALSE
    <3>1. s.external = Cat(SyncService, SyncNs(c, Nss(c))) BY <2>1, ServiceHosts
    <3>2. PICK x : SyncNs(c, Nss(c)) = NsName(x) BY SyncNsIs
    <3>3. IsSeq(SyncNs(c, Nss(c)), 2) BY <3>2, NsNameIs
    <3>4. IsSeq(Cat(SyncService, SyncNs(c, Nss(c))), 3 + 2) BY <3>3, SyncServiceIs, CatIs
    <3>5. IsSeq(NoHost, 0) BY Tuples DEF NoHost
    <3> QED BY <3>1, <3>4, <3>5, SameSeq
  <2> QED BY <2>1
<1>3. CASE IsSyncService(c, s)
  <2>1. s.ns = SyncNs(c, Nss(c)) /\ s.selector = {SyncLabel} BY <1>3, PlainIs DEF IsSyncService
  <2>2. PICK o \in Objects(c) : IsSyncPod(c, o) /\ o.kind = "Pod" /\ o.ns = s.ns /\ SyncLabel \in o.labels
    BY <1>1, <2>1, SyncMade DEF IsSync
  <2>3. o \in Chosen(Objects(c), s) BY <2>1, <2>2 DEF Chosen
  <2>4. ASSUME NEW m \in Chosen(Objects(c), s) PROVE m = o
    <3>1. m \in Objects(c) /\ m.kind # "Service" /\ m.ns = s.ns /\ SyncLabel \in m.labels BY <2>1 DEF Chosen
    <3>2. IsSyncPod(c, m) BY <3>1, SyncSelected
    <3>3. m.kind = "Pod" /\ m.name = MkPodName(c, SyncPodName) BY <3>2, SyncPodNamed
    <3>4. o.name = MkPodName(c, SyncPodName) BY <2>2, SyncPodNamed
    <3> QED BY <2>2, <3>1, <3>3, <3>4, SameObject
  <2> QED BY <2>3, <2>4
<1>4. CASE IsServerService(c, s)
  <2>1. PICK ns \in Range(Nss(c)), d \in Deps(c) : s \in PlanServices(c, ns, d) BY <1>4 DEF IsServerService
  <2>2. PICK x : ns = NsName(x) BY NsForm
  <2>3. IsClientServer(c) /\ s.ns = ns /\ s.selector = Replicas(ServerName(c, ns, d)) BY <2>1, ServiceOf
  <2>4. PICK role : role = "server" OBVIOUS
  <2>5. role \in Roles(c) /\ 1 \in Copies(c, role) BY <2>3, <2>4 DEF Roles, Copies
  <2>6. PICK o : o = Worker(c, ns, d, role, 1, FirstAddress(c, 1, d)) OBVIOUS
  <2>7. o \in Objects(c) BY <2>5, <2>6, WorkersCreated
  <2>8. o.kind # "Service" /\ o.ns = ns BY <2>6, WorkerIs DEF WorkerKind
  <2>9. ReplicaLabel(ServerName(c, ns, d)) \in o.labels
    <3>1. o.labels = WorkerLabels(c, ns, d, 1, role) BY <2>6, WorkerLabelled
    <3>2. PICK w, yes, none : w = WorkloadLabel(c, role) /\ yes = TRUE /\ none = <<>> OBVIOUS
    <3>3. w # <<>> BY <3>2, WorkloadLabelIs
    <3>4. << <<"replica">>, ReplicaValue(ns, w, Single(N(d)), Single(N(1)), none)>> \in
             StandardLabels("worker", w, ns, Single(N(d)), Single(N(1)), none, yes)
      BY <3>2, <3>3, LabelsHave
    <3>5. role # NoRole BY <2>4 DEF NoRole
    <3>6. ReplicaValue(ns, w, Single(N(d)), Single(N(1)), none) = PlainName(c, ns, d, role, 1)
      BY <2>2, <3>2, <3>5, ReplicaOfWorker
    <3>7. PlainName(c, ns, d, role, 1) = ServerName(c, ns, d) BY <2>4 DEF PlainName, ServerName, Base
    <3> QED BY <3>1, <3>2, <3>4, <3>6, <3>7, WorkerLabelsAre DEF ReplicaLabel
  <2>10. o \in Chosen(Objects(c), s) BY <2>3, <2>7, <2>8, <2>9 DEF Chosen, Replicas
  <2>11. ASSUME NEW m \in Chosen(Objects(c), s) PROVE m = o
    <3>1. m \in Objects(c) /\ m.kind # "Service" /\ ReplicaLabel(ServerName(c, NsName(x), d)) \in m.labels
      BY <2>2, <2>3 DEF Chosen, Replicas
    <3>2. m = Worker(c, NsName(x), d, "server", 1, FirstAddress(c, 1, d)) BY <2>3, <3>1, ServerSelected
    <3> QED BY <2>2, <2>4, <2>6, <3>2
  <2> QED BY <2>10, <2>11
<1>5. ~IsSyncMap(c, s) /\ ~IsSyncPod(c, s) BY ConfigmapIs, SyncPodNamed DEF IsSyncMap
<1> QED BY <1>1, <1>2, <1>3, <1>4, <1>5 DEF IsSync

LEMMA ExternalNamed ==
  ASSUME NEW c, IsConfig(c), NEW s \in Objects(c), s.kind = "Service", s.external # NoHost
  PROVE  \E o \in Objects(c) : o.kind = "Service" /\ o.external = NoHost /\ s.external = o.name \o o.ns
<1>1. IsSync(c, s) BY ObjectIs, OthersNamed
<1>2. IsExternal(c, s)
  <2>1. ~IsServerService(c, s) /\ ~IsSyncService(c, s) BY ServiceHosts
  <2> QED BY <1>1, <2>1, SyncKinds DEF IsSync
<1>3. s.external = SyncService \o SyncNs(c, Nss(c)) BY <1>2, ServiceHosts DEF Cat
<1>4. PICK o : o = Service(SyncService, SyncNs(c, Nss(c)), {SyncLabel}) OBVIOUS
<1>5. o \in Objects(c) BY <1>1, <1>4, SyncMade DEF IsSync
<1>6. o.kind = "Service" /\ o.external = NoHost /\ o.name = SyncService /\ o.ns = SyncNs(c, Nss(c)) BY <1>4, PlainIs DEF NoHost
<1> QED BY <1>3, <1>5, <1>6

\* The sync pods that are created with the services: without a prefix just the one.
LEMMA SyncPodsAre ==
  ASSUME NEW c, IsConfig(c), c.syncstart
  PROVE  {m \in SyncServices(c, Nss(c)) : m.kind = "Pod"} = IF c.podprefix = "" THEN {SyncPodOf(c, Nss(c))} ELSE {}
<1> DEFINE nss == Nss(c)
<1>1. PICK s : s = SyncPodOf(c, nss) OBVIOUS
<1>2. s.kind = "Pod" /\ s.name = MkPodName(c, SyncPodName) /\ IsSyncPart(c, nss, s)
  BY <1>1, SyncPodIs DEF SyncPodOf, IsSyncPart
<1>3. \A m : m \in SyncServices(c, nss) /\ m.kind = "Pod" <=>
             m \in BuildManifestPlan(c, nss) /\ m.kind = "Pod" /\ m.name = SyncPodName
  BY DEF SyncServices
<1> HIDE DEF nss
<1>4. s \in BuildManifestPlan(c, nss) BY <1>2, SyncPartPlanned
<1>5. s.name = SyncPodName <=> c.podprefix = "" BY <1>2, SyncPodNames
<1>6. ASSUME NEW m, m \in SyncServices(c, nss), m.kind = "Pod" PROVE m = s /\ m.name = s.name
  <2>1. m \in Objects(c) BY <1>6 DEF Objects, Created, nss
  <2>2. m.name = SyncPodName BY <1>3, <1>6
  <2>3. IsSyncPod(c, m)
    <3>1. CASE IsSync(c, m) BY <1>6, <3>1, SyncKinds DEF IsSync
    <3>2. CASE IsDropCache(c, m) \/ IsWorkload(c, m) BY <2>2, <3>2, OthersNamed
    <3> QED BY <2>1, <3>1, <3>2, ObjectIs
  <2>4. c.podprefix = "" BY <2>2, <2>3, SyncPodNamed, SyncPodNames
  <2>5. m = s BY <1>1, <2>3, <2>4 DEF IsSyncPod, nss
  <2> QED BY <2>5
<1>7. \A m : m \in {o \in SyncServices(c, nss) : o.kind = "Pod"} <=> m = s /\ c.podprefix = ""
  BY <1>2, <1>3, <1>4, <1>5, <1>6
<1> QED BY <1>1, <1>7 DEF nss

\* For all command lines: a service selects exactly one pod of its namespace, an external one
\* names a service that exists, and without a prefix the one sync pod is created with the services
\* (standard_labels, service, external_service, _create_sync_services).
THEOREM ServicesReach == Spec => []ServicesReachPods
<1>1. PlanInv => ServicesReachPods
  <2> SUFFICES ASSUME PlanInv, Planned PROVE ServicesReachPods BY DEF ServicesReachPods, SyncPodCreated
  <2>1. IsConfig(cfg) BY PlannedConfig
  <2>2. ASSUME NEW s \in Objects(cfg), s.kind = "Service"
        PROVE  IF s.external = NoHost THEN Cardinality(Chosen(Objects(cfg), s)) = 1
               ELSE \E o \in Objects(cfg) : o.kind = "Service" /\ o.external = NoHost /\ s.external = o.name \o o.ns
    <3>1. CASE s.external = NoHost
      <4>1. PICK o : Chosen(Objects(cfg), s) = {o} BY <2>1, <2>2, <3>1, OneChosen
      <4>2. Cardinality({o}) = 1 BY FS_Singleton
      <4> QED BY <3>1, <4>1, <4>2
    <3>2. CASE s.external # NoHost BY <2>1, <2>2, <3>2, ExternalNamed
    <3> QED BY <3>1, <3>2
  <2>3. SyncPodCreated
    <3> SUFFICES ASSUME cfg.podprefix = "", cfg.syncstart
                 PROVE  Cardinality({m \in SyncServices(cfg, Nss(cfg)) : m.kind = "Pod"}) = 1
      BY DEF SyncPodCreated
    <3>1. {m \in SyncServices(cfg, Nss(cfg)) : m.kind = "Pod"} = {SyncPodOf(cfg, Nss(cfg))} BY <2>1, SyncPodsAre
    <3> QED BY <3>1, FS_Singleton
  <2> QED BY <2>2, <2>3 DEF ServicesReachPods, Chosen, NoHost
<1> QED BY <1>1, PlanInvariant, PTL

-----------------------------------------------------------------------------
(***************************************************************************)
(* Whether pods can start.                                                 *)
(***************************************************************************)
Tag(key, value) == <<key, value>>

UuidKey == <<Basename, "uuid">>

InstanceKey == Single("instance")

LEMMA AffinityHas ==
  ASSUME NEW mode, NEW key, NEW value, NEW a \in Affinity(mode, key, value)
  PROVE  a[1] = mode /\ Tag(a[2], a[3]) = Tag(key, value)
BY DEF Affinity, Tag

LEMMA WorkerTags ==
  ASSUME NEW c, NEW ns, NEW dep, NEW r, NEW role
  PROVE  /\ Tag(UuidKey, Single("uuid")) \in WorkerLabels(c, ns, dep, r, role)
         /\ Tag(InstanceKey, InstanceValue(ns, WorkloadLabel(c, role), Single(N(dep)))) \in WorkerLabels(c, ns, dep, r, role)
         /\ ReplicaLabel(ReplicaValue(ns, WorkloadLabel(c, role), Single(N(dep)), Single(N(r)), <<>>)) \in
               WorkerLabels(c, ns, dep, r, role)
<1>1. PICK w, yes, none : w = WorkloadLabel(c, role) /\ yes = TRUE /\ none = <<>> OBVIOUS
<1>2. w # <<>> BY <1>1, WorkloadLabelIs
<1>3. WorkerLabels(c, ns, dep, r, role) = StandardLabels("worker", w, ns, Single(N(dep)), Single(N(r)), none, yes)
  BY <1>1, WorkerLabelsAre
<1>4. yes \in BOOLEAN BY <1>1
<1> HIDE <1>1
<1>5. << <<Basename, "uuid">>, <<"uuid">> >> \in StandardLabels("worker", w, ns, Single(N(dep)), Single(N(r)), none, yes)
  BY <1>4, LabelsHave
<1>6. << <<"instance">>, InstanceValue(ns, w, Single(N(dep)))>> \in
         StandardLabels("worker", w, ns, Single(N(dep)), Single(N(r)), none, yes)
  BY <1>2, <1>4, LabelsHave
<1>7. << <<"replica">>, ReplicaValue(ns, w, Single(N(dep)), Single(N(r)), none)>> \in
         StandardLabels("worker", w, ns, Single(N(dep)), Single(N(r)), none, yes)
  BY <1>2, <1>4, LabelsHave
<1> QED BY <1>1, <1>3, <1>5, <1>6, <1>7 DEF Tag, UuidKey, InstanceKey, Single, ReplicaLabel

LEMMA PlacedIs ==
  ASSUME NEW objects, NEW m,
         \A a \in m.affinity : a[1] = 1 => \E o \in objects : o.ns = m.ns /\ Tag(a[2], a[3]) \in o.labels
  PROVE  Placed(objects, m)
BY DEF Placed, Tag

LEMMA ByRun == ASSUME NEW c, NEW a \in WorkerAffinity(c) PROVE Tag(a[2], a[3]) = Tag(UuidKey, Single("uuid"))
<1>1. a \in Affinity(c.affinity, UuidKey, Single("uuid")) BY DEF WorkerAffinity, UuidKey, Single
<1> QED BY <1>1, AffinityHas

LEMMA WorkerIsPlaced ==
  ASSUME NEW c, IsConfig(c), NEW ns \in Range(Nss(c)), NEW dep \in Deps(c), NEW role \in Roles(c), NEW r \in Copies(c, role),
         NEW m, m = Worker(c, ns, dep, role, r, FirstAddress(c, 1, dep))
  PROVE  Placed(Objects(c), m)
<1> SUFFICES ASSUME NEW a \in m.affinity
             PROVE  \E o \in Objects(c) : o.ns = m.ns /\ Tag(a[2], a[3]) \in o.labels
  BY PlacedIs
<1>1. m \in Objects(c) BY WorkersCreated
<1>2. m.ns = ns /\ m.labels = WorkerLabels(c, ns, dep, r, role) BY WorkerIs, WorkerLabelled
<1>3. CASE a \in WorkerAffinity(c) BY <1>1, <1>2, <1>3, ByRun, WorkerTags
<1>4. CASE a \notin WorkerAffinity(c)
  <2>1. c.dtype # "vm" BY <1>4, MachineHas
  <2>2. a \in PlacedBy(c, WorkerServer(c, ns, dep, role)) BY <2>1, ContainerHas DEF WorkerPlaced
  <2>3. role = "client" BY <1>4, <2>2 DEF PlacedBy, WorkerServer
  <2>4. PICK server : server = "server" OBVIOUS
  <2>5. server \in Roles(c) /\ 1 \in Copies(c, server) BY <2>3, <2>4 DEF Roles, Copies
  <2>6. WorkerServer(c, ns, dep, role) = RoleName(c, ns, server, dep) BY <2>3, <2>4 DEF WorkerServer
  <2>7. server # NoRole BY <2>4 DEF NoRole
  <2> HIDE <2>4
  <2>8. a \in Affinity(c.affinity, InstanceKey, RoleName(c, ns, server, dep))
    BY <1>4, <2>2, <2>6 DEF PlacedBy, InstanceKey, Single
  <2>9. Tag(a[2], a[3]) = Tag(InstanceKey, RoleName(c, ns, server, dep)) BY <2>8, AffinityHas
  <2>10. PICK x : ns = NsName(x) BY NsForm
  <2>11. RoleName(c, ns, server, dep) = InstanceValue(ns, WorkloadLabel(c, server), Single(N(dep)))
    BY <2>7, <2>10, InstanceOfServer
  <2>12. PICK o : o = Worker(c, ns, dep, server, 1, FirstAddress(c, 1, dep)) OBVIOUS
  <2>13. o \in Objects(c) BY <2>5, <2>12, WorkersCreated
  <2>14. o.ns = ns /\ o.labels = WorkerLabels(c, ns, dep, 1, server) BY <2>12, WorkerIs, WorkerLabelled
  <2> QED BY <1>2, <2>9, <2>11, <2>13, <2>14, WorkerTags
<1> QED BY <1>3, <1>4

LEMMA DropCacheIsPlaced ==
  ASSUME NEW c, IsConfig(c), c.workload = c.resolved, NEW m, IsDropCache(c, m)
  PROVE  Placed(Objects(c), m)
<1>1. PICK ns \in Range(Nss(c)), dep \in Deps(c), r \in 1..c.replicas :
         m = DropCachePod(c, DropCacheName(c, ns, dep, r), ns, PlainName(c, ns, dep, NoRole, r)) /\ m.ns = ns
  BY DropCacheOf
<1>2. ASSUME NEW a \in m.affinity PROVE \E o \in Objects(c) : o.ns = m.ns /\ Tag(a[2], a[3]) \in o.labels
  <2>1. m.affinity = Affinity(1, ReplicaKey, PlainName(c, ns, dep, NoRole, r))
    BY <1>1 DEF DropCachePod, Manifest, ReplicaKey, Single
  <2>2. Tag(a[2], a[3]) = Tag(ReplicaKey, PlainName(c, ns, dep, NoRole, r)) BY <1>2, <2>1, AffinityHas
  <2>3. NoRole \in Roles(c) /\ r \in Copies(c, NoRole)
    <3>1. ~IsClientServer(c) BY DropCacheOf, DropCacheRoles
    <3> QED BY <3>1 DEF Roles, Copies, NoRole
  <2>4. PICK o : o = Worker(c, ns, dep, NoRole, r, FirstAddress(c, 1, dep)) OBVIOUS
  <2>5. o \in Objects(c) BY <2>3, <2>4, WorkersCreated
  <2>6. o.ns = ns /\ o.labels = WorkerLabels(c, ns, dep, r, NoRole) BY <2>4, WorkerIs, WorkerLabelled
  <2>7. PICK x : ns = NsName(x) BY NsForm
  <2>8. ReplicaValue(ns, WorkloadLabel(c, NoRole), Single(N(dep)), Single(N(r)), <<>>) = PlainName(c, ns, dep, NoRole, r)
    BY <2>7, ReplicaOfWorker
  <2>9. ReplicaLabel(PlainName(c, ns, dep, NoRole, r)) \in o.labels BY <2>6, <2>8, WorkerTags
  <2>10. ReplicaLabel(PlainName(c, ns, dep, NoRole, r)) = Tag(ReplicaKey, PlainName(c, ns, dep, NoRole, r))
    BY DEF ReplicaLabel, Tag, ReplicaKey, Single
  <2> QED BY <1>1, <2>2, <2>5, <2>6, <2>9, <2>10
<1> QED BY <1>2, PlacedIs

LEMMA SyncIsPlaced ==
  ASSUME NEW c, c.syncaffinity # 1, NEW m, IsSyncPod(c, m)
  PROVE  Placed(Objects(c), m)
<1>1. PICK ns, e, i : m = SyncPod(c, ns, e, i) BY DEF IsSyncPod, SyncPodOf
<1>2. m.affinity = Affinity(c.syncaffinity, <<Basename, "worker">>, True) BY <1>1 DEF SyncPod, Manifest
<1>3. \A a \in m.affinity : a[1] # 1 BY <1>2, AffinityHas
<1> QED BY <1>3, PlacedIs

\* Files and scripts.
SystemFiles(c) == SharedPodFiles \cup (ListConfigmaps(c.resolved) \cap PodFiles)

SystemName == <<Basename, "system", "configmap">>

UserName == <<Basename, "user", "configmap">>

LEMMA SystemIs ==
  ASSUME NEW c, NEW ns
  PROVE  SystemConfigmap(c, ns).data = SystemFiles(c) /\ SystemConfigmap(c, ns).name = SystemName
         /\ UserConfigmap(c, ns).name = UserName
BY PlainIs DEF SystemConfigmap, UserConfigmap, SystemFiles, SystemName, UserName

\* The arguments of a worker that is no client or server.
PlainArguments(c, args) ==
    /\ args.script = OwnFile[c.resolved] /\ args.processes = c.processes
    /\ "processes" \in DOMAIN args /\ "server" \notin DOMAIN args

LEMMA OwnArguments ==
  ASSUME NEW c, c.resolved \in Registered \ {"server", "uperf", "pausepod"}, c.resolved = "waitforever" => c.processes = 1
  PROVE  PlainArguments(c, Arglist(c))
<1>1. PICK w : w = c.resolved OBVIOUS
<1>2. w \in Registered \ {"server", "uperf", "pausepod"} BY <1>1
<1>3. CASE w = "byo"
  <2>1. Arglist(c) = ByoArglist(c) BY <1>1, <1>3 DEF Arglist
  <2>2. ByoArglist(c).script = "byo.py" /\ ByoArglist(c).processes = c.processes BY DEF ByoArglist
  <2>3. "processes" \in DOMAIN ByoArglist(c) /\ "server" \notin DOMAIN ByoArglist(c) BY DEF ByoArglist
  <2> QED BY <1>1, <1>3, <2>1, <2>2, <2>3 DEF OwnFile, PlainArguments
<1>4. CASE w = "fio"
  <2>1. Arglist(c) = FioArglist(c) BY <1>1, <1>4 DEF Arglist
  <2>2. FioArglist(c).script = "fio.py" /\ FioArglist(c).processes = c.processes BY DEF FioArglist
  <2>3. "processes" \in DOMAIN FioArglist(c) /\ "server" \notin DOMAIN FioArglist(c) BY DEF FioArglist
  <2> QED BY <1>1, <1>4, <2>1, <2>2, <2>3 DEF OwnFile, PlainArguments
<1>5. CASE w = "files"
  <2>1. Arglist(c) = FilesArglist(c) BY <1>1, <1>5 DEF Arglist
  <2>2. FilesArglist(c).script = "files.py" /\ FilesArglist(c).processes = c.processes BY DEF FilesArglist
  <2>3. "processes" \in DOMAIN FilesArglist(c) /\ "server" \notin DOMAIN FilesArglist(c) BY DEF FilesArglist
  <2> QED BY <1>1, <1>5, <2>1, <2>2, <2>3 DEF OwnFile, PlainArguments
<1>6. CASE w = "memory"
  <2>1. Arglist(c) = MemoryArglist(c) BY <1>1, <1>6 DEF Arglist
  <2>2. MemoryArglist(c).script = "memory.py" /\ MemoryArglist(c).processes = c.processes BY DEF MemoryArglist
  <2>3. "processes" \in DOMAIN MemoryArglist(c) /\ "server" \notin DOMAIN MemoryArglist(c) BY DEF MemoryArglist
  <2> QED BY <1>1, <1>6, <2>1, <2>2, <2>3 DEF OwnFile, PlainArguments
<1>7. CASE w = "sysbench"
  <2>1. Arglist(c) = SysbenchArglist(c) BY <1>1, <1>7 DEF Arglist
  <2>2. SysbenchArglist(c).script = "sysbench.py" /\ SysbenchArglist(c).processes = c.processes BY DEF SysbenchArglist
  <2>3. "processes" \in DOMAIN SysbenchArglist(c) /\ "server" \notin DOMAIN SysbenchArglist(c) BY DEF SysbenchArglist
  <2> QED BY <1>1, <1>7, <2>1, <2>2, <2>3 DEF OwnFile, PlainArguments
<1>8. CASE w = "hammerdb"
  <2>1. Arglist(c) = HammerdbArglist(c) BY <1>1, <1>8 DEF Arglist
  <2>2. HammerdbArglist(c).script = "hammerdb.py" /\ HammerdbArglist(c).processes = c.processes BY DEF HammerdbArglist
  <2>3. "processes" \in DOMAIN HammerdbArglist(c) /\ "server" \notin DOMAIN HammerdbArglist(c) BY DEF HammerdbArglist
  <2> QED BY <1>1, <1>8, <2>1, <2>2, <2>3 DEF OwnFile, PlainArguments
<1>9. CASE w = "synctest"
  <2>1. Arglist(c) = SynctestArglist(c) BY <1>1, <1>9 DEF Arglist
  <2>2. SynctestArglist(c).script = "synctest.py" /\ SynctestArglist(c).processes = c.processes BY DEF SynctestArglist
  <2>3. "processes" \in DOMAIN SynctestArglist(c) /\ "server" \notin DOMAIN SynctestArglist(c) BY DEF SynctestArglist
  <2> QED BY <1>1, <1>9, <2>1, <2>2, <2>3 DEF OwnFile, PlainArguments
<1>10. CASE w = "waitforever" BY <1>1, <1>10 DEF Arglist, OwnFile, PlainArguments
<1>11. CASE w \in {"cpusoaker", "failure", "logger", "sleep"} BY <1>1, <1>11 DEF Arglist, OwnFile, PlainArguments
<1> QED BY <1>2, <1>3, <1>4, <1>5, <1>6, <1>7, <1>8, <1>9, <1>10, <1>11 DEF Registered

LEMMA OwnScript ==
  ASSUME NEW w \in Registered \ {"server", "uperf", "pausepod"}
  PROVE  /\ OwnFile[w] \in ListConfigmaps(w) \cap PodFiles
         /\ OwnFile[w] \notin {"server.py", "uperf-server.py", "drop_cache.py", "", "uperf-client.py"}
<1>1. w \in DOMAIN OwnFile BY DEF Registered, OwnFile
<1>2. OwnFile[w] \in ListConfigmaps(w) \cap PodFiles BY <1>1 DEF ListConfigmaps, PodFiles
<1>3. OwnFile[w] \in {"byo.py", "cpusoaker.py", "failure.py", "files.py", "fio.py", "hammerdb.py", "logger.py", "memory.py",
                      "pausepod.py", "sleep.py", "synctest.py", "sysbench.py", "waitforever.py"}
  BY <1>1 DEF OwnFile
<1> QED BY <1>2, <1>3

\* What a run looks at of the arguments of a worker.
RoleArguments(c, role, args) ==
    /\ args.script \in SystemFiles(c) \ {""}
    /\ role = "server" <=> args.script \in Servers
    /\ args.script # "drop_cache.py"
    /\ args.script = "uperf-client.py" => role = "client"
    /\ role = "client" <=> "server" \in DOMAIN args
    /\ Processes(args) = IF role = NoRole THEN Max({c.processes, 1}) ELSE Max({1, 1})

LEMMA ArgumentsOfRole ==
  ASSUME NEW c, IsConfig(c), c.resolved # "pausepod", NEW ns, NEW dep, NEW role \in Roles(c)
  PROVE  RoleArguments(c, role, RoleArglist(c, ns, dep, role))
<1> DEFINE args == RoleArglist(c, ns, dep, role)
<1>1. CASE role = "server"
  <2>1. c.resolved \in {"server", "uperf"} BY <1>1 DEF Roles, IsClientServer
  <2>2. args = ServerArglist(c) BY <1>1 DEF RoleArglist
  <2>3. args.script = (IF c.resolved = "server" THEN "server.py" ELSE "uperf-server.py") /\ args.processes = 1
        /\ "processes" \in DOMAIN args /\ "server" \notin DOMAIN args
    BY <2>2 DEF ServerArglist
  <2> HIDE DEF args
  <2>4. args.script \in SystemFiles(c) BY <2>1, <2>3 DEF SystemFiles, ListConfigmaps, PodFiles
  <2>5. Processes(args) = Max({1, 1}) BY <2>3 DEF Processes
  <2> QED BY <1>1, <2>3, <2>4, <2>5 DEF RoleArguments, Servers, NoRole, args
<1>2. CASE role = "client"
  <2>1. c.resolved \in {"server", "uperf"} BY <1>2 DEF Roles, IsClientServer
  <2>2. args = ClientArglist(c, ns, dep) BY <1>2 DEF RoleArglist
  <2>3. args.script = (IF c.resolved = "server" THEN "client.py" ELSE "uperf-client.py") /\ args.processes = 1
        /\ "processes" \in DOMAIN args /\ "server" \in DOMAIN args
    <3>1. PICK host : host = ServerHost(c, ns, dep) OBVIOUS
    <3> QED BY <2>2, <3>1 DEF ClientArglist
  <2> HIDE DEF args
  <2>4. args.script \in SystemFiles(c) BY <2>1, <2>3 DEF SystemFiles, ListConfigmaps, PodFiles
  <2>5. Processes(args) = Max({1, 1}) BY <2>3 DEF Processes
  <2> QED BY <1>2, <2>3, <2>4, <2>5 DEF RoleArguments, Servers, NoRole, args
<1>3. CASE role = NoRole
  <2>1. c.resolved \in Registered \ {"server", "uperf", "pausepod"} BY <1>3 DEF Roles, IsClientServer, IsConfig, NoRole
  <2>2. args = Arglist(c) BY <1>3 DEF RoleArglist, NoRole
  <2>3. PlainArguments(c, args) BY <2>1, <2>2, OwnArguments DEF IsConfig, OneProcess
  <2> HIDE DEF args
  <2>4. PICK w : w = c.resolved OBVIOUS
  <2>5. args.script = OwnFile[w] /\ args.processes = c.processes
        /\ "processes" \in DOMAIN args /\ "server" \notin DOMAIN args
    BY <2>3, <2>4 DEF PlainArguments
  <2>6. OwnFile[w] \in SystemFiles(c) BY <2>1, <2>4, OwnScript DEF SystemFiles
  <2>7. OwnFile[w] \notin {"server.py", "uperf-server.py", "drop_cache.py", "", "uperf-client.py"} BY <2>1, <2>4, OwnScript
  <2>8. Processes(args) = Max({c.processes, 1}) BY <2>5 DEF Processes
  <2> QED BY <1>3, <2>5, <2>6, <2>7, <2>8 DEF RoleArguments, Servers, NoRole, args
<1> QED BY <1>1, <1>2, <1>3 DEF Roles, NoRole

LEMMA RoleScript ==
  ASSUME NEW c, IsConfig(c), NEW ns, NEW dep, NEW role \in Roles(c)
  PROVE  RoleArglist(c, ns, dep, role).script \in SystemFiles(c) \cup {""}
<1>1. CASE c.resolved = "pausepod"
  <2>1. role = NoRole BY <1>1 DEF Roles, IsClientServer, NoRole
  <2>2. RoleArglist(c, ns, dep, role) = Arglist(c) BY <2>1 DEF RoleArglist, NoRole
  <2>3. Arglist(c).script = "" BY <1>1 DEF Arglist
  <2> QED BY <2>2, <2>3
<1>2. CASE c.resolved # "pausepod" BY <1>2, ArgumentsOfRole DEF RoleArguments
<1> QED BY <1>1, <1>2

\* Volumes and the sources they are from.
LEMMA SecretIs ==
  ASSUME NEW c, NEW x, NEW dep \in Deps(c), NEW k \in 0..(c.secrets - 1)
  PROVE  SecretName(NsName(x), <<N(dep)>>, k) \in CreatedSecrets(c, NsName(x))
<1> DEFINE secret == <<"secret">>
           inst == <<N(dep)>>
           num == <<N(k)>>
           s == Cat(Cat(Cat(secret, NsName(x)), inst), num)
           t == <<"secret", Basename, x, N(dep), N(k)>>
<1>1. IsSeq(secret, 1) /\ IsSeq(inst, 1) /\ IsSeq(num, 1) /\ IsSeq(t, 5) BY Tuples
<1>2. t[1] = secret[1] /\ t[2] = Basename /\ t[3] = x /\ t[4] = inst[1] /\ t[5] = num[1] OBVIOUS
<1>3. SecretName(NsName(x), inst, k) = s BY DEF SecretName, Cat
<1>4. NsName(x)[Len(NsName(x))] = x BY NsNameIs, SeqLen
<1>5. <<"secret", Basename, NsName(x)[Len(NsName(x))], N(dep), N(k)>> \in CreatedSecrets(c, NsName(x)) BY DEF CreatedSecrets
<1>6. t \in CreatedSecrets(c, NsName(x)) BY <1>4, <1>5
<1> HIDE DEF secret, inst, num, t
<1>7. IsSeq(Cat(secret, NsName(x)), 3) /\ Cat(secret, NsName(x))[1] = secret[1]
      /\ Cat(secret, NsName(x))[2] = Basename /\ Cat(secret, NsName(x))[3] = x
  BY <1>1, NsNameIs, CatIs
<1>8. PICK a : a = Cat(secret, NsName(x)) OBVIOUS
<1>9. IsSeq(Cat(a, inst), 4) /\ \A i \in 1..3 : Cat(a, inst)[i] = a[i] BY <1>1, <1>7, <1>8, CatIs
<1>10. Cat(a, inst)[4] = inst[1] BY <1>1, <1>7, <1>8, CatIs
<1>11. PICK b : b = Cat(a, inst) OBVIOUS
<1>12. IsSeq(Cat(b, num), 5) /\ \A i \in 1..4 : Cat(b, num)[i] = b[i] BY <1>1, <1>9, <1>11, CatIs
<1>13. Cat(b, num)[5] = num[1] BY <1>1, <1>9, <1>11, CatIs
<1>14. s = Cat(b, num) BY <1>8, <1>11
<1>15. \A i \in 1..5 : t[i] = s[i]
  <2>1. s[1] = t[1] /\ s[2] = t[2] /\ s[3] = t[3] BY <1>2, <1>7, <1>8, <1>9, <1>11, <1>12, <1>14
  <2>2. s[4] = t[4] BY <1>2, <1>10, <1>11, <1>12, <1>14
  <2>3. s[5] = t[5] BY <1>2, <1>13, <1>14
  <2> QED BY <2>1, <2>2, <2>3
<1>16. s = t BY <1>1, <1>12, <1>14, <1>15, SameSeq
<1> QED BY <1>3, <1>6, <1>16 DEF inst

LEMMA ConfigSource ==
  ASSUME NEW c, NEW m, NEW v
  PROVE  /\ v = ConfigVolume("system") => SourceExists(c, m, v)
         /\ v = ConfigVolume("user") /\ m.ns \in Range(Nss(c)) => SourceExists(c, m, v)
<1>1. v = ConfigVolume("system") => v.kind = "ConfigMap" /\ v.source = SystemName
  BY DEF ConfigVolume, Volume, SystemName
<1>2. v = ConfigVolume("user") => v.kind = "ConfigMap" /\ v.source = UserName
  BY DEF ConfigVolume, Volume, UserName
<1> QED BY <1>1, <1>2, SystemIs DEF SourceExists

LEMMA OtherSource ==
  ASSUME NEW c, NEW m, NEW v, v.kind \in {"Claim", "none"}
  PROVE  SourceExists(c, m, v)
BY DEF SourceExists

LEMMA WorkerSources ==
  ASSUME NEW c, NEW ns \in Range(Nss(c)), NEW dep \in Deps(c), NEW r, NEW m, m.ns = ns, NEW v \in WorkerVolumes(c, ns, dep, r)
  PROVE  SourceExists(c, m, v)
<1>1. CASE v \in {Volume(s, "Secret", s) : s \in SecretVolumes(c, ns, <<N(dep)>>)}
  <2>1. PICK s \in SecretVolumes(c, ns, <<N(dep)>>) : v = Volume(s, "Secret", s) BY <1>1
  <2>2. PICK k \in 0..(c.secrets - 1) : s = SecretName(ns, <<N(dep)>>, k) BY DEF SecretVolumes
  <2>3. PICK x : ns = NsName(x) BY NsForm
  <2>4. s \in CreatedSecrets(c, ns) BY <2>2, <2>3, SecretIs
  <2>5. v.kind = "Secret" /\ v.source = s BY <2>1 DEF Volume
  <2> QED BY <2>4, <2>5 DEF SourceExists
<1>2. CASE v \in {ConfigVolume("user"), ConfigVolume("system")} BY <1>2, ConfigSource
<1>3. CASE v.kind \in {"Claim", "none"} BY <1>3, OtherSource
<1> QED BY <1>1, <1>2, <1>3 DEF WorkerVolumes, Volumes, Volume

LEMMA MachineSources ==
  ASSUME NEW c, NEW ns \in Range(Nss(c)), NEW m, m.ns = ns, NEW v \in VmVolumes(c, ns)
  PROVE  SourceExists(c, m, v)
<1>1. v \in {ConfigVolume("user"), ConfigVolume("system")} \/ v.kind \in {"Claim", "none"}
  BY DEF VmVolumes, Volumes, Volume, SecretVolumes
<1> QED BY <1>1, ConfigSource, OtherSource

\* Mounts.
PlainlyNamed(v) == ToSet(v.name) \cap {"%N", "%i", "%r"} = {}

LEMMA NotExpanded ==
  ASSUME NEW v, PlainlyNamed(v), NEW ns, NEW inst, NEW rep
  PROVE  ExpandVolumeName(v.name, ns, inst, rep) = v.name
BY DEF PlainlyNamed, ExpandVolumeName, ToSet, Range

LEMMA WorkerMounts ==
  ASSUME NEW c, IsConfig(c), \A i \in DOMAIN c.volumes : PlainlyNamed(c.volumes[i]), NEW ns, NEW dep, NEW r,
         NEW name \in VolumeMounts(c, ns, <<N(dep)>>, <<N(r)>>)
  PROVE  \E v \in WorkerVolumes(c, ns, dep, r) : v.name = name
<1> DEFINE inst == <<N(dep)>>
           rep == <<N(r)>>
           all == Volumes(c, ns, inst, rep, TRUE)
<1>1. CASE name \in SecretVolumes(c, ns, inst)
  <2>1. Volume(name, "Secret", name) \in all BY <1>1 DEF Volumes
  <2> QED BY <2>1 DEF Volume, WorkerVolumes
<1>2. CASE name \in {<<"user", "configmap">>, <<"system", "configmap">>, <<"workdir">>}
  <2>1. ConfigVolume("user") \in all /\ ConfigVolume("system") \in all /\ Volume(<<"workdir">>, "none", <<>>) \in all
    BY DEF Volumes
  <2>2. ConfigVolume("user").name = <<"user", "configmap">> /\ ConfigVolume("system").name = <<"system", "configmap">>
        /\ Volume(<<"workdir">>, "none", <<>>).name = <<"workdir">>
    BY DEF ConfigVolume, Volume
  <2> QED BY <1>2, <2>1, <2>2 DEF WorkerVolumes
<1>3. ASSUME NEW i \in DOMAIN c.volumes,
             name = IF NoName(c.volumes[i], EmptyTypes) THEN <<"cbemptydir", N(Unnamed(c, i, EmptyTypes))>>
                    ELSE ExpandVolumeName(c.volumes[i].name, ns, inst, rep)
      PROVE  \E v \in all : v.name = name
  <2> DEFINE u == c.volumes[i]
             claim == Volume(u.name, "Claim", ExpandVolumeName(IF u.claim = <<>> THEN u.name ELSE u.claim, ns, inst, rep))
             empty == Volume(IF u.name = <<>> THEN <<"cbemptydir", N(Unnamed(c, i, EmptyTypes))>> ELSE u.name, "none", <<>>)
  <2>1. u.type \in {"pvc", "emptydir", "emptydisk"} BY DEF IsConfig
  <2>2. (IF u.type = "pvc" THEN claim ELSE empty) \in all BY DEF Volumes
  <2>3. claim.name = u.name BY DEF Volume
  <2>4. empty.name = IF u.name = <<>> THEN <<"cbemptydir", N(Unnamed(c, i, EmptyTypes))>> ELSE u.name BY DEF Volume
  <2>5. ExpandVolumeName(u.name, ns, inst, rep) = u.name BY NotExpanded
  <2>6. NoName(u, EmptyTypes) <=> u.name = <<>> /\ u.type # "pvc" BY <2>1 DEF NoName, EmptyTypes
  <2> HIDE DEF u, claim, empty, all
  <2>7. CASE u.type = "pvc" BY <1>3, <2>2, <2>3, <2>5, <2>6, <2>7 DEF u
  <2>8. CASE u.type # "pvc" BY <1>3, <2>2, <2>4, <2>5, <2>6, <2>8 DEF u
  <2> QED BY <2>7, <2>8
<1> QED BY <1>1, <1>2, <1>3 DEF VolumeMounts, WorkerVolumes

LEMMA MachineMounts ==
  ASSUME NEW c, \A i \in DOMAIN c.volumes : c.volumes[i].type = "emptydisk" => c.volumes[i].name = <<>>,
         NEW name \in BootMounts(c)
  PROVE  \E d \in DomainDisks(c) : d.serial = name
<1>1. CASE name \in {<<"userconfigmap">>, <<"systemconfigmap">>}
  <2>1. PICK u, s : u = [name |-> <<"user", "configmap">>, serial |-> <<"userconfigmap">>]
                    /\ s = [name |-> <<"system", "configmap">>, serial |-> <<"systemconfigmap">>]
    OBVIOUS
  <2>2. u \in DomainDisks(c) /\ s \in DomainDisks(c) BY <2>1 DEF DomainDisks
  <2>3. u.serial = <<"userconfigmap">> /\ s.serial = <<"systemconfigmap">> BY <2>1
  <2> HIDE <2>1
  <2> QED BY <1>1, <2>2, <2>3
<1>2. ASSUME NEW i \in DiskVolumes(c),
             name = IF c.volumes[i].type = "emptydisk"
                    THEN <<"cbemptydisk", N(Cardinality({j \in DiskVolumes(c) : j < i /\ c.volumes[j].type = "emptydisk"}))>>
                    ELSE c.volumes[i].name
      PROVE  name = DiskName(c, i)
  <2>1. {j \in DiskVolumes(c) : j < i /\ c.volumes[j].type = "emptydisk"} =
           {j \in DOMAIN c.volumes : j < i /\ NoName(c.volumes[j], {"emptydisk"})}
    BY DEF DiskVolumes, NoName
  <2>2. PICK n : n = Unnamed(c, i, {"emptydisk"}) OBVIOUS
  <2>3. name = IF c.volumes[i].type = "emptydisk" THEN <<"cbemptydisk", N(n)>> ELSE c.volumes[i].name
    BY <1>2, <2>1, <2>2 DEF Unnamed
  <2>4. DiskName(c, i) = IF NoName(c.volumes[i], {"emptydisk"}) THEN <<"cbemptydisk", N(n)>> ELSE c.volumes[i].name
    BY <2>2 DEF DiskName
  <2>5. NoName(c.volumes[i], {"emptydisk"}) <=> c.volumes[i].type = "emptydisk" BY DEF NoName, DiskVolumes
  <2> QED BY <2>3, <2>4, <2>5
<1>3. ASSUME NEW i \in DiskVolumes(c), name = DiskName(c, i) PROVE \E d \in DomainDisks(c) : d.serial = name
  <2>1. [name |-> DiskName(c, i), serial |-> DiskName(c, i)] \in DomainDisks(c) BY DEF DomainDisks
  <2> QED BY <1>3, <2>1
<1> QED BY <1>1, <1>2, <1>3 DEF BootMounts

LEMMA MountsAre ==
  ASSUME NEW m
  PROVE  /\ m.kind = "VirtualMachine" => MountNames(m) = {d.serial : d \in m.disks}
         /\ m.kind # "VirtualMachine" => MountNames(m) = {v.name : v \in m.volumes}
BY DEF MountNames

\* The objects that can start.
LEMMA CanStartIs ==
  ASSUME NEW c, NEW m, Placed(Objects(c), m), \A v \in m.volumes : SourceExists(c, m, v),
         \A i \in DOMAIN m.containers : /\ m.containers[i].mounts \subseteq MountNames(m)
                                        /\ m.containers[i].args.script \in SystemFiles(c) \cup {""}
  PROVE  CanStart(c, Objects(c), m)
BY SystemIs DEF CanStart, ScriptExists

LEMMA WorkerStarts ==
  ASSUME NEW c, IsConfig(c), Startable(c), NEW m, IsWorkload(c, m)
  PROVE  CanStart(c, Objects(c), m)
<1>1. PICK ns \in Range(Nss(c)) : \E dep \in Deps(c) : \E role \in Roles(c) : \E r \in Copies(c, role) :
            /\ m = Worker(c, ns, dep, role, r, FirstAddress(c, 1, dep))
            /\ m.kind = WorkerKind(c, role) /\ m.ns = ns
  BY WorkloadOf
<1>2. PICK dep \in Deps(c) : \E role \in Roles(c) : \E r \in Copies(c, role) :
            /\ m = Worker(c, ns, dep, role, r, FirstAddress(c, 1, dep))
            /\ m.kind = WorkerKind(c, role) /\ m.ns = ns
  BY <1>1
<1>3. PICK role \in Roles(c) : \E r \in Copies(c, role) :
            /\ m = Worker(c, ns, dep, role, r, FirstAddress(c, 1, dep))
            /\ m.kind = WorkerKind(c, role) /\ m.ns = ns
  BY <1>2
<1>4. PICK r \in Copies(c, role) : /\ m = Worker(c, ns, dep, role, r, FirstAddress(c, 1, dep))
                                   /\ m.kind = WorkerKind(c, role) /\ m.ns = ns
  BY <1>3
<1>5. Placed(Objects(c), m) BY <1>4, WorkerIsPlaced
<1>6. RoleArglist(c, ns, dep, role).script \in SystemFiles(c) \cup {""} BY RoleScript
<1>7. CASE c.dtype = "vm"
  <2>1. m.volumes = VmVolumes(c, ns) /\ m.disks = DomainDisks(c) /\ m.containers = VmContainers(c, ns, dep, role)
    BY <1>4, <1>7, MachineHas
  <2>2. \A v \in m.volumes : SourceExists(c, m, v) BY <1>4, <2>1, MachineSources
  <2>3. ASSUME NEW i \in DOMAIN m.containers
        PROVE  m.containers[i].mounts = BootMounts(c) /\ m.containers[i].args = RoleArglist(c, ns, dep, role)
    BY <2>1 DEF VmContainers, Container
  <2>4. m.kind = "VirtualMachine" BY <1>4, <1>7 DEF WorkerKind
  <2>5. BootMounts(c) \subseteq MountNames(m) BY <2>1, <2>4, MountsAre, MachineMounts DEF Startable
  <2> QED BY <1>5, <1>6, <2>2, <2>3, <2>5, CanStartIs
<1>8. CASE c.dtype # "vm"
  <2>1. m.volumes = WorkerVolumes(c, ns, dep, r) /\ m.containers = BuildContainers(c, ns, dep, r, role)
    BY <1>4, <1>8, ContainerHas
  <2>2. \A v \in m.volumes : SourceExists(c, m, v) BY <1>4, <2>1, WorkerSources
  <2>3. ASSUME NEW i \in DOMAIN m.containers
        PROVE  /\ m.containers[i].mounts = VolumeMounts(c, ns, <<N(dep)>>, <<N(r)>>)
               /\ m.containers[i].args = RoleArglist(c, ns, dep, role)
    BY <2>1 DEF BuildContainers, Container
  <2>4. m.kind # "VirtualMachine" BY <1>4, <1>8 DEF WorkerKind
  <2>5. VolumeMounts(c, ns, <<N(dep)>>, <<N(r)>>) \subseteq MountNames(m)
    BY <2>1, <2>4, MountsAre, WorkerMounts DEF Startable, PlainlyNamed
  <2> QED BY <1>5, <1>6, <2>2, <2>3, <2>5, CanStartIs
<1> QED BY <1>7, <1>8

LEMMA DropCacheStarts ==
  ASSUME NEW c, IsConfig(c), Startable(c), NEW m, IsDropCache(c, m)
  PROVE  CanStart(c, Objects(c), m)
<1>1. RequiresDropCache(c) BY DropCacheOf
<1>2. Placed(Objects(c), m) BY <1>1, DropCacheIsPlaced DEF Startable
<1>3. PICK name, ns, worker : m = DropCachePod(c, name, ns, worker) BY DropCacheOf
<1>4. /\ m.kind = "Pod" /\ m.volumes = {ConfigVolume("system"), Volume(<<"proc-sys-vm">>, "none", <<>>)}
      /\ m.containers = <<Container("dc", [script |-> "drop_cache.py"], {<<"system", "configmap">>, <<"proc-sys-vm">>})>>
  BY <1>3 DEF DropCachePod, Manifest
<1>5. \A v \in m.volumes : SourceExists(c, m, v) BY <1>4, ConfigSource, OtherSource DEF Volume
<1>6. <<"system", "configmap">> \in MountNames(m) /\ <<"proc-sys-vm">> \in MountNames(m)
  <2>1. ConfigVolume("system").name = <<"system", "configmap">> BY DEF ConfigVolume, Volume
  <2>2. Volume(<<"proc-sys-vm">>, "none", <<>>).name = <<"proc-sys-vm">> BY DEF Volume
  <2>3. MountNames(m) = {v.name : v \in m.volumes} BY <1>4, MountsAre
  <2> QED BY <1>4, <2>1, <2>2, <2>3
<1>7. \A i \in DOMAIN m.containers : /\ m.containers[i].mounts = {<<"system", "configmap">>, <<"proc-sys-vm">>}
                                     /\ m.containers[i].args.script = "drop_cache.py"
  BY <1>4 DEF Container
<1>8. "drop_cache.py" \in SystemFiles(c) BY DEF SystemFiles, SharedPodFiles
<1> QED BY <1>2, <1>5, <1>6, <1>7, <1>8, CanStartIs

LEMMA SyncPodStarts ==
  ASSUME NEW c, Startable(c), NEW m, IsSyncPod(c, m)
  PROVE  CanStart(c, Objects(c), m)
<1>1. Placed(Objects(c), m) BY SyncIsPlaced DEF Startable
<1>2. PICK ns, e, i : m = SyncPod(c, ns, e, i) BY DEF IsSyncPod, SyncPodOf
<1>3. m.kind = "Pod" /\ m.volumes = {ConfigVolume("system")} BY <1>2 DEF SyncPod, Manifest
<1>4. m.containers = <<Container("sync", [script |-> "sync.py", expected |-> e, initial |-> i], {<<"system", "configmap">>})>>
  BY <1>2 DEF SyncPod, Manifest
<1>5. \A v \in m.volumes : SourceExists(c, m, v) BY <1>3, ConfigSource
<1>6. <<"system", "configmap">> \in MountNames(m)
  <2>1. ConfigVolume("system").name = <<"system", "configmap">> BY DEF ConfigVolume, Volume
  <2>2. MountNames(m) = {v.name : v \in m.volumes} BY <1>3, MountsAre
  <2> QED BY <1>3, <2>1, <2>2
<1>7. \A j \in DOMAIN m.containers : /\ m.containers[j].mounts = {<<"system", "configmap">>}
                                     /\ m.containers[j].args.script = "sync.py"
  BY <1>4 DEF Container
<1>8. "sync.py" \in SystemFiles(c) BY DEF SystemFiles, SharedPodFiles
<1> QED BY <1>1, <1>5, <1>6, <1>7, <1>8, CanStartIs

LEMMA ContainersOf ==
  ASSUME NEW c, IsConfig(c), NEW m \in Objects(c), m.containers # <<>>
  PROVE  IsSyncPod(c, m) \/ IsDropCache(c, m) \/ IsWorkload(c, m)
<1>1. PICK none : none = <<>> OBVIOUS
<1>2. \A ns \in Range(Nss(c)), dep \in Deps(c) : m \in PlanServices(c, ns, dep) => m.containers = none BY <1>1, ServiceOf
<1>3. IsSyncService(c, m) => m.containers = none BY <1>1, PlainIs DEF IsSyncService
<1>4. IsExternal(c, m) => m.containers = none BY <1>1, PlainIs DEF IsExternal
<1>5. IsSyncMap(c, m) => m.containers = none BY <1>1, ConfigmapIs DEF IsSyncMap
<1>6. m.containers # none BY <1>1
<1> HIDE <1>1
<1> QED BY <1>2, <1>3, <1>4, <1>5, <1>6, ObjectIs DEF IsSync, IsServerService

\* For all command lines but those of the defects that Startable names: every pod of the
\* plan finds the pod it must be with, the sources of its volumes, the volumes it mounts and its
\* script (affinity, volume_mounts and volumes, _create_all_secrets, system_configmap).
THEOREM AllPodsCanStart == Spec => []PodsCanStart
<1>1. PlanInv => PodsCanStart
  <2> SUFFICES ASSUME PlanInv, Planned, Startable(cfg), NEW m \in Objects(cfg), m.containers # <<>>
               PROVE  CanStart(cfg, Objects(cfg), m)
    BY DEF PodsCanStart
  <2>1. IsConfig(cfg) BY PlannedConfig
  <2> QED BY <2>1, ContainersOf, WorkerStarts, DropCacheStarts, SyncPodStarts
<1> QED BY <1>1, PlanInvariant, PTL

-----------------------------------------------------------------------------
(***************************************************************************)
(* The main processes and the workers, counted.                            *)
(***************************************************************************)
LEMMA NssAre ==
  ASSUME NEW c, IsConfig(c)
  PROVE  \A k \in 1..c.namespaces : Nss(c)[k] = NsName(N(k - 1))
<1> DEFINE free == {i \in 0..(c.namespaces + Cardinality({})) : <<Basename, N(i)>> \notin {}}
<1>1. c.namespaces \in Nat BY DEF IsConfig
<1>2. free = 0..c.namespaces BY <1>1, FS_EmptySet
<1>3. Nss(c) = [k \in 1..c.namespaces |-> <<Basename, N(CHOOSE i \in free : Cardinality({j \in free : j < i}) = k - 1)>>]
  BY DEF Nss, PlanNamespaceNames
<1> HIDE DEF free
<1>4. ASSUME NEW i \in free PROVE Cardinality({j \in free : j < i}) = i
  <2>1. i \in Nat /\ {j \in free : j < i} = 0..(i - 1) BY <1>1, <1>2
  <2>2. Cardinality(0..(i - 1)) = i BY <2>1, FS_Interval
  <2> QED BY <2>1, <2>2
<1>5. ASSUME NEW k \in 1..c.namespaces
      PROVE  (CHOOSE i \in free : Cardinality({j \in free : j < i}) = k - 1) = k - 1
  <2>1. k - 1 \in free BY <1>1, <1>2
  <2> QED BY <1>4, <2>1
<1> QED BY <1>3, <1>5 DEF NsName

LEMMA SameNs ==
  ASSUME NEW c, IsConfig(c), NEW k \in 1..c.namespaces, NEW l \in 1..c.namespaces, Nss(c)[k] = Nss(c)[l]
  PROVE  k = l
<1>1. NsName(N(k - 1)) = NsName(N(l - 1)) BY NssAre
<1>2. N(k - 1) = N(l - 1) BY <1>1, NsNameIs
<1>3. c.namespaces \in Nat /\ c.namespaces <= MaxNumber + 1 /\ MaxNumber \in Nat BY NumeralAssumption DEF IsConfig
<1>4. k - 1 \in 0..MaxNumber /\ l - 1 \in 0..MaxNumber BY <1>3
<1>5. k - 1 = l - 1 BY <1>2, <1>4, NumeralAssumption
<1> QED BY <1>3, <1>5

LEMMA NssCounted ==
  ASSUME NEW c, IsConfig(c)
  PROVE  Len(Nss(c)) = c.namespaces /\ Range(Nss(c)) = {Nss(c)[k] : k \in 1..c.namespaces}
<1>1. c.namespaces \in Nat BY DEF IsConfig
<1>2. DOMAIN Nss(c) = 1..c.namespaces BY NssOf
<1>3. Nss(c) = [k \in 1..c.namespaces |-> NsName(N(k - 1))] BY <1>2, NssAre DEF Nss, PlanNamespaceNames
<1>4. IsSeq(Nss(c), c.namespaces) BY <1>1, <1>3 DEF IsSeq
<1> QED BY <1>2, <1>4, SeqLen DEF Range

\* As many as there are quadruples of what tells them apart.
Quadruples(A, B, C, D) == (A \X B) \X (C \X D)

LEMMA Counted4 ==
  ASSUME NEW A, NEW B, NEW C, NEW D, IsFiniteSet(A), IsFiniteSet(B), IsFiniteSet(C), IsFiniteSet(D), NEW T,
         NEW f \in [Quadruples(A, B, C, D) -> T],
         \A s, t \in Quadruples(A, B, C, D) : f[s] = f[t] => s = t,
         \A e \in T : \E t \in Quadruples(A, B, C, D) : f[t] = e
  PROVE  IsFiniteSet(T) /\ Cardinality(T) = (Cardinality(A) * Cardinality(B)) * (Cardinality(C) * Cardinality(D))
<1>1. IsFiniteSet(A \X B) /\ Cardinality(A \X B) = Cardinality(A) * Cardinality(B) BY FS_Product
<1>2. IsFiniteSet(C \X D) /\ Cardinality(C \X D) = Cardinality(C) * Cardinality(D) BY FS_Product
<1>3. IsFiniteSet((A \X B) \X (C \X D))
      /\ Cardinality((A \X B) \X (C \X D)) = Cardinality(A \X B) * Cardinality(C \X D)
  <2>1. PICK P, Q : P = A \X B /\ Q = C \X D OBVIOUS
  <2>2. IsFiniteSet(P) /\ IsFiniteSet(Q) BY <1>1, <1>2, <2>1
  <2>3. IsFiniteSet(P \X Q) /\ Cardinality(P \X Q) = Cardinality(P) * Cardinality(Q) BY <2>2, FS_Product
  <2> QED BY <2>1, <2>3
<1>4. f \in Bijection(Quadruples(A, B, C, D), T) BY Fun_IsBij
<1>5. ExistsBijection(Quadruples(A, B, C, D), T) BY <1>4, Fun_ExistsBij
<1>6. IsFiniteSet(T) /\ Cardinality(T) = Cardinality(Quadruples(A, B, C, D)) BY <1>3, <1>5, FS_Bijection DEF Quadruples
<1> QED BY <1>1, <1>2, <1>3, <1>6 DEF Quadruples

\* The main process of a container.
Key(ns, name, i) == <<ns, name, i>>

LEMMA KeyIs ==
  ASSUME NEW ns, NEW name, NEW i
  PROVE  /\ Key(ns, name, i)[1] = ns /\ Key(ns, name, i)[2] = name /\ Key(ns, name, i)[3] = i
         /\ \A ms, o, j : Key(ns, name, i) = Key(ms, o, j) => ns = ms /\ name = o /\ i = j
BY DEF Key

WorkerKey(c, k, d, role, r, i) == Key(Nss(c)[k], WorkerName(c, Nss(c)[k], d, role, r), i)

DropKey(c, k, d, r) == Key(Nss(c)[k], MkPodName(c, DropCacheName(c, Nss(c)[k], d, r)), 1)

WorkerKeys(c, role) ==
    {WorkerKey(c, k, d, role, r, i) : k \in 1..c.namespaces, d \in Deps(c), r \in Copies(c, role), i \in 1..c.containers}

DropKeys(c) == {DropKey(c, k, d, r) : k \in 1..c.namespaces, d \in Deps(c), r \in 1..c.replicas}

LEMMA SameWorkerKey ==
  ASSUME NEW c, IsConfig(c), NEW k \in 1..c.namespaces, NEW l \in 1..c.namespaces, NEW d \in Deps(c), NEW e \in Deps(c),
         NEW role \in Roles(c), NEW part \in Roles(c), NEW q \in Copies(c, role), NEW r \in Copies(c, part), NEW i, NEW j,
         WorkerKey(c, k, d, role, q, i) = WorkerKey(c, l, e, part, r, j)
  PROVE  k = l /\ d = e /\ role = part /\ q = r /\ i = j
<1>1. PICK ms, ns : ms = Nss(c)[k] /\ ns = Nss(c)[l] OBVIOUS
<1>2. Key(ms, WorkerName(c, ms, d, role, q), i) = Key(ns, WorkerName(c, ns, e, part, r), j) BY <1>1 DEF WorkerKey
<1>3. ms = ns /\ WorkerName(c, ms, d, role, q) = WorkerName(c, ns, e, part, r) /\ i = j BY <1>2, KeyIs
<1>4. k = l BY <1>1, <1>3, SameNs
<1>5. PICK x : ms = NsName(x) BY <1>1, NssAre
<1>6. WorkerName(c, NsName(x), d, role, q) = WorkerName(c, NsName(x), e, part, r) BY <1>3, <1>5
<1>7. role = part /\ N(d) = N(e) /\ N(q) = N(r)
  <2>1. PICK m, n : IsSeq(PlainName(c, NsName(x), d, role, q), m) /\ IsSeq(PlainName(c, NsName(x), e, part, r), n)
    BY IsSeqOfPlainName
  <2>2. PlainName(c, NsName(x), d, role, q) = PlainName(c, NsName(x), e, part, r) BY <1>6, <2>1, PrefixIs DEF WorkerName
  <2> QED BY <2>2, SamePlainName
<1>8. d = e /\ q = r BY <1>7, Numerals
<1> QED BY <1>3, <1>4, <1>7, <1>8

LEMMA SameDropKey ==
  ASSUME NEW c, IsConfig(c), RequiresDropCache(c), NEW k \in 1..c.namespaces, NEW l \in 1..c.namespaces,
         NEW d \in Deps(c), NEW e \in Deps(c), NEW q \in 1..c.replicas, NEW r \in 1..c.replicas,
         DropKey(c, k, d, q) = DropKey(c, l, e, r)
  PROVE  k = l /\ d = e /\ q = r
<1>1. PICK ms, ns : ms = Nss(c)[k] /\ ns = Nss(c)[l] OBVIOUS
<1>2. Key(ms, MkPodName(c, DropCacheName(c, ms, d, q)), 1) = Key(ns, MkPodName(c, DropCacheName(c, ns, e, r)), 1)
  BY <1>1 DEF DropKey
<1>3. ms = ns /\ MkPodName(c, DropCacheName(c, ms, d, q)) = MkPodName(c, DropCacheName(c, ns, e, r)) BY <1>2, KeyIs
<1>4. k = l BY <1>1, <1>3, SameNs
<1>5. PICK x : ms = NsName(x) BY <1>1, NssAre
<1>6. MkPodName(c, DropCacheName(c, NsName(x), d, q)) = MkPodName(c, DropCacheName(c, NsName(x), e, r)) BY <1>3, <1>5
<1>7. N(d) = N(e) /\ N(q) = N(r) BY <1>6, SameDropCacheName
<1>8. NoRole \in Roles(c) /\ Copies(c, NoRole) = 1..c.replicas BY DropCacheRoles DEF Roles, Copies, NoRole
<1> QED BY <1>4, <1>7, <1>8, Numerals

\* A worker has never the name of a drop-cache pod.
LEMMA KeysApart ==
  ASSUME NEW c, IsConfig(c), NEW x, NEW y, NEW d, NEW e, NEW q, NEW r
  PROVE  WorkerName(c, NsName(x), d, NoRole, q) # MkPodName(c, DropCacheName(c, NsName(y), e, r))
<1>1. PICK s, t : s = PlainName(c, NsName(x), d, NoRole, q) /\ t = DropCacheName(c, NsName(y), e, r) OBVIOUS
<1>2. IsSeq(s, 5) /\ IsSeq(t, 6) BY <1>1, PlainOfDep, DropCacheNameIs
<1>3. MkPodName(c, t) # MkPodName(c, s) BY <1>1, DropCacheNamed
<1>4. MkPodName(c, t) # s
  <2>1. CASE c.podprefix = ""
    <3>1. MkPodName(c, t) = t BY <2>1 DEF MkPodName
    <3>2. s # t BY <1>2, SameSeq
    <3> QED BY <3>1, <3>2
  <2>2. CASE c.podprefix # ""
    <3>1. \A m : IsSeq(t, m) => IsSeq(MkPodName(c, t), 1 + m) BY <1>2, <2>2, PrefixIs
    <3>2. IsSeq(MkPodName(c, t), 7) BY <1>2, <3>1
    <3> QED BY <1>2, <3>2, SameSeq
  <2> QED BY <2>1, <2>2
<1> QED BY <1>1, <1>3, <1>4 DEF WorkerName

LEMMA WorkerContainers ==
  ASSUME NEW c, IsConfig(c), NEW ns, NEW dep, NEW role, NEW r, NEW first
  PROVE  /\ DOMAIN Worker(c, ns, dep, role, r, first).containers = 1..c.containers
         /\ \A i \in 1..c.containers :
               Worker(c, ns, dep, role, r, first).containers[i].args = RoleArglist(c, ns, dep, role)
<1>1. PICK m : m = Worker(c, ns, dep, role, r, first) OBVIOUS
<1>2. PICK args : args = RoleArglist(c, ns, dep, role) OBVIOUS
<1>3. CASE c.dtype = "vm"
  <2>1. m.containers = <<Container("vm", args, BootMounts(c))>> BY <1>1, <1>2, <1>3, MachineHas DEF VmContainers
  <2>2. c.containers = 1 BY <1>3 DEF IsConfig
  <2> QED BY <1>1, <1>2, <2>1, <2>2 DEF Container
<1>4. CASE c.dtype # "vm"
  <2>1. m.containers = BuildContainers(c, ns, dep, r, role) BY <1>1, <1>4, ContainerHas
  <2> QED BY <1>1, <1>2, <2>1 DEF BuildContainers, Container
<1> QED BY <1>3, <1>4

LEMMA PlacesAre ==
  ASSUME NEW m
  PROVE  Places(m) = {Key(m.ns, m.name, i) : i \in {j \in DOMAIN m.containers : m.containers[j].args.script # ""}}
BY DEF Places, Key

LEMMA WorkerPlaces ==
  ASSUME NEW c, IsConfig(c), c.resolved # "pausepod", NEW ns, NEW dep, NEW role \in Roles(c), NEW r, NEW first
  PROVE  Places(Worker(c, ns, dep, role, r, first)) = {Key(ns, WorkerName(c, ns, dep, role, r), i) : i \in 1..c.containers}
<1>1. PICK m : m = Worker(c, ns, dep, role, r, first) OBVIOUS
<1>2. DOMAIN m.containers = 1..c.containers
      /\ \A i \in 1..c.containers : m.containers[i].args = RoleArglist(c, ns, dep, role)
  BY <1>1, WorkerContainers
<1>3. RoleArglist(c, ns, dep, role).script # "" BY ArgumentsOfRole DEF RoleArguments
<1>4. {j \in DOMAIN m.containers : m.containers[j].args.script # ""} = 1..c.containers BY <1>2, <1>3
<1>5. m.ns = ns /\ m.name = WorkerName(c, ns, dep, role, r) BY <1>1, WorkerIs
<1> QED BY <1>1, <1>4, <1>5, PlacesAre

LEMMA DropCachePlaces ==
  ASSUME NEW c, NEW name, NEW ns, NEW worker
  PROVE  /\ Places(DropCachePod(c, name, ns, worker)) = {Key(ns, MkPodName(c, name), 1)}
         /\ DropCachePod(c, name, ns, worker).containers[1].args = [script |-> "drop_cache.py"]
         /\ DropCachePod(c, name, ns, worker).containers # <<>>
<1>1. PICK m : m = DropCachePod(c, name, ns, worker) OBVIOUS
<1>2. m.containers = <<Container("dc", [script |-> "drop_cache.py"], {<<"system", "configmap">>, <<"proc-sys-vm">>})>>
  BY <1>1 DEF DropCachePod, Manifest
<1>3. DOMAIN m.containers = {1} /\ m.containers[1].args = [script |-> "drop_cache.py"] /\ m.containers # <<>>
  BY <1>2 DEF Container
<1>4. m.ns = ns /\ m.name = MkPodName(c, name) BY <1>1, DropCachePodIs
<1>5. {j \in DOMAIN m.containers : m.containers[j].args.script # ""} = {1}
  <2>1. m.containers[1].args.script = "drop_cache.py" BY <1>3
  <2> QED BY <1>3, <2>1
<1>6. Places(m) = {Key(m.ns, m.name, i) : i \in {1}} BY <1>5, PlacesAre
<1>7. Places(m) = {Key(ns, MkPodName(c, name), 1)} BY <1>4, <1>6
<1> QED BY <1>1, <1>3, <1>7

LEMMA DropCachesCreated ==
  ASSUME NEW c, IsConfig(c), RequiresDropCache(c), NEW ns \in Range(Nss(c)), NEW dep \in Deps(c), NEW r \in 1..c.replicas
  PROVE  DropCachePod(c, DropCacheName(c, ns, dep, r), ns, PlainName(c, ns, dep, NoRole, r)) \in Objects(c)
<1>1. c.syncstart \in BOOLEAN BY DEF IsConfig
<1>2. PICK m : m = DropCachePod(c, DropCacheName(c, ns, dep, r), ns, PlainName(c, ns, dep, NoRole, r)) OBVIOUS
<1>3. m \in PlanDropCache(c, ns, dep) BY <1>2 DEF PlanDropCache, DropCacheName, PlainName, Base, NoRole
<1>4. PICK one : one = <<ns>> OBVIOUS
<1>5. 1 \in DOMAIN one /\ one[1] = ns BY <1>4
<1>6. m \in PlanDeployment(c, ns, dep, FirstAddress(c, 1, dep)) BY <1>3, WorkersOfDeployment
<1>7. m \in BuildManifestPlan(c, one) BY <1>1, <1>5, <1>6, InPlan
<1>8. m.kind \notin InfraKinds /\ m.name # SyncPodName BY <1>3, PartsOfDeployment DEF InfraKinds
<1>9. m \in DeploymentsOf(c, ns) BY <1>4, <1>7, <1>8 DEF DeploymentsOf
<1> QED BY <1>2, <1>9 DEF Objects, Created

\* The objects of the main processes.
WorkerAt(c, k, d, role, r) == Worker(c, Nss(c)[k], d, role, r, FirstAddress(c, 1, d))

DropAt(c, k, d, r) ==
    DropCachePod(c, DropCacheName(c, Nss(c)[k], d, r), Nss(c)[k], PlainName(c, Nss(c)[k], d, NoRole, r))

LEMMA NsOf ==
  ASSUME NEW c, IsConfig(c)
  PROVE  /\ \A k \in 1..c.namespaces : Nss(c)[k] \in Range(Nss(c))
         /\ \A ns \in Range(Nss(c)) : \E k \in 1..c.namespaces : ns = Nss(c)[k]
BY NssCounted

LEMMA WorkerAtIs ==
  ASSUME NEW c, IsConfig(c), c.resolved # "pausepod", NEW k \in 1..c.namespaces, NEW d \in Deps(c), NEW role \in Roles(c),
         NEW r \in Copies(c, role)
  PROVE  /\ Places(WorkerAt(c, k, d, role, r)) = {WorkerKey(c, k, d, role, r, i) : i \in 1..c.containers}
         /\ 1..c.containers # {} => WorkerAt(c, k, d, role, r) \in Workloads(c)
         /\ WorkerAt(c, k, d, role, r).ns = Nss(c)[k]
         /\ WorkerAt(c, k, d, role, r).name = WorkerName(c, Nss(c)[k], d, role, r)
         /\ \A i \in 1..c.containers : WorkerAt(c, k, d, role, r).containers[i].args = RoleArglist(c, Nss(c)[k], d, role)
<1>1. PICK ns : ns = Nss(c)[k] OBVIOUS
<1>2. ns \in Range(Nss(c)) BY <1>1, NsOf
<1>3. PICK o : o = Worker(c, ns, d, role, r, FirstAddress(c, 1, d)) OBVIOUS
<1>4. o = WorkerAt(c, k, d, role, r) BY <1>1, <1>3 DEF WorkerAt
<1>5. Places(o) = {Key(ns, WorkerName(c, ns, d, role, r), i) : i \in 1..c.containers} BY <1>3, WorkerPlaces
<1>6. Places(o) = {WorkerKey(c, k, d, role, r, i) : i \in 1..c.containers} BY <1>1, <1>5 DEF WorkerKey
<1>7. o.ns = ns /\ o.name = WorkerName(c, ns, d, role, r) BY <1>3, WorkerIs
<1>8. DOMAIN o.containers = 1..c.containers
      /\ \A i \in 1..c.containers : o.containers[i].args = RoleArglist(c, ns, d, role)
  BY <1>3, WorkerContainers
<1>9. ASSUME 1..c.containers # {} PROVE o \in Workloads(c)
  <2>1. DOMAIN o.containers # {} BY <1>8, <1>9
  <2>2. o.containers # <<>> BY <2>1
  <2>3. o.name # MkPodName(c, SyncPodName) BY <1>2, <1>7, WorkerNamed
  <2>4. o \in Objects(c) BY <1>2, <1>3, WorkersCreated
  <2> QED BY <2>2, <2>3, <2>4 DEF Workloads
<1> QED BY <1>1, <1>4, <1>6, <1>7, <1>8, <1>9

LEMMA DropAtIs ==
  ASSUME NEW c, IsConfig(c), RequiresDropCache(c), NEW k \in 1..c.namespaces, NEW d \in Deps(c), NEW r \in 1..c.replicas
  PROVE  /\ Places(DropAt(c, k, d, r)) = {DropKey(c, k, d, r)}
         /\ DropAt(c, k, d, r) \in Workloads(c)
         /\ DropAt(c, k, d, r).containers[1].args = [script |-> "drop_cache.py"]
<1>1. PICK ns : ns = Nss(c)[k] OBVIOUS
<1>2. ns \in Range(Nss(c)) BY <1>1, NsOf
<1>3. PICK o : o = DropCachePod(c, DropCacheName(c, ns, d, r), ns, PlainName(c, ns, d, NoRole, r)) OBVIOUS
<1>4. o = DropAt(c, k, d, r) BY <1>1, <1>3 DEF DropAt
<1>5. Places(o) = {Key(ns, MkPodName(c, DropCacheName(c, ns, d, r)), 1)}
      /\ o.containers[1].args = [script |-> "drop_cache.py"] /\ o.containers # <<>>
  BY <1>3, DropCachePlaces
<1>6. o.name = MkPodName(c, DropCacheName(c, ns, d, r)) BY <1>3, DropCachePodIs
<1>7. o.name # MkPodName(c, SyncPodName) BY <1>2, <1>6, WorkerNamed
<1>8. o \in Objects(c) BY <1>2, <1>3, DropCachesCreated
<1>9. o \in Workloads(c) BY <1>5, <1>7, <1>8 DEF Workloads
<1> QED BY <1>1, <1>4, <1>5, <1>9 DEF DropKey

LEMMA WorkloadAt ==
  ASSUME NEW c, IsConfig(c), NEW o \in Workloads(c)
  PROVE  \/ \E k \in 1..c.namespaces, d \in Deps(c), role \in Roles(c) : \E r \in Copies(c, role) : o = WorkerAt(c, k, d, role, r)
         \/ RequiresDropCache(c) /\ \E k \in 1..c.namespaces, d \in Deps(c), r \in 1..c.replicas : o = DropAt(c, k, d, r)
<1>1. o \in Objects(c) /\ o.containers # <<>> /\ o.name # MkPodName(c, SyncPodName) BY DEF Workloads
<1>2. IsDropCache(c, o) \/ IsWorkload(c, o) BY <1>1, ContainersOf, SyncPodNamed
<1>3. CASE IsDropCache(c, o)
  <2>1. RequiresDropCache(c) BY <1>3, DropCacheOf
  <2>2. PICK ns \in Range(Nss(c)), d \in Deps(c), r \in 1..c.replicas :
           o = DropCachePod(c, DropCacheName(c, ns, d, r), ns, PlainName(c, ns, d, NoRole, r))
    BY <1>3, DropCacheOf
  <2>3. PICK k \in 1..c.namespaces : ns = Nss(c)[k] BY NsOf
  <2>4. o = DropAt(c, k, d, r) BY <2>2, <2>3 DEF DropAt
  <2> QED BY <2>1, <2>4
<1>4. CASE IsWorkload(c, o)
  <2>1. PICK ns \in Range(Nss(c)), d \in Deps(c), role \in Roles(c) : \E r \in Copies(c, role) :
           o = Worker(c, ns, d, role, r, FirstAddress(c, 1, d))
    BY <1>4, WorkloadOf
  <2>2. PICK k \in 1..c.namespaces : ns = Nss(c)[k] BY NsOf
  <2>3. \E r \in Copies(c, role) : o = WorkerAt(c, k, d, role, r) BY <2>1, <2>2 DEF WorkerAt
  <2> QED BY <2>3
<1> QED BY <1>2, <1>3, <1>4

IsWorkerKey(c, key, o) ==
    \E k \in 1..c.namespaces, d \in Deps(c), role \in Roles(c) : \E r \in Copies(c, role) : \E i \in 1..c.containers :
        key = WorkerKey(c, k, d, role, r, i) /\ o = WorkerAt(c, k, d, role, r)

IsDropKey(c, key, o) ==
    RequiresDropCache(c) /\ \E k \in 1..c.namespaces, d \in Deps(c), r \in 1..c.replicas :
        key = DropKey(c, k, d, r) /\ o = DropAt(c, k, d, r)

LEMMA KeysOf ==
  ASSUME NEW c, IsConfig(c), c.resolved # "pausepod", NEW o \in Workloads(c), NEW key \in Places(o)
  PROVE  IsWorkerKey(c, key, o) \/ IsDropKey(c, key, o)
<1>1. ASSUME NEW k \in 1..c.namespaces, NEW d \in Deps(c), NEW role \in Roles(c), NEW r \in Copies(c, role),
             o = WorkerAt(c, k, d, role, r)
      PROVE  IsWorkerKey(c, key, o)
  <2>1. PICK i \in 1..c.containers : key = WorkerKey(c, k, d, role, r, i) BY <1>1, WorkerAtIs
  <2> QED BY <1>1, <2>1 DEF IsWorkerKey
<1>2. ASSUME RequiresDropCache(c), NEW k \in 1..c.namespaces, NEW d \in Deps(c), NEW r \in 1..c.replicas, o = DropAt(c, k, d, r)
      PROVE  IsDropKey(c, key, o)
  <2>1. key = DropKey(c, k, d, r) BY <1>2, DropAtIs
  <2> QED BY <1>2, <2>1 DEF IsDropKey
<1> QED BY <1>1, <1>2, WorkloadAt

\* The object that a main process belongs to is the only one that has its key.
LEMMA OwnerOfWorker ==
  ASSUME NEW c, IsConfig(c), c.resolved # "pausepod", NEW k \in 1..c.namespaces, NEW d \in Deps(c), NEW role \in Roles(c),
         NEW r \in Copies(c, role), NEW i \in 1..c.containers
  PROVE  \A o \in Workloads(c) : WorkerKey(c, k, d, role, r, i) \in Places(o) => o = WorkerAt(c, k, d, role, r)
<1> SUFFICES ASSUME NEW o \in Workloads(c), WorkerKey(c, k, d, role, r, i) \in Places(o)
             PROVE  o = WorkerAt(c, k, d, role, r)
  OBVIOUS
<1>1. PICK key : key = WorkerKey(c, k, d, role, r, i) OBVIOUS
<1>2. CASE IsWorkerKey(c, key, o)
  <2>1. PICK l \in 1..c.namespaces, e \in Deps(c), part \in Roles(c) : \E q \in Copies(c, part) : \E j \in 1..c.containers :
           key = WorkerKey(c, l, e, part, q, j) /\ o = WorkerAt(c, l, e, part, q)
    BY <1>2 DEF IsWorkerKey
  <2>2. PICK q \in Copies(c, part) : \E j \in 1..c.containers :
           key = WorkerKey(c, l, e, part, q, j) /\ o = WorkerAt(c, l, e, part, q)
    BY <2>1
  <2>3. PICK j \in 1..c.containers : key = WorkerKey(c, l, e, part, q, j) /\ o = WorkerAt(c, l, e, part, q) BY <2>2
  <2>4. WorkerKey(c, k, d, role, r, i) = WorkerKey(c, l, e, part, q, j) BY <1>1, <2>3
  <2>5. k = l /\ d = e /\ role = part /\ r = q BY <2>4, SameWorkerKey
  <2> QED BY <2>3, <2>5
<1>3. CASE IsDropKey(c, key, o)
  <2>1. PICK l \in 1..c.namespaces, e \in Deps(c), q \in 1..c.replicas : key = DropKey(c, l, e, q) BY <1>3 DEF IsDropKey
  <2>2. role = NoRole
    <3>1. ~IsClientServer(c) BY <1>3, DropCacheRoles DEF IsDropKey
    <3> QED BY <3>1 DEF Roles, NoRole
  <2>3. PICK ms, ns : ms = Nss(c)[k] /\ ns = Nss(c)[l] OBVIOUS
  <2>4. Key(ms, WorkerName(c, ms, d, NoRole, r), i) = Key(ns, MkPodName(c, DropCacheName(c, ns, e, q)), 1)
    BY <1>1, <2>1, <2>2, <2>3 DEF WorkerKey, DropKey
  <2>5. WorkerName(c, ms, d, NoRole, r) = MkPodName(c, DropCacheName(c, ns, e, q)) BY <2>4, KeyIs
  <2>6. PICK x : ms = NsName(x) BY <2>3, NssAre
  <2>7. PICK y : ns = NsName(y) BY <2>3, NssAre
  <2> QED BY <2>5, <2>6, <2>7, KeysApart
<1> QED BY <1>1, <1>2, <1>3, KeysOf

LEMMA OwnerOfDrop ==
  ASSUME NEW c, IsConfig(c), c.resolved # "pausepod", RequiresDropCache(c), NEW k \in 1..c.namespaces, NEW d \in Deps(c),
         NEW r \in 1..c.replicas
  PROVE  \A o \in Workloads(c) : DropKey(c, k, d, r) \in Places(o) => o = DropAt(c, k, d, r)
<1> SUFFICES ASSUME NEW o \in Workloads(c), DropKey(c, k, d, r) \in Places(o) PROVE o = DropAt(c, k, d, r) OBVIOUS
<1>1. PICK key : key = DropKey(c, k, d, r) OBVIOUS
<1>2. CASE IsDropKey(c, key, o)
  <2>1. PICK l \in 1..c.namespaces, e \in Deps(c), q \in 1..c.replicas : key = DropKey(c, l, e, q) /\ o = DropAt(c, l, e, q)
    BY <1>2 DEF IsDropKey
  <2>2. DropKey(c, k, d, r) = DropKey(c, l, e, q) BY <1>1, <2>1
  <2> QED BY <2>1, <2>2, SameDropKey
<1>3. CASE IsWorkerKey(c, key, o)
  <2>1. PICK l \in 1..c.namespaces, e \in Deps(c), part \in Roles(c) : \E q \in Copies(c, part) : \E j \in 1..c.containers :
           key = WorkerKey(c, l, e, part, q, j) /\ o = WorkerAt(c, l, e, part, q)
    BY <1>3 DEF IsWorkerKey
  <2>2. PICK q \in Copies(c, part) : \E j \in 1..c.containers :
           key = WorkerKey(c, l, e, part, q, j) /\ o = WorkerAt(c, l, e, part, q)
    BY <2>1
  <2>3. PICK j \in 1..c.containers : key = WorkerKey(c, l, e, part, q, j) /\ o = WorkerAt(c, l, e, part, q) BY <2>2
  <2>4. PICK other : other = DropAt(c, k, d, r) OBVIOUS
  <2>5. other \in Workloads(c) /\ key \in Places(other) BY <1>1, <2>4, DropAtIs
  <2>6. WorkerKey(c, l, e, part, q, j) \in Places(other) BY <2>3, <2>5
  <2>7. other = WorkerAt(c, l, e, part, q) BY <2>5, <2>6, OwnerOfWorker
  <2> QED BY <2>3, <2>4, <2>7
<1> QED BY <1>1, <1>2, <1>3, KeysOf

\* The main processes and what is known of each.
AllKeys(c) ==
    (UNION {WorkerKeys(c, role) : role \in Roles(c)}) \cup (IF RequiresDropCache(c) THEN DropKeys(c) ELSE {})

LEMMA MainsAre ==
  ASSUME NEW c
  PROVE  /\ DOMAIN Mains(c) = UNION {Places(o) : o \in Workloads(c)}
         /\ \A key \in DOMAIN Mains(c) :
               \E o \in Workloads(c) :
                  /\ key \in Places(o)
                  /\ Mains(c)[key].args = o.containers[key[3]].args
                  /\ Mains(c)[key].ns = o.ns /\ Mains(c)[key].name = o.name
                  /\ Mains(c)[key].starts = (SyncStarts(c, Objects(c)) /\ CanStart(c, Objects(c), o))
<1> DEFINE owner(key) == CHOOSE o \in Workloads(c) : key \in Places(o)
           ms == Mains(c)
<1>1. ms = [key \in UNION {Places(o) : o \in Workloads(c)} |->
               [pod |-> owner(key).ns \o owner(key).name, ns |-> owner(key).ns, name |-> owner(key).name,
                claims |-> {v \in owner(key).volumes : v.kind = "Claim"},
                starts |-> SyncStarts(c, Objects(c)) /\ CanStart(c, Objects(c), owner(key)),
                args |-> owner(key).containers[key[3]].args]]
  BY DEF Mains
<1> HIDE DEF ms
<1>2. DOMAIN ms = UNION {Places(o) : o \in Workloads(c)} BY <1>1
<1>3. ASSUME NEW key \in DOMAIN ms
      PROVE  \E o \in Workloads(c) :
                /\ key \in Places(o)
                /\ ms[key].args = o.containers[key[3]].args
                /\ ms[key].ns = o.ns /\ ms[key].name = o.name
                /\ ms[key].starts = (SyncStarts(c, Objects(c)) /\ CanStart(c, Objects(c), o))
  <2>1. \E o \in Workloads(c) : key \in Places(o) BY <1>2
  <2>2. owner(key) \in Workloads(c) /\ key \in Places(owner(key)) BY <2>1
  <2> HIDE DEF owner
  <2>3. ms[key].args = owner(key).containers[key[3]].args /\ ms[key].ns = owner(key).ns /\ ms[key].name = owner(key).name
    BY <1>1, <1>2
  <2>4. ms[key].starts = (SyncStarts(c, Objects(c)) /\ CanStart(c, Objects(c), owner(key))) BY <1>1, <1>2
  <2> QED BY <2>2, <2>3, <2>4
<1> QED BY <1>2, <1>3 DEF ms

Owns(c, key, o) ==
    /\ key \in Places(o)
    /\ Mains(c)[key].args = o.containers[key[3]].args
    /\ Mains(c)[key].ns = o.ns /\ Mains(c)[key].name = o.name

LEMMA OwnerIs == ASSUME NEW c, NEW key \in DOMAIN Mains(c) PROVE \E o \in Workloads(c) : Owns(c, key, o)
BY MainsAre DEF Owns

LEMMA PlacesAreMains ==
  ASSUME NEW c, NEW o \in Workloads(c), NEW key \in Places(o)
  PROVE  key \in DOMAIN Mains(c)
<1>1. key \in UNION {Places(w) : w \in Workloads(c)} OBVIOUS
<1> QED BY <1>1, MainsAre

LEMMA MainKeys ==
  ASSUME NEW c, IsConfig(c), c.resolved # "pausepod"
  PROVE  DOMAIN Mains(c) = AllKeys(c)
<1>1. ASSUME NEW key \in DOMAIN Mains(c) PROVE key \in AllKeys(c)
  <2>1. PICK o \in Workloads(c) : key \in Places(o) BY MainsAre
  <2>2. CASE IsWorkerKey(c, key, o)
    <3>1. \E role \in Roles(c) : key \in WorkerKeys(c, role) BY <2>2 DEF IsWorkerKey, WorkerKeys
    <3> QED BY <3>1 DEF AllKeys
  <2>3. CASE IsDropKey(c, key, o)
    <3>1. RequiresDropCache(c) /\ key \in DropKeys(c) BY <2>3 DEF IsDropKey, DropKeys
    <3> QED BY <3>1 DEF AllKeys
  <2> QED BY <2>1, <2>2, <2>3, KeysOf
<1>2. ASSUME NEW role \in Roles(c), NEW key \in WorkerKeys(c, role) PROVE key \in DOMAIN Mains(c)
  <2>1. PICK k \in 1..c.namespaces, d \in Deps(c), r \in Copies(c, role), i \in 1..c.containers :
           key = WorkerKey(c, k, d, role, r, i)
    BY DEF WorkerKeys
  <2>2. key \in Places(WorkerAt(c, k, d, role, r)) /\ WorkerAt(c, k, d, role, r) \in Workloads(c) BY <2>1, WorkerAtIs
  <2> QED BY <2>2, PlacesAreMains
<1>3. ASSUME RequiresDropCache(c), NEW key \in DropKeys(c) PROVE key \in DOMAIN Mains(c)
  <2>1. PICK k \in 1..c.namespaces, d \in Deps(c), r \in 1..c.replicas : key = DropKey(c, k, d, r) BY DEF DropKeys
  <2>2. key \in Places(DropAt(c, k, d, r)) /\ DropAt(c, k, d, r) \in Workloads(c) BY <1>3, <2>1, DropAtIs
  <2> QED BY <2>2, PlacesAreMains
<1>4. \A key \in AllKeys(c) : (\E role \in Roles(c) : key \in WorkerKeys(c, role)) \/ (RequiresDropCache(c) /\ key \in DropKeys(c))
  BY DEF AllKeys
<1>5. AllKeys(c) \subseteq DOMAIN Mains(c) BY <1>2, <1>3, <1>4
<1>6. DOMAIN Mains(c) \subseteq AllKeys(c) BY <1>1
<1> QED BY <1>5, <1>6

LEMMA WorkerMain ==
  ASSUME NEW c, IsConfig(c), c.resolved # "pausepod", NEW k \in 1..c.namespaces, NEW d \in Deps(c), NEW role \in Roles(c),
         NEW r \in Copies(c, role), NEW i \in 1..c.containers, NEW key, key = WorkerKey(c, k, d, role, r, i)
  PROVE  /\ key \in DOMAIN Mains(c)
         /\ Mains(c)[key].args = RoleArglist(c, Nss(c)[k], d, role)
         /\ Mains(c)[key].ns = Nss(c)[k] /\ Mains(c)[key].name = WorkerName(c, Nss(c)[k], d, role, r)
<1>1. PICK w : w = WorkerAt(c, k, d, role, r) OBVIOUS
<1>2. key \in Places(w) /\ w \in Workloads(c) BY <1>1, WorkerAtIs
<1>3. key \in DOMAIN Mains(c) BY <1>2, PlacesAreMains
<1>4. PICK o \in Workloads(c) : Owns(c, key, o) BY <1>3, OwnerIs
<1>5. o = w
  <2>1. PICK S : S = Workloads(c) OBVIOUS
  <2>2. \A u \in S : WorkerKey(c, k, d, role, r, i) \in Places(u) => u = WorkerAt(c, k, d, role, r)
    BY <2>1, OwnerOfWorker
  <2>3. \A u \in S : key \in Places(u) => u = w BY <1>1, <2>2
  <2>4. o \in S /\ key \in Places(o) BY <1>4, <2>1 DEF Owns
  <2> QED BY <2>3, <2>4
<1>6. key[3] = i BY KeyIs DEF WorkerKey
<1>7. w.ns = Nss(c)[k] /\ w.name = WorkerName(c, Nss(c)[k], d, role, r)
      /\ w.containers[i].args = RoleArglist(c, Nss(c)[k], d, role)
  BY <1>1, WorkerAtIs
<1> QED BY <1>3, <1>4, <1>5, <1>6, <1>7 DEF Owns

LEMMA DropMain ==
  ASSUME NEW c, IsConfig(c), c.resolved # "pausepod", RequiresDropCache(c), NEW key \in DropKeys(c)
  PROVE  key \in DOMAIN Mains(c) /\ Mains(c)[key].args = [script |-> "drop_cache.py"]
<1>1. PICK k \in 1..c.namespaces, d \in Deps(c), r \in 1..c.replicas : key = DropKey(c, k, d, r) BY DEF DropKeys
<1>2. PICK w : w = DropAt(c, k, d, r) OBVIOUS
<1>3. key \in Places(w) /\ w \in Workloads(c) /\ w.containers[1].args = [script |-> "drop_cache.py"] BY <1>1, <1>2, DropAtIs
<1>4. key \in DOMAIN Mains(c) BY <1>3, PlacesAreMains
<1>5. PICK o \in Workloads(c) : Owns(c, key, o) BY <1>4, OwnerIs
<1>6. o = w
  <2>1. PICK S : S = Workloads(c) OBVIOUS
  <2>2. \A u \in S : DropKey(c, k, d, r) \in Places(u) => u = DropAt(c, k, d, r) BY <2>1, OwnerOfDrop
  <2>3. \A u \in S : key \in Places(u) => u = w BY <1>1, <1>2, <2>2
  <2>4. o \in S /\ key \in Places(o) BY <1>5, <2>1 DEF Owns
  <2> QED BY <2>3, <2>4
<1>7. key[3] = 1 BY <1>1, KeyIs DEF DropKey
<1> QED BY <1>3, <1>4, <1>5, <1>6, <1>7 DEF Owns

\* How many they are.
LEMMA RangesCounted ==
  ASSUME NEW c, IsConfig(c)
  PROVE  /\ IsFiniteSet(1..c.namespaces) /\ Cardinality(1..c.namespaces) = c.namespaces
         /\ IsFiniteSet(Deps(c)) /\ Cardinality(Deps(c)) = c.deps
         /\ IsFiniteSet(1..c.replicas) /\ Cardinality(1..c.replicas) = c.replicas
         /\ IsFiniteSet(1..c.containers) /\ Cardinality(1..c.containers) = c.containers
         /\ IsFiniteSet(1..1) /\ Cardinality(1..1) = 1
<1>1. c.namespaces \in Nat /\ c.deps \in Nat /\ c.replicas \in Nat /\ c.containers \in Nat /\ c.firstdep \in Nat BY DEF IsConfig
<1>2. IsFiniteSet(Deps(c)) /\ Cardinality(Deps(c)) = c.deps
  <2>1. PICK low, high : low = c.firstdep /\ high = c.firstdep + c.deps - 1 OBVIOUS
  <2>2. low \in Int /\ high \in Int BY <1>1, <2>1
  <2>3. IsFiniteSet(low..high) BY <2>2, FS_Interval
  <2>4. Cardinality(low..high) = IF low > high THEN 0 ELSE high - low + 1 BY <2>2, FS_Interval
  <2>5. Deps(c) = low..high BY <2>1 DEF Deps
  <2>6. (IF low > high THEN 0 ELSE high - low + 1) = c.deps BY <1>1, <2>1
  <2> QED BY <2>3, <2>4, <2>5, <2>6
<1>3. ASSUME NEW n \in Nat PROVE IsFiniteSet(1..n) /\ Cardinality(1..n) = n
  <2>1. IsFiniteSet(1..n) /\ Cardinality(1..n) = IF 1 > n THEN 0 ELSE n - 1 + 1 BY FS_Interval
  <2> QED BY <2>1
<1>4. IsFiniteSet(1..1) /\ Cardinality(1..1) = 1 BY <1>3
<1> QED BY <1>1, <1>2, <1>3, <1>4

LEMMA WorkerKeysCounted ==
  ASSUME NEW c, IsConfig(c), NEW role \in Roles(c)
  PROVE  /\ IsFiniteSet(WorkerKeys(c, role))
         /\ Cardinality(WorkerKeys(c, role)) =
               (c.namespaces * c.deps) * ((IF role = "server" THEN 1 ELSE c.replicas) * c.containers)
<1> DEFINE A == 1..c.namespaces
           B == Deps(c)
           C == Copies(c, role)
           D == 1..c.containers
           T == WorkerKeys(c, role)
           f == [t \in (A \X B) \X (C \X D) |-> WorkerKey(c, t[1][1], t[1][2], role, t[2][1], t[2][2])]
<1>1. IsFiniteSet(A) /\ IsFiniteSet(B) /\ IsFiniteSet(C) /\ IsFiniteSet(D)
      /\ Cardinality(A) = c.namespaces /\ Cardinality(B) = c.deps /\ Cardinality(D) = c.containers
      /\ Cardinality(C) = IF role = "server" THEN 1 ELSE c.replicas
  BY RangesCounted DEF Copies
<1>2. f \in [(A \X B) \X (C \X D) -> T] BY DEF WorkerKeys
<1>3. ASSUME NEW s \in (A \X B) \X (C \X D), NEW t \in (A \X B) \X (C \X D), f[s] = f[t] PROVE s = t
  <2>1. s[1][1] = t[1][1] /\ s[1][2] = t[1][2] /\ s[2][1] = t[2][1] /\ s[2][2] = t[2][2]
    <3>1. WorkerKey(c, s[1][1], s[1][2], role, s[2][1], s[2][2]) = WorkerKey(c, t[1][1], t[1][2], role, t[2][1], t[2][2])
      BY <1>3
    <3> QED BY <3>1, SameWorkerKey
  <2> QED BY <2>1
<1>4. ASSUME NEW key \in T PROVE \E t \in (A \X B) \X (C \X D) : f[t] = key
  <2>1. PICK k \in A, d \in B, r \in C, i \in D : key = WorkerKey(c, k, d, role, r, i) BY DEF WorkerKeys
  <2>2. << <<k, d>>, <<r, i>> >> \in (A \X B) \X (C \X D) OBVIOUS
  <2>3. f[<< <<k, d>>, <<r, i>> >>] = key BY <2>1, <2>2
  <2> QED BY <2>2, <2>3
<1> HIDE DEF A, B, C, D, T, f
<1>5. IsFiniteSet(T) /\ Cardinality(T) = (Cardinality(A) * Cardinality(B)) * (Cardinality(C) * Cardinality(D))
  <2>1. \A s, t \in Quadruples(A, B, C, D) : f[s] = f[t] => s = t BY <1>3 DEF Quadruples
  <2>2. \A e \in T : \E t \in Quadruples(A, B, C, D) : f[t] = e BY <1>4 DEF Quadruples
  <2>3. f \in [Quadruples(A, B, C, D) -> T] BY <1>2 DEF Quadruples
  <2> QED BY <1>1, <2>1, <2>2, <2>3, Counted4
<1> QED BY <1>1, <1>5 DEF T

LEMMA DropKeysCounted ==
  ASSUME NEW c, IsConfig(c), RequiresDropCache(c)
  PROVE  /\ IsFiniteSet(DropKeys(c))
         /\ Cardinality(DropKeys(c)) = (c.namespaces * c.deps) * (c.replicas * 1)
<1> DEFINE A == 1..c.namespaces
           B == Deps(c)
           C == 1..c.replicas
           D == 1..1
           T == DropKeys(c)
           f == [t \in (A \X B) \X (C \X D) |-> DropKey(c, t[1][1], t[1][2], t[2][1])]
<1>1. IsFiniteSet(A) /\ IsFiniteSet(B) /\ IsFiniteSet(C) /\ IsFiniteSet(D)
      /\ Cardinality(A) = c.namespaces /\ Cardinality(B) = c.deps /\ Cardinality(D) = 1 /\ Cardinality(C) = c.replicas
  BY RangesCounted
<1>2. f \in [(A \X B) \X (C \X D) -> T] BY DEF DropKeys
<1>3. ASSUME NEW s \in (A \X B) \X (C \X D), NEW t \in (A \X B) \X (C \X D), f[s] = f[t] PROVE s = t
  <2>1. DropKey(c, s[1][1], s[1][2], s[2][1]) = DropKey(c, t[1][1], t[1][2], t[2][1]) BY <1>3
  <2>2. s[1][1] = t[1][1] /\ s[1][2] = t[1][2] /\ s[2][1] = t[2][1] BY <2>1, SameDropKey
  <2>3. s[2][2] = 1 /\ t[2][2] = 1 OBVIOUS
  <2> QED BY <2>2, <2>3
<1>4. ASSUME NEW key \in T PROVE \E t \in (A \X B) \X (C \X D) : f[t] = key
  <2>1. PICK k \in A, d \in B, r \in C : key = DropKey(c, k, d, r) BY DEF DropKeys
  <2>2. << <<k, d>>, <<r, 1>> >> \in (A \X B) \X (C \X D) OBVIOUS
  <2>3. f[<< <<k, d>>, <<r, 1>> >>] = key BY <2>1, <2>2
  <2> QED BY <2>2, <2>3
<1> HIDE DEF A, B, C, D, T, f
<1>5. IsFiniteSet(T) /\ Cardinality(T) = (Cardinality(A) * Cardinality(B)) * (Cardinality(C) * Cardinality(D))
  <2>1. \A s, t \in Quadruples(A, B, C, D) : f[s] = f[t] => s = t BY <1>3 DEF Quadruples
  <2>2. \A e \in T : \E t \in Quadruples(A, B, C, D) : f[t] = e BY <1>4 DEF Quadruples
  <2>3. f \in [Quadruples(A, B, C, D) -> T] BY <1>2 DEF Quadruples
  <2> QED BY <1>1, <2>1, <2>2, <2>3, Counted4
<1> QED BY <1>1, <1>5 DEF T

LEMMA KeysDisjoint ==
  ASSUME NEW c, IsConfig(c)
  PROVE  /\ \A role, part \in Roles(c) : role # part => WorkerKeys(c, role) \cap WorkerKeys(c, part) = {}
         /\ RequiresDropCache(c) => WorkerKeys(c, NoRole) \cap DropKeys(c) = {}
<1>1. ASSUME NEW role \in Roles(c), NEW part \in Roles(c), NEW key \in WorkerKeys(c, role), key \in WorkerKeys(c, part)
      PROVE  role = part
  <2>1. PICK k \in 1..c.namespaces, d \in Deps(c), q \in Copies(c, role), i \in 1..c.containers :
           key = WorkerKey(c, k, d, role, q, i)
    BY DEF WorkerKeys
  <2>2. PICK l \in 1..c.namespaces, e \in Deps(c), r \in Copies(c, part), j \in 1..c.containers :
           key = WorkerKey(c, l, e, part, r, j)
    BY <1>1 DEF WorkerKeys
  <2>3. WorkerKey(c, k, d, role, q, i) = WorkerKey(c, l, e, part, r, j) BY <2>1, <2>2
  <2> QED BY <2>3, SameWorkerKey
<1>2. ASSUME NEW key \in WorkerKeys(c, NoRole), key \in DropKeys(c) PROVE FALSE
  <2>1. PICK k \in 1..c.namespaces, d \in Deps(c), r \in Copies(c, NoRole), i \in 1..c.containers :
           key = WorkerKey(c, k, d, NoRole, r, i)
    BY DEF WorkerKeys
  <2>2. PICK l \in 1..c.namespaces, e \in Deps(c), q \in 1..c.replicas : key = DropKey(c, l, e, q) BY <1>2 DEF DropKeys
  <2>3. PICK ms, ns : ms = Nss(c)[k] /\ ns = Nss(c)[l] OBVIOUS
  <2>4. Key(ms, WorkerName(c, ms, d, NoRole, r), i) = Key(ns, MkPodName(c, DropCacheName(c, ns, e, q)), 1)
    BY <2>1, <2>2, <2>3 DEF WorkerKey, DropKey
  <2>5. WorkerName(c, ms, d, NoRole, r) = MkPodName(c, DropCacheName(c, ns, e, q)) BY <2>4, KeyIs
  <2>6. PICK x : ms = NsName(x) BY <2>3, NssAre
  <2>7. PICK y : ns = NsName(y) BY <2>3, NssAre
  <2> QED BY <2>5, <2>6, <2>7, KeysApart
<1> QED BY <1>1, <1>2

LEMMA UnionCounted ==
  ASSUME NEW S, IsFiniteSet(S), NEW T, IsFiniteSet(T), S \cap T = {}
  PROVE  IsFiniteSet(S \cup T) /\ Cardinality(S \cup T) = Cardinality(S) + Cardinality(T)
<1>1. Cardinality(S) \in Nat /\ Cardinality(T) \in Nat BY FS_CardinalityType
<1>2. PICK U : U = S \cap T OBVIOUS
<1>3. Cardinality(U) = 0 BY <1>2, FS_EmptySet
<1>4. IsFiniteSet(S \cup T) /\ Cardinality(S \cup T) = Cardinality(S) + Cardinality(T) - Cardinality(U) BY <1>2, FS_Union
<1> QED BY <1>1, <1>3, <1>4

LEMMA PauseMains ==
  ASSUME NEW c, IsConfig(c), c.resolved = "pausepod"
  PROVE  DOMAIN Mains(c) = {}
<1>1. ASSUME NEW o \in Workloads(c) PROVE Places(o) = {}
  <2>1. ~RequiresDropCache(c) BY DEF RequiresDropCache
  <2>2. PICK k \in 1..c.namespaces, d \in Deps(c), role \in Roles(c) : \E r \in Copies(c, role) : o = WorkerAt(c, k, d, role, r)
    BY <2>1, WorkloadAt
  <2>3. PICK r \in Copies(c, role) : o = WorkerAt(c, k, d, role, r) BY <2>2
  <2>4. role = NoRole BY DEF Roles, IsClientServer, NoRole
  <2>5. PICK ns : ns = Nss(c)[k] OBVIOUS
  <2>6. RoleArglist(c, ns, d, role) = Arglist(c) BY <2>4 DEF RoleArglist, NoRole
  <2>7. Arglist(c).script = "" BY DEF Arglist
  <2>8. PICK first : o = Worker(c, ns, d, role, r, first) BY <2>3, <2>5 DEF WorkerAt
  <2>9. /\ DOMAIN o.containers = 1..c.containers
        /\ \A i \in 1..c.containers : o.containers[i].args = RoleArglist(c, ns, d, role)
    BY <2>8, WorkerContainers
  <2>10. {j \in DOMAIN o.containers : o.containers[j].args.script # ""} = {} BY <2>6, <2>7, <2>9
  <2> QED BY <2>10, PlacesAre
<1>2. \A S \in {Places(o) : o \in Workloads(c)} : S = {} BY <1>1
<1>3. UNION {Places(o) : o \in Workloads(c)} = {} BY <1>2
<1> QED BY <1>3, MainsAre

\* The main processes are as many as the sync pod is told to expect in its first round.
LEMMA MainsCounted ==
  ASSUME NEW c, IsConfig(c)
  PROVE  /\ IsFiniteSet(DOMAIN Mains(c))
         /\ Countable(c) => Cardinality(DOMAIN Mains(c)) = InitialClients(c, Len(Nss(c)))
<1>1. PICK n, d, r, p : n = c.namespaces /\ d = c.deps /\ r = c.replicas /\ p = c.containers OBVIOUS
<1>2. n \in Nat /\ d \in Nat /\ r \in Nat /\ p \in Nat BY <1>1 DEF IsConfig
<1>3. Len(Nss(c)) = n BY <1>1, NssCounted
<1>4. CASE c.resolved = "pausepod"
  <2>1. DOMAIN Mains(c) = {} BY <1>4, PauseMains
  <2>2. ~Countable(c) BY <1>4 DEF Countable
  <2> QED BY <2>1, <2>2, FS_EmptySet
<1>5. CASE c.resolved # "pausepod" /\ IsClientServer(c)
  <2>1. Roles(c) = {"server", "client"} /\ ~RequiresDropCache(c) BY <1>5, DropCacheRoles DEF Roles
  <2>2. PICK S, T : S = WorkerKeys(c, "server") /\ T = WorkerKeys(c, "client") OBVIOUS
  <2>3. AllKeys(c) = S \cup T BY <2>1, <2>2 DEF AllKeys
  <2>4. IsFiniteSet(S) /\ Cardinality(S) = (n * d) * (1 * p) BY <1>1, <2>1, <2>2, WorkerKeysCounted
  <2>5. IsFiniteSet(T) /\ Cardinality(T) = (n * d) * (r * p) BY <1>1, <2>1, <2>2, WorkerKeysCounted
  <2>6. S \cap T = {} BY <2>1, <2>2, KeysDisjoint
  <2>7. IsFiniteSet(S \cup T) /\ Cardinality(S \cup T) = (n * d) * (1 * p) + (n * d) * (r * p)
    BY <2>4, <2>5, <2>6, UnionCounted
  <2>8. InitialClients(c, n) = (p * r + 1) * d * n BY <1>1, <1>5 DEF InitialClients
  <2>9. p = 1 => (n * d) * (1 * p) + (n * d) * (r * p) = (p * r + 1) * d * n BY <1>2
  <2>10. Countable(c) => p = 1 BY <1>1, <1>5 DEF Countable
  <2> QED BY <1>3, <1>5, <2>3, <2>7, <2>8, <2>9, <2>10, MainKeys
<1>6. CASE c.resolved # "pausepod" /\ ~IsClientServer(c)
  <2>1. Roles(c) = {NoRole} /\ NoRole # "server" BY <1>6 DEF Roles, NoRole
  <2>2. PICK S : S = WorkerKeys(c, NoRole) OBVIOUS
  <2>3. IsFiniteSet(S) /\ Cardinality(S) = (n * d) * (r * p) BY <1>1, <2>1, <2>2, WorkerKeysCounted
  <2>4. CASE RequiresDropCache(c)
    <3>1. AllKeys(c) = S \cup DropKeys(c) BY <2>1, <2>2, <2>4 DEF AllKeys
    <3>2. IsFiniteSet(DropKeys(c)) /\ Cardinality(DropKeys(c)) = (n * d) * (r * 1) BY <1>1, <2>4, DropKeysCounted
    <3>3. S \cap DropKeys(c) = {} BY <2>2, <2>4, KeysDisjoint
    <3>4. IsFiniteSet(S \cup DropKeys(c)) /\ Cardinality(S \cup DropKeys(c)) = (n * d) * (r * p) + (n * d) * (r * 1)
      BY <2>3, <3>2, <3>3, UnionCounted
    <3>5. InitialClients(c, n) = (p + 1) * r * d * n BY <1>1, <1>6, <2>4 DEF InitialClients
    <3>6. (n * d) * (r * p) + (n * d) * (r * 1) = (p + 1) * r * d * n BY <1>2
    <3> QED BY <1>3, <1>6, <3>1, <3>4, <3>5, <3>6, MainKeys
  <2>5. CASE ~RequiresDropCache(c)
    <3>1. AllKeys(c) = S BY <2>1, <2>2, <2>5 DEF AllKeys
    <3>2. InitialClients(c, n) = (p + 0) * r * d * n BY <1>1, <1>6, <2>5 DEF InitialClients
    <3>3. (n * d) * (r * p) = (p + 0) * r * d * n BY <1>2
    <3> QED BY <1>3, <1>6, <2>3, <3>1, <3>2, <3>3, MainKeys
  <2> QED BY <2>4, <2>5
<1> QED BY <1>4, <1>5, <1>6

\* The workers.
Team(c) == Workers(c, Mains(c))

Count(c, key) == Processes(Mains(c)[key].args)

LEMMA TeamIs ==
  ASSUME NEW c
  PROVE  /\ DOMAIN Team(c) = UNION {{key} \X (0..(Count(c, key) - 1)) : key \in DOMAIN Mains(c)}
         /\ \A w \in DOMAIN Team(c) : Team(c)[w].main = w[1]
BY DEF Team, Workers, Count

LEMMA InTeam ==
  ASSUME NEW c, NEW w
  PROVE  w \in DOMAIN Team(c) <=>
            \E key \in DOMAIN Mains(c) : \E i \in 0..(Count(c, key) - 1) : w = <<key, i>>
<1>1. ASSUME NEW key \in DOMAIN Mains(c), NEW i \in 0..(Count(c, key) - 1), w = <<key, i>> PROVE w \in DOMAIN Team(c)
  <2>1. w \in {key} \X (0..(Count(c, key) - 1)) BY <1>1
  <2>2. w \in UNION {{k} \X (0..(Count(c, k) - 1)) : k \in DOMAIN Mains(c)} BY <2>1
  <2> QED BY <2>2, TeamIs
<1>2. ASSUME w \in DOMAIN Team(c)
      PROVE  \E key \in DOMAIN Mains(c) : \E i \in 0..(Count(c, key) - 1) : w = <<key, i>>
  <2>1. w \in UNION {{k} \X (0..(Count(c, k) - 1)) : k \in DOMAIN Mains(c)} BY <1>2, TeamIs
  <2>2. PICK key \in DOMAIN Mains(c) : w \in {key} \X (0..(Count(c, key) - 1)) BY <2>1
  <2> QED BY <2>2
<1> QED BY <1>1, <1>2

\* The role whose workers report.
Reporter(c) == IF IsClientServer(c) THEN "client" ELSE NoRole

PerMain(c) == IF IsClientServer(c) THEN 1 ELSE Max({c.processes, 1})

Silent == Servers \cup {"drop_cache.py"}

LEMMA MainScript ==
  ASSUME NEW c, IsConfig(c), c.resolved # "pausepod", NEW key \in DOMAIN Mains(c)
  PROVE  /\ Mains(c)[key].args.script \notin Silent <=> key \in WorkerKeys(c, Reporter(c))
         /\ Count(c, key) = IF key \in WorkerKeys(c, Reporter(c)) THEN PerMain(c) ELSE 1
<1>1. key \in AllKeys(c) BY MainKeys
<1>2. (\E role \in Roles(c) : key \in WorkerKeys(c, role)) \/ (RequiresDropCache(c) /\ key \in DropKeys(c))
  BY <1>1 DEF AllKeys
<1>3. Max({1, 1}) = 1
  <2>1. Max({1, 1}) = CHOOSE x \in {1, 1} : \A y \in {1, 1} : x >= y BY DEF Max
  <2> QED BY <2>1
<1>4. Reporter(c) \in Roles(c) BY DEF Reporter, Roles, NoRole
<1>5. ASSUME NEW role \in Roles(c), key \in WorkerKeys(c, role)
      PROVE  /\ Mains(c)[key].args.script \notin Silent <=> role = Reporter(c)
             /\ Count(c, key) = IF role = Reporter(c) THEN PerMain(c) ELSE 1
  <2>1. PICK k \in 1..c.namespaces, d \in Deps(c), r \in Copies(c, role), i \in 1..c.containers :
           key = WorkerKey(c, k, d, role, r, i)
    BY <1>5 DEF WorkerKeys
  <2>2. PICK args : args = RoleArglist(c, Nss(c)[k], d, role) OBVIOUS
  <2>3. Mains(c)[key].args = args BY <2>1, <2>2, WorkerMain
  <2>4. RoleArguments(c, role, args) BY <2>2, ArgumentsOfRole
  <2>5. args.script \notin Silent <=> role # "server" BY <2>4 DEF RoleArguments, Silent
  <2>6. Processes(args) = IF role = NoRole THEN Max({c.processes, 1}) ELSE 1 BY <1>3, <2>4 DEF RoleArguments
  <2>7. role # "server" <=> role = Reporter(c) BY DEF Roles, Reporter, NoRole
  <2>8. role = NoRole <=> ~IsClientServer(c) BY DEF Roles, NoRole
  <2>9. Mains(c)[key].args.script \notin Silent <=> role = Reporter(c) BY <2>3, <2>5, <2>7
  <2>10. Count(c, key) = Processes(args) BY <2>3 DEF Count
  <2>11. role = Reporter(c) => Count(c, key) = PerMain(c)
    <3>1. CASE IsClientServer(c)
      <4>1. PerMain(c) = 1 BY <3>1 DEF PerMain
      <4>2. Processes(args) = 1 BY <2>6, <2>8, <3>1
      <4> QED BY <2>10, <4>1, <4>2
    <3>2. CASE ~IsClientServer(c)
      <4>1. PerMain(c) = Max({c.processes, 1}) BY <3>2 DEF PerMain
      <4>2. Processes(args) = Max({c.processes, 1}) BY <2>6, <2>8, <3>2
      <4> QED BY <2>10, <4>1, <4>2
    <3> QED BY <3>1, <3>2
  <2>12. role # Reporter(c) => Count(c, key) = 1
    <3>1. role # Reporter(c) => IsClientServer(c) BY DEF Roles, Reporter, NoRole
    <3> QED BY <2>6, <2>8, <2>10, <3>1
  <2> QED BY <2>9, <2>11, <2>12
<1>6. CASE \E role \in Roles(c) : key \in WorkerKeys(c, role)
  <2>1. PICK role \in Roles(c) : key \in WorkerKeys(c, role) BY <1>6
  <2>2. key \in WorkerKeys(c, Reporter(c)) <=> role = Reporter(c) BY <1>4, <2>1, KeysDisjoint
  <2> QED BY <1>5, <2>1, <2>2
<1>7. CASE RequiresDropCache(c) /\ key \in DropKeys(c)
  <2>1. PICK args : args = [script |-> "drop_cache.py"] OBVIOUS
  <2>2. Mains(c)[key].args = args BY <1>7, <2>1, DropMain
  <2>3. args.script \in Silent /\ Processes(args) = 1 BY <2>1 DEF Silent, Processes
  <2>4. Reporter(c) = NoRole BY <1>7, DropCacheRoles DEF Reporter
  <2>5. key \notin WorkerKeys(c, Reporter(c)) BY <1>7, <2>4, KeysDisjoint
  <2> QED BY <2>2, <2>3, <2>5 DEF Count
<1> QED BY <1>2, <1>6, <1>7

LEMMA CountIs ==
  ASSUME NEW c, IsConfig(c), c.resolved # "pausepod", NEW key \in DOMAIN Mains(c)
  PROVE  Count(c, key) \in Nat \ {0}
<1>1. PICK n : n = c.processes OBVIOUS
<1>2. n \in Nat BY <1>1 DEF IsConfig
<1>3. Max({n, 1}) \in Nat /\ Max({n, 1}) = IF n < 1 THEN 1 ELSE n BY <1>2, MaxOne
<1>4. Count(c, key) = PerMain(c) \/ Count(c, key) = 1 BY MainScript
<1>5. PerMain(c) = 1 \/ PerMain(c) = Max({n, 1}) BY <1>1 DEF PerMain
<1> QED BY <1>2, <1>3, <1>4, <1>5

LEMMA ReportersAre ==
  ASSUME NEW c, IsConfig(c), c.resolved # "pausepod"
  PROVE  Reporters(Mains(c), Team(c)) = WorkerKeys(c, Reporter(c)) \X (0..(PerMain(c) - 1))
<1> DEFINE R == Reporters(Mains(c), Team(c))
           K == WorkerKeys(c, Reporter(c))
<1>1. \A w : w \in R <=> w \in DOMAIN Team(c) /\ Mains(c)[w[1]].args.script \notin Silent
  BY TeamIs DEF Reporters, Silent
<1>2. K \subseteq DOMAIN Mains(c)
  <2>1. Reporter(c) \in Roles(c) BY DEF Reporter, Roles, NoRole
  <2>2. K \subseteq AllKeys(c) BY <2>1 DEF AllKeys
  <2> QED BY <2>2, MainKeys
<1> HIDE DEF R, K
<1>3. ASSUME NEW w \in R PROVE w \in K \X (0..(PerMain(c) - 1))
  <2>1. w \in DOMAIN Team(c) /\ Mains(c)[w[1]].args.script \notin Silent BY <1>1
  <2>2. PICK key \in DOMAIN Mains(c) : \E i \in 0..(Count(c, key) - 1) : w = <<key, i>> BY <2>1, InTeam
  <2>3. PICK i \in 0..(Count(c, key) - 1) : w = <<key, i>> BY <2>2
  <2>4. w[1] = key BY <2>3
  <2>5. key \in K /\ Count(c, key) = PerMain(c) BY <2>1, <2>4, MainScript DEF K
  <2> QED BY <2>3, <2>5
<1>4. ASSUME NEW key \in K, NEW i \in 0..(PerMain(c) - 1) PROVE <<key, i>> \in R
  <2>1. key \in DOMAIN Mains(c) BY <1>2
  <2>2. Mains(c)[key].args.script \notin Silent /\ Count(c, key) = PerMain(c) BY <2>1, MainScript DEF K
  <2>3. PICK w : w = <<key, i>> OBVIOUS
  <2>4. w \in DOMAIN Team(c) BY <2>1, <2>2, <2>3, InTeam
  <2>5. w[1] = key BY <2>3
  <2> QED BY <1>1, <2>2, <2>3, <2>4, <2>5
<1>5. R = K \X (0..(PerMain(c) - 1)) BY <1>3, <1>4
<1> QED BY <1>5 DEF R, K

\* The workers that report are as many as the sync pod is told to expect in its other rounds.
LEMMA ReportersCounted ==
  ASSUME NEW c, IsConfig(c), c.resolved # "pausepod"
  PROVE  /\ IsFiniteSet(DOMAIN Team(c))
         /\ c.processes > 0 => Cardinality(Reporters(Mains(c), Team(c))) = ExpectedClients(c, Len(Nss(c)))
<1>1. PICK n, d, r, p, q : n = c.namespaces /\ d = c.deps /\ r = c.replicas /\ p = c.containers /\ q = c.processes OBVIOUS
<1>2. n \in Nat /\ d \in Nat /\ r \in Nat /\ p \in Nat /\ q \in Nat BY <1>1 DEF IsConfig
<1>3. Len(Nss(c)) = n BY <1>1, NssCounted
<1>4. PICK K, m : K = WorkerKeys(c, Reporter(c)) /\ m = PerMain(c) OBVIOUS
<1>5. m \in Nat \ {0} /\ m = IF IsClientServer(c) \/ q = 0 THEN 1 ELSE q
  <2>1. Max({q, 1}) \in Nat /\ Max({q, 1}) = IF q < 1 THEN 1 ELSE q BY <1>2, MaxOne
  <2>2. m = IF IsClientServer(c) THEN 1 ELSE Max({q, 1}) BY <1>1, <1>4 DEF PerMain
  <2> QED BY <1>2, <2>1, <2>2
<1>6. IsFiniteSet(K) /\ Cardinality(K) = (n * d) * (r * p)
  <2>1. Reporter(c) \in Roles(c) /\ Reporter(c) # "server" BY DEF Reporter, Roles, NoRole
  <2> QED BY <1>1, <1>4, <2>1, WorkerKeysCounted
<1>7. IsFiniteSet(0..(m - 1)) /\ Cardinality(0..(m - 1)) = m
  <2>1. 0 \in Int /\ m - 1 \in Int BY <1>5
  <2>2. IsFiniteSet(0..(m - 1)) /\ Cardinality(0..(m - 1)) = IF 0 > m - 1 THEN 0 ELSE m - 1 - 0 + 1 BY <2>1, FS_Interval
  <2> QED BY <1>5, <2>2
<1>8. IsFiniteSet(DOMAIN Team(c))
  <2>1. PICK S, T : S = DOMAIN Mains(c) /\ T = 0..(m - 1) OBVIOUS
  <2>2. IsFiniteSet(S) /\ IsFiniteSet(T) BY <1>7, <2>1, MainsCounted
  <2>3. IsFiniteSet(S \X T) BY <2>2, FS_Product
  <2>4. ASSUME NEW w \in DOMAIN Team(c) PROVE w \in S \X T
    <3>1. PICK key \in DOMAIN Mains(c) : \E i \in 0..(Count(c, key) - 1) : w = <<key, i>> BY InTeam
    <3>2. PICK i \in 0..(Count(c, key) - 1) : w = <<key, i>> BY <3>1
    <3>3. Count(c, key) = m \/ Count(c, key) = 1 BY <1>4, MainScript
    <3>4. i \in 0..(m - 1) BY <1>5, <3>3
    <3> QED BY <2>1, <3>2, <3>4
  <2>5. DOMAIN Team(c) \in SUBSET (S \X T) BY <2>4
  <2> QED BY <2>3, <2>5, FS_Subset
<1>9. ASSUME c.processes > 0 PROVE Cardinality(Reporters(Mains(c), Team(c))) = ExpectedClients(c, Len(Nss(c)))
  <2>1. PICK T : T = 0..(m - 1) OBVIOUS
  <2>2. Reporters(Mains(c), Team(c)) = K \X T BY <1>4, <2>1, ReportersAre
  <2>3. IsFiniteSet(T) /\ Cardinality(T) = m BY <1>7, <2>1
  <2>4. Cardinality(K \X T) = ((n * d) * (r * p)) * m
    <3>1. Cardinality(K \X T) = Cardinality(K) * Cardinality(T) BY <1>6, <2>3, FS_Product
    <3> QED BY <1>6, <2>3, <3>1
  <2>5. CASE IsClientServer(c)
    <3>1. ExpectedClients(c, n) = p * r * d * n BY <1>1, <2>5 DEF ExpectedClients
    <3>2. m = 1 BY <1>5, <2>5
    <3>3. ((n * d) * (r * p)) * 1 = p * r * d * n BY <1>2
    <3> QED BY <1>3, <2>2, <2>4, <3>1, <3>2, <3>3
  <2>6. CASE ~IsClientServer(c)
    <3>1. ExpectedClients(c, n) = p * r * q * d * n BY <1>1, <2>6 DEF ExpectedClients
    <3>2. m = q BY <1>1, <1>2, <1>5, <1>9, <2>6
    <3>3. ((n * d) * (r * p)) * q = p * r * q * d * n BY <1>2
    <3> QED BY <1>3, <2>2, <2>4, <3>1, <3>2, <3>3
  <2> QED BY <2>5, <2>6
<1> QED BY <1>8, <1>9

LEMMA MainsStart ==
  ASSUME NEW c, IsConfig(c), c.syncstart, Startable(c), NEW key \in DOMAIN Mains(c)
  PROVE  Mains(c)[key].starts
<1>1. PICK o \in Workloads(c) : Mains(c)[key].starts = (SyncStarts(c, Objects(c)) /\ CanStart(c, Objects(c), o))
  BY MainsAre
<1>2. CanStart(c, Objects(c), o)
  <2>1. o \in Objects(c) /\ o.containers # <<>> BY DEF Workloads
  <2> QED BY <2>1, ContainersOf, WorkerStarts, DropCacheStarts, SyncPodStarts
<1>3. SyncStarts(c, Objects(c))
  <2>1. PICK s \in Objects(c) : IsSyncPod(c, s) BY SyncMade
  <2>2. s.name = MkPodName(c, SyncPodName) /\ CanStart(c, Objects(c), s) BY <2>1, SyncPodNamed, SyncPodStarts
  <2> QED BY <2>1, <2>2 DEF SyncStarts
<1> QED BY <1>1, <1>2, <1>3

LEMMA ServerHostIs == ASSUME NEW c, NEW x, NEW d PROVE ServerHost(c, NsName(x), d) = PlainName(c, NsName(x), d, "server", 1)
<1> DEFINE t == <<c.resolved, "server", N(d), N(1)>>
<1>1. PICK role : role = "server" OBVIOUS
<1>2. IsSeq(t, 4) /\ t[1] = c.resolved /\ t[2] = role /\ t[3] = N(d) /\ t[4] = N(1) BY <1>1, Tuples
<1>3. PICK s, p : s = ServerHost(c, NsName(x), d) /\ p = PlainName(c, NsName(x), d, role, 1) OBVIOUS
<1>4. s = Cat(NsName(x), t) BY <1>3 DEF ServerHost, Cat
<1>5. role # NoRole BY <1>1 DEF NoRole
<1> HIDE DEF t
<1>6. IsSeq(s, 2 + 4) /\ (\A i \in 1..2 : s[i] = NsName(x)[i]) /\ (\A i \in 1..4 : s[2 + i] = t[i])
  BY <1>2, <1>4, NsNameIs, CatIs
<1>7. s[1] = Basename /\ s[2] = x /\ s[2 + 1] = c.resolved /\ s[2 + 2] = role /\ s[2 + 3] = N(d) /\ s[2 + 4] = N(1)
  BY <1>2, <1>6, NsNameIs
<1>8. IsSeq(s, 6) /\ IsSeq(p, 6) BY <1>3, <1>5, <1>6, PlainOfRole
<1>9. p[1] = s[1] /\ p[2] = s[2] /\ p[3] = s[3] /\ p[4] = s[4] /\ p[5] = s[5] /\ p[6] = s[6]
  BY <1>3, <1>5, <1>7, PlainOfRole
<1>10. \A i \in 1..6 : s[i] = p[i] BY <1>9
<1>11. s = p BY <1>8, <1>10, SameSeq
<1> QED BY <1>1, <1>3, <1>11

ServerRole == "server"
ClientRole == "client"

Calls(args) == "server" \in DOMAIN args

LEMMA ClientArguments ==
  ASSUME NEW c, NEW x, NEW d
  PROVE  RoleArglist(c, NsName(x), d, ClientRole).server = PlainName(c, NsName(x), d, ServerRole, 1)
<1>1. PICK ns, host : ns = NsName(x) /\ host = ServerHost(c, ns, d) OBVIOUS
<1>2. RoleArglist(c, ns, d, "client") = ClientArglist(c, ns, d) BY DEF RoleArglist
<1>3. ClientArglist(c, ns, d).server = host BY <1>1 DEF ClientArglist
<1>4. RoleArglist(c, ns, d, ClientRole).server = host BY <1>2, <1>3 DEF ClientRole
<1>5. host = PlainName(c, NsName(x), d, ServerRole, 1) BY <1>1, ServerHostIs DEF ServerRole
<1> QED BY <1>1, <1>4, <1>5

\* The main process of a worker of a role.
HasRole(c, key, k, d, role, r) ==
    /\ k \in 1..c.namespaces /\ d \in Deps(c) /\ role \in Roles(c)
    /\ key \in DOMAIN Mains(c)
    /\ Mains(c)[key].args = RoleArglist(c, Nss(c)[k], d, role)
    /\ Mains(c)[key].ns = Nss(c)[k] /\ Mains(c)[key].name = WorkerName(c, Nss(c)[k], d, role, r)
    /\ Calls(Mains(c)[key].args) <=> role = ClientRole
    /\ Mains(c)[key].args.script = "uperf-client.py" => role = ClientRole

LEMMA WorkerHasRole ==
  ASSUME NEW c, IsConfig(c), c.resolved # "pausepod", NEW k \in 1..c.namespaces, NEW d \in Deps(c), NEW role \in Roles(c),
         NEW r \in Copies(c, role), NEW i \in 1..c.containers
  PROVE  \E key : HasRole(c, key, k, d, role, r) /\ key = WorkerKey(c, k, d, role, r, i)
<1>1. PICK key : key = WorkerKey(c, k, d, role, r, i) OBVIOUS
<1>2. PICK args : args = RoleArglist(c, Nss(c)[k], d, role) OBVIOUS
<1>3. /\ key \in DOMAIN Mains(c) /\ Mains(c)[key].args = args
      /\ Mains(c)[key].ns = Nss(c)[k] /\ Mains(c)[key].name = WorkerName(c, Nss(c)[k], d, role, r)
  BY <1>1, <1>2, WorkerMain
<1>4. RoleArguments(c, role, args) BY <1>2, ArgumentsOfRole
<1>5. (Calls(args) <=> role = ClientRole) /\ (args.script = "uperf-client.py" => role = ClientRole)
  BY <1>4 DEF RoleArguments, Calls, ClientRole
<1> QED BY <1>1, <1>2, <1>3, <1>5 DEF HasRole

LEMMA MainsHaveRoles ==
  ASSUME NEW c, IsConfig(c), c.resolved # "pausepod", NEW key \in DOMAIN Mains(c)
  PROVE  \/ \E k, d, role, r : HasRole(c, key, k, d, role, r)
         \/ RequiresDropCache(c) /\ ~Calls(Mains(c)[key].args) /\ Mains(c)[key].args.script # "uperf-client.py"
<1>1. key \in AllKeys(c) BY MainKeys
<1>2. (\E role \in Roles(c) : key \in WorkerKeys(c, role)) \/ (RequiresDropCache(c) /\ key \in DropKeys(c))
  BY <1>1 DEF AllKeys
<1>3. ASSUME NEW role \in Roles(c), key \in WorkerKeys(c, role) PROVE \E k, d, r : HasRole(c, key, k, d, role, r)
  <2>1. PICK k \in 1..c.namespaces, d \in Deps(c), r \in Copies(c, role), i \in 1..c.containers :
           key = WorkerKey(c, k, d, role, r, i)
    BY <1>3 DEF WorkerKeys
  <2>2. PICK other : HasRole(c, other, k, d, role, r) /\ other = WorkerKey(c, k, d, role, r, i) BY WorkerHasRole
  <2> QED BY <2>1, <2>2
<1>4. ASSUME RequiresDropCache(c), key \in DropKeys(c)
      PROVE  ~Calls(Mains(c)[key].args) /\ Mains(c)[key].args.script # "uperf-client.py"
  <2>1. PICK args : args = [script |-> "drop_cache.py"] OBVIOUS
  <2>2. Mains(c)[key].args = args BY <1>4, <2>1, DropMain
  <2>3. ~Calls(args) /\ args.script # "uperf-client.py" BY <2>1 DEF Calls
  <2> QED BY <2>2, <2>3
<1> QED BY <1>2, <1>3, <1>4

LEMMA CallersAre ==
  ASSUME NEW c, IsConfig(c), c.resolved # "pausepod", NEW key \in DOMAIN Mains(c), Calls(Mains(c)[key].args)
  PROVE  IsClientServer(c)
<1>1. PICK k, d, role, r : HasRole(c, key, k, d, role, r) BY MainsHaveRoles
<1>2. ClientRole \in Roles(c) BY <1>1 DEF HasRole
<1> QED BY <1>2 DEF Roles, ClientRole

ServersFor(c, key) ==
    {j \in DOMAIN Mains(c) : Mains(c)[j].ns = Mains(c)[key].ns /\ Mains(c)[j].name = Mains(c)[key].args.server}

Unprefixed(c) == c.podprefix = ""

\* A client finds its server, and what it finds is no client.
LEMMA ClientsHaveServers ==
  ASSUME NEW c, IsConfig(c), c.resolved # "pausepod", Unprefixed(c), IsClientServer(c), 1 \in 1..c.containers,
         NEW key \in DOMAIN Mains(c), Calls(Mains(c)[key].args)
  PROVE  ServersFor(c, key) # {} /\ \A j \in ServersFor(c, key) : ~Calls(Mains(c)[j].args)
<1>1. ~RequiresDropCache(c) BY DropCacheRoles
<1>2. PICK k, d, role, r : HasRole(c, key, k, d, role, r) BY <1>1, MainsHaveRoles
<1>3. role = ClientRole BY <1>2 DEF HasRole
<1>4. PICK ns : ns = Nss(c)[k] OBVIOUS
<1>5. PICK x : ns = NsName(x) BY <1>2, <1>4, NssAre DEF HasRole
<1>6. Mains(c)[key].ns = ns /\ Mains(c)[key].args = RoleArglist(c, ns, d, ClientRole) BY <1>2, <1>3, <1>4 DEF HasRole
<1>7. Mains(c)[key].args.server = PlainName(c, NsName(x), d, ServerRole, 1) BY <1>5, <1>6, ClientArguments
<1>8. \A e, part, q : WorkerName(c, NsName(x), e, part, q) = PlainName(c, NsName(x), e, part, q)
  BY DEF WorkerName, MkPodName, Unprefixed
<1>9. ServerRole # ClientRole /\ ServerRole \in Roles(c) /\ 1 \in Copies(c, ServerRole)
  <2>1. ServerRole # ClientRole BY DEF ServerRole, ClientRole
  <2>2. ServerRole \in Roles(c) BY DEF Roles, ServerRole
  <2>3. Copies(c, ServerRole) = 1..1 BY DEF Copies, ServerRole
  <2> QED BY <2>1, <2>2, <2>3
<1>10. \A j : j \in ServersFor(c, key) <=>
              j \in DOMAIN Mains(c) /\ Mains(c)[j].ns = ns /\ Mains(c)[j].name = PlainName(c, NsName(x), d, ServerRole, 1)
  BY <1>6, <1>7 DEF ServersFor
<1>11. ServersFor(c, key) # {}
  <2>1. k \in 1..c.namespaces /\ d \in Deps(c) BY <1>2 DEF HasRole
  <2>3. PICK j : HasRole(c, j, k, d, ServerRole, 1) BY <1>9, <2>1, WorkerHasRole
  <2>4. j \in DOMAIN Mains(c) /\ Mains(c)[j].ns = ns /\ Mains(c)[j].name = WorkerName(c, ns, d, ServerRole, 1)
    BY <1>4, <2>3 DEF HasRole
  <2> QED BY <1>5, <1>8, <1>10, <2>4
<1>12. ASSUME NEW j \in ServersFor(c, key) PROVE ~Calls(Mains(c)[j].args)
  <2>1. j \in DOMAIN Mains(c) /\ Mains(c)[j].ns = ns /\ Mains(c)[j].name = PlainName(c, NsName(x), d, ServerRole, 1)
    BY <1>10
  <2>2. PICK l, e, part, q : HasRole(c, j, l, e, part, q) BY <1>1, <2>1, MainsHaveRoles
  <2>3. Mains(c)[j].ns = Nss(c)[l] /\ Mains(c)[j].name = WorkerName(c, Nss(c)[l], e, part, q) /\ part \in Roles(c)
    BY <2>2 DEF HasRole
  <2>4. Nss(c)[l] = NsName(x) BY <1>5, <2>1, <2>3
  <2>5. Mains(c)[j].name = WorkerName(c, NsName(x), e, part, q) BY <2>3, <2>4
  <2>6. Mains(c)[j].name = PlainName(c, NsName(x), e, part, q) BY <1>8, <2>5
  <2>7. PlainName(c, NsName(x), e, part, q) = PlainName(c, NsName(x), d, ServerRole, 1) BY <2>1, <2>6
  <2>8. part = ServerRole BY <1>9, <2>3, <2>7, SamePlainName
  <2> QED BY <1>9, <2>2, <2>8 DEF HasRole
<1> QED BY <1>11, <1>12

-----------------------------------------------------------------------------
(***************************************************************************)
(* What a run has created stays what its configuration says.               *)
(***************************************************************************)
Begun == stage \in {"running", "finished", "failed"}

MadeInv ==
    /\ Planned => IsConfig(cfg)
    /\ Begun => IsConfig(cfg) /\ mains = Mains(cfg) /\ team = Team(cfg)

LEMMA MadeInvariant == Spec => []MadeInv
<1>1. Init => MadeInv BY DEF Init, MadeInv, Planned, Begun
<1>2. ASSUME MadeInv, PlanInv, PlanInv', [Next]_vars PROVE MadeInv'
  <2>1. CASE Refuse BY <2>1 DEF Refuse, MadeInv, Planned, Begun
  <2>2. CASE Plan
    <3>1. stage' = "planned" BY <2>2 DEF Plan
    <3>2. IsConfig(cfg)'
      <4>1. Planned' BY <3>1 DEF Planned
      <4>2. (PlanInv /\ Planned => IsConfig(cfg))' BY PlannedConfig, PTL
      <4> QED BY <1>2, <4>1, <4>2
    <3> QED BY <3>1, <3>2 DEF MadeInv, Begun
  <2>3. CASE Create
    <3>1. stage = "planned" /\ stage' = "running" /\ cfg' = cfg BY <2>3 DEF Create, driverVars
    <3>2. IsConfig(cfg) BY <1>2, <3>1 DEF MadeInv, Planned
    <3>3. mains' = Mains(cfg) /\ team' = Workers(cfg, Mains(cfg)) BY <2>3 DEF Create
    <3> QED BY <3>1, <3>2, <3>3 DEF MadeInv, Planned, Begun, Team
  <2>4. CASE Pods \/ Fault
    <3>1. UNCHANGED <<driverVars, podVars>> /\ stage' \in {"running", "finished", "failed"} BY <2>4, PodsFrame
    <3>2. stage = "running" BY <2>4, RunningBefore
    <3> QED BY <1>2, <3>1, <3>2 DEF MadeInv, Planned, Begun, driverVars, podVars
  <2>5. CASE UNCHANGED vars BY <1>2, <2>5 DEF vars, MadeInv, Planned, Begun
  <2> QED BY <1>2, <2>1, <2>2, <2>3, <2>4, <2>5 DEF Next, Driver
<1> QED BY <1>1, <1>2, PlanInvariant, PTL DEF Spec

\* For all command lines: the main processes that the plan creates are exactly as many as the sync
\* pod waits for in its first round, whatever the roles, the replicas and the drop-cache pods
\* (initial_expected_clients and the builders count them apart).
THEOREM MainsAreExpected == Spec => [](Begun => MainsFit)
<1>1. MadeInv => (Begun => MainsFit)
  <2> SUFFICES ASSUME MadeInv, Begun PROVE MainsFit OBVIOUS
  <2>1. IsConfig(cfg) /\ mains = Mains(cfg) BY DEF MadeInv
  <2> QED BY <2>1, MainsCounted DEF MainsFit
<1> QED BY <1>1, MadeInvariant, PTL

\* For all command lines with a process: the workers that report are exactly as many as the sync
\* pod waits for in its other rounds.  Without one the pod client runs one nevertheless, which the
\* driver does not count (expected_clients, run_workload).
THEOREM ReportersAreExpected == Spec => [](Begun /\ cfg.processes > 0 => ReportersFit)
<1>1. MadeInv => (Begun /\ cfg.processes > 0 => ReportersFit)
  <2> SUFFICES ASSUME MadeInv, Begun, cfg.processes > 0 PROVE ReportersFit OBVIOUS
  <2>1. IsConfig(cfg) /\ mains = Mains(cfg) /\ team = Team(cfg) BY DEF MadeInv
  <2>2. Reporting = Reporters(Mains(cfg), Team(cfg)) BY <2>1 DEF Reporting
  <2>3. CASE cfg.resolved = "pausepod"
    <3>1. DOMAIN mains = {} BY <2>1, <2>3, PauseMains
    <3>2. \A w : w \notin DOMAIN team BY <2>1, <3>1, InTeam
    <3>3. DOMAIN team = {} /\ Reporting = {} BY <3>2 DEF Reporting, Reporters
    <3>4. ~Countable(cfg) BY <2>3 DEF Countable
    <3> QED BY <3>3, <3>4, FS_EmptySet DEF ReportersFit
  <2>4. CASE cfg.resolved # "pausepod" BY <2>1, <2>2, <2>4, ReportersCounted DEF ReportersFit
  <2> QED BY <2>3, <2>4
<1> QED BY <1>1, MadeInvariant, PTL

\* For all command lines with no known reason to hang: every main process can start and has
\* workers, and every client finds its server by the name it is given, and never another client
\* (_build_client_server_deployments, client_arglist, _resolve_host).
THEOREM MainsFlowOn == Spec => [](Begun /\ Unblocked(cfg) => MainsFlow)
<1>1. MadeInv => (Begun /\ Unblocked(cfg) => MainsFlow)
  <2> SUFFICES ASSUME MadeInv, Begun, Unblocked(cfg), NEW key \in DOMAIN mains
               PROVE  /\ mains[key].starts
                      /\ WorkersOf(key) # {}
                      /\ mains[key].args.script = "uperf-client.py" => IsClient(key)
                      /\ IsClient(key) => ServersOf(key) # {} /\ \A j \in ServersOf(key) : ~IsClient(j)
    BY DEF MainsFlow
  <2>1. IsConfig(cfg) /\ mains = Mains(cfg) /\ team = Team(cfg) BY DEF MadeInv
  <2>2. cfg.syncstart /\ Startable(cfg) /\ Unprefixed(cfg) /\ Countable(cfg) BY DEF Unblocked, Handshakes, Unprefixed
  <2>3. cfg.resolved # "pausepod" /\ (IsClientServer(cfg) => 1 \in 1..cfg.containers) BY <2>2 DEF Countable
  <2>4. mains[key].starts BY <2>1, <2>2, MainsStart
  <2>5. WorkersOf(key) # {}
    <3>1. 0 \in 0..(Count(cfg, key) - 1)
      <4>1. Count(cfg, key) \in Nat \ {0} BY <2>1, <2>3, CountIs
      <4> QED BY <4>1
    <3>2. PICK w : w = <<key, 0>> OBVIOUS
    <3>3. w \in DOMAIN Team(cfg) /\ w[1] = key BY <2>1, <3>1, <3>2, InTeam
    <3>4. Team(cfg)[w].main = key BY <3>3, TeamIs
    <3> QED BY <2>1, <3>3, <3>4 DEF WorkersOf
  <2>6. \A j \in DOMAIN mains : IsClient(j) <=> Calls(Mains(cfg)[j].args) BY <2>1 DEF IsClient, Calls
  <2>7. mains[key].args.script = "uperf-client.py" => Calls(Mains(cfg)[key].args)
    BY <2>1, <2>3, MainsHaveRoles DEF HasRole
  <2>8. ASSUME Calls(Mains(cfg)[key].args) PROVE ServersOf(key) # {} /\ \A j \in ServersOf(key) : ~IsClient(j)
    <3>1. IsClientServer(cfg) BY <2>1, <2>3, <2>8, CallersAre
    <3>2. ServersFor(cfg, key) # {} /\ \A j \in ServersFor(cfg, key) : ~Calls(Mains(cfg)[j].args)
      BY <2>1, <2>2, <2>3, <2>8, <3>1, ClientsHaveServers
    <3>3. ServersOf(key) = ServersFor(cfg, key) BY <2>1 DEF ServersOf, ServersFor
    <3>4. \A j \in ServersFor(cfg, key) : j \in DOMAIN mains BY <2>1 DEF ServersFor
    <3> QED BY <2>6, <3>2, <3>3, <3>4
  <2> QED BY <2>4, <2>5, <2>6, <2>7, <2>8
<1> QED BY <1>1, MadeInvariant, PTL
===============================================================================
