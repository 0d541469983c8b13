----------------------------- MODULE PodWorkloads -----------------------------
(***************************************************************************)
(* A run of a workload, from the command line to the last result: the      *)
(* configuration is built, the objects are planned and created, and the    *)
(* pods' processes meet at the sync pod.                                   *)
(*                                                                         *)
(* The main process of each container connects first; when all that the    *)
(* sync pod was told to expect have, each forks its workers, which run     *)
(* the script of the workload.  The sync pod is the round it is in: the    *)
(* command that the round's first client sent, who waits in it, and how    *)
(* many it waits for.  SyncProtocol models the sync pod and its clients'   *)
(* connections in detail, for one abstract script; here the rounds are     *)
(* atomic, and the scripts and the numbers of clients are the code's.      *)
(*                                                                         *)
(* At most one worker fails by itself, by an exception or by a signal.     *)
(***************************************************************************)
EXTENDS Manifests, PodScripts

CONSTANTS Builders,     \* the command lines: a sequence of builders
          Faults        \* what may befall a worker: a subset of {"raise", "kill"}

ASSUME FaultsAssumption == Faults \subseteq {"raise", "kill"}

\* The numbers on a command line are natural ones.
IsBuilder(b) ==
    /\ DOMAIN b = DOMAIN Defaults
    /\ \A f \in {"namespaces", "deps", "replicas", "containers", "processes", "firstdep", "secrets"} : b[f] \in Nat
    /\ b.syncstart \in BOOLEAN /\ b.syncfirst \in BOOLEAN
    /\ b.namespaces <= MaxNumber /\ b.secrets <= MaxNumber /\ b.containers <= MaxNumber
    /\ b.firstdep + b.deps + b.replicas <= MaxNumber

ASSUME BuildersAssumption == \A i \in DOMAIN Builders : IsBuilder(Builders[i])

VARIABLES
    \* The driver.
    builder,            \* the command line
    stage,              \* "options", "refused", "planned", "running", "finished" or "failed"
    cfg,                \* the configuration
    \* The pods.
    mains,              \* the main processes, fixed when the objects are created
    team,               \* the workers: likewise
    main,               \* the state of each main process
    work,               \* the state of each worker
    pc,                 \* the position of each worker in its script
    raised,             \* the workers that an exception sent to their final part
    dirs,               \* the directories: [place, owner]
    lost,               \* the workers whose directory somebody else removed
    db,                 \* the pods with a running database
    fault,              \* what has befallen a worker
    \* The sync pod.
    round,              \* [command, needed, mains, workers]: those that wait in it
    skew                \* a round has ended whose workers were not at the same place

vars == <<builder, stage, cfg, mains, team, main, work, pc, raised, dirs, lost, db, fault, round, skew>>

podVars == <<mains, team>>
driverVars == <<builder, cfg>>

-----------------------------------------------------------------------------
(***************************************************************************)
(* The processes of the objects that are created.                          *)
(***************************************************************************)
Nss(c) == PlanNamespaceNames(c, {})

Objects(c) == Created(c, Nss(c))

Workloads(c) == {m \in Objects(c) : m.containers # <<>> /\ m.name # MkPodName(c, SyncPodName)}

(***************************************************************************)
(* A pod starts when a pod it must be with exists, the volumes its         *)
(* containers mount are its own, and the secrets and files are there.      *)
(***************************************************************************)
Placed(objects, m) ==
    \A a \in m.affinity :
        a[1] = 1 => \E o \in objects : o.ns = m.ns /\ <<a[2], a[3]>> \in o.labels

MountNames(m) == IF m.kind = "VirtualMachine" THEN {d.serial : d \in m.disks} ELSE {v.name : v \in m.volumes}

SourceExists(c, m, v) ==
    CASE v.kind = "ConfigMap" ->
             v.source = SystemConfigmap(c, m.ns).name \/ (m.ns \in Range(Nss(c)) /\ v.source = UserConfigmap(c, m.ns).name)
      [] v.kind = "Secret" -> v.source \in CreatedSecrets(c, m.ns)
      [] OTHER -> TRUE

ScriptExists(c, m, args) == args.script \in SystemConfigmap(c, m.ns).data \cup {""}

CanStart(c, objects, m) ==
    /\ Placed(objects, m)
    /\ \A v \in m.volumes : SourceExists(c, m, v)
    /\ \A i \in DOMAIN m.containers : /\ m.containers[i].mounts \subseteq MountNames(m)
                                      /\ ScriptExists(c, m, m.containers[i].args)

SyncStarts(c, objects) ==
    \E o \in objects : o.name = MkPodName(c, SyncPodName) /\ CanStart(c, objects, o)

\* The containers that run the pod client.
Places(m) == {<<m.ns, m.name, i>> : i \in {j \in DOMAIN m.containers : m.containers[j].args.script # ""}}

Mains(c) ==
    LET objects == Objects(c)
        workloads == Workloads(c)
        m(k) == CHOOSE o \in workloads : k \in Places(o)
    IN [k \in UNION {Places(o) : o \in workloads} |->
           [pod |-> m(k).ns \o m(k).name, ns |-> m(k).ns, name |-> m(k).name,
            claims |-> {v \in m(k).volumes : v.kind = "Claim"},
            starts |-> SyncStarts(c, objects) /\ CanStart(c, objects, m(k)),
            args |-> m(k).containers[k[3]].args]]

UserFiles(c) ==
    FoldLeft(LAMBDA names, name : IF name \in ToSet(names) THEN names ELSE Append(names, name), <<>>,
             c.files \o ListUserConfigmaps(c))

Processes(args) == IF "processes" \in DOMAIN args THEN Max({args.processes, 1}) ELSE 1

\* A worker is its main process and its number among that one's workers.
Workers(c, ps) ==
    [w \in UNION {{k} \X (0..(Processes(ps[k].args) - 1)) : k \in DOMAIN ps} |->
        LET script == ScriptOf(ps[w[1]].args, w[2], UserFiles(c))
        IN [main |-> w[1], process |-> w[2], ops |-> script.body \o script.final, final |-> Len(script.body) + 1]]

Servers == {"server.py", "uperf-server.py"}
Reporters(ps, ws) == {w \in DOMAIN ws : ps[ws[w].main].args.script \notin Servers \cup {"drop_cache.py"}}

-----------------------------------------------------------------------------
Init ==
    /\ \E i \in DOMAIN Builders : builder = Builders[i]
    /\ stage = "options" /\ cfg = <<>> /\ mains = <<>> /\ team = <<>>
    /\ main = <<>> /\ work = <<>> /\ pc = <<>> /\ raised = {}
    /\ dirs = {} /\ lost = {} /\ db = {} /\ fault = "none"
    /\ round = [command |-> "", needed |-> 0, mains |-> {}, workers |-> {}]
    /\ skew = FALSE

\* A name that the registry does not know is an error only when the objects are planned.
Rejected(b) == Refused(b) \/ ResolveAlias(b.workload) \notin Registered

Refuse ==
    /\ stage = "options" /\ Rejected(builder)
    /\ stage' = "refused"
    /\ UNCHANGED <<driverVars, podVars, main, work, pc, raised, dirs, lost, db, fault, round, skew>>

Plan ==
    /\ stage = "options" /\ ~Rejected(builder)
    /\ stage' = "planned"
    /\ cfg' = Build(builder)
    /\ UNCHANGED <<builder, podVars, main, work, pc, raised, dirs, lost, db, fault, round, skew>>

\* Without a sync pod the workers wait for nobody and nobody waits for them.
Create ==
    /\ stage = "planned" /\ cfg.syncstart
    /\ \E ps \in {Mains(cfg)} : \E ws \in {Workers(cfg, ps)} :
       /\ stage' = "running"
       /\ mains' = ps /\ team' = ws
       /\ main' = [k \in DOMAIN ps |-> IF ps[k].starts THEN "start" ELSE "pending"]
       /\ work' = [w \in DOMAIN ws |-> "unborn"]
       /\ pc' = [w \in DOMAIN ws |-> 1]
       /\ round' = [round EXCEPT !.needed = InitialClients(cfg, Len(Nss(cfg)))]
       /\ UNCHANGED <<driverVars, raised, dirs, lost, db, fault, skew>>

-----------------------------------------------------------------------------
(***************************************************************************)
(* The sync pod: a client posts a command to the round.  The first command *)
(* fixes the round's; another, or a failure, ends the run.  When all that  *)
(* are expected have come all are answered; a complete round of results    *)
(* ends the run.                                                           *)
(***************************************************************************)
Fails(command) == command = "fail" \/ (round.command # "" /\ command # round.command)

Complete(r) == Cardinality(r.mains) + Cardinality(r.workers) = r.needed

\* Defect: every round waits for as many as the first.
NewRoundOfContainers == [command |-> "", needed |-> InitialClients(cfg, Len(Nss(cfg))), mains |-> {}, workers |-> {}]

NewRound == [command |-> "", needed |-> ExpectedClients(cfg, Len(Nss(cfg))), mains |-> {}, workers |-> {}]

\* Where a worker is in the script, which is the same for all but who clears a tree.
StepsTo(ops, i) == Cardinality({j \in 1..(i - 1) : ops[j].op # "clear"})

Phase(w) == StepsTo(team[w].ops, pc[w])

OutOfStep(workers) == \E v, w \in workers : Phase(v) # Phase(w)

\* `ms' or `ws' hold the one that posts.
Joined(command, ms, ws) ==
    [command |-> command, needed |-> round.needed, mains |-> round.mains \cup ms, workers |-> round.workers \cup ws]

Post(command, ms, ws) ==
    LET r == Joined(command, ms, ws)
        answered(k) == Complete(r) /\ command # "rslt" /\ k \in r.mains
        released(w) == Complete(r) /\ command # "rslt" /\ w \in r.workers
    IN IF Fails(command)
       THEN /\ stage' = "failed"
            /\ UNCHANGED <<main, work, pc, round, skew>>
       ELSE /\ stage' = IF Complete(r) /\ command = "rslt" THEN "finished" ELSE stage
            /\ main' = [k \in DOMAIN main |-> IF answered(k) THEN "timed" ELSE IF k \in ms THEN "waiting" ELSE main[k]]
            /\ work' = [w \in DOMAIN work |-> IF released(w) THEN "running" ELSE IF w \in ws THEN "waiting" ELSE work[w]]
            /\ pc' = [w \in DOMAIN pc |-> IF released(w) THEN pc[w] + 1 ELSE pc[w]]
            /\ round' = IF Complete(r) THEN NewRound ELSE r
            /\ skew' = (skew \/ (Complete(r) /\ OutOfStep(r.workers)))

fileVars == <<dirs, lost, db>>

-----------------------------------------------------------------------------
(***************************************************************************)
(* A container's main process.                                             *)
(***************************************************************************)
\* Before it serves anybody the sync pod waits for the driver's time.  The driver gives it only
\* when the workload reports, and to the pod that has the sync pod's name without a prefix.
Handshakes(c) == SupportsReporting(c) /\ c.podprefix = ""

MainConnects(k) ==
    /\ stage = "running" /\ main[k] = "start" /\ Handshakes(cfg)
    /\ Post("tnet", {k}, {})
    /\ UNCHANGED <<driverVars, podVars, raised, fileVars, fault>>

IsClient(k) == "server" \in DOMAIN mains[k].args

\* The name a client is given is looked up among those that the pods have sent.
ServersOf(k) == {j \in DOMAIN mains : mains[j].ns = mains[k].ns /\ mains[j].name = mains[k].args.server}

WorkersOf(k) == {w \in DOMAIN team : team[w].main = k}

Serving(k) == \E j \in ServersOf(k) : main[j] = "forked"

\* A client of a server that has no name, or another, cannot start.
MainAborts(k) ==
    /\ stage = "running" /\ main[k] = "timed"
    /\ IsClient(k) /\ ServersOf(k) = {}
    /\ Post("fail", {k}, {})
    /\ UNCHANGED <<driverVars, podVars, raised, fileVars, fault>>

\* The uperf client runs a short test until the server answers.
MainForks(k) ==
    /\ stage = "running" /\ main[k] = "timed"
    /\ IsClient(k) => ServersOf(k) # {}
    /\ mains[k].args.script = "uperf-client.py" => Serving(k)
    /\ main' = [main EXCEPT ![k] = "forked"]
    /\ work' = [w \in DOMAIN work |-> IF w \in WorkersOf(k) THEN "running" ELSE work[w]]
    /\ UNCHANGED <<driverVars, podVars, stage, pc, raised, fileVars, fault, round, skew>>

Ended == {"ended", "killed"}

\* When all its workers have ended it tells of one that was killed.
MainReaps(k) ==
    /\ stage = "running" /\ main[k] = "forked"
    /\ \A w \in WorkersOf(k) : work[w] \in Ended
    /\ IF \E w \in WorkersOf(k) : work[w] = "killed"
       THEN Post("fail", {k}, {})
       ELSE /\ main' = [main EXCEPT ![k] = "done"]
            /\ UNCHANGED <<stage, work, pc, round, skew>>
    /\ UNCHANGED <<driverVars, podVars, raised, fileVars, fault>>

-----------------------------------------------------------------------------
(***************************************************************************)
(* A worker's next operation.                                              *)
(***************************************************************************)
At(w, op) == /\ stage = "running" /\ work[w] = "running"
             /\ pc[w] <= Len(team[w].ops)
             /\ team[w].ops[pc[w]].op = op

Arg(w) == team[w].ops[pc[w]].arg

PodOf(w) == mains[team[w].main].pod

Proceeds(w) ==
    /\ pc' = [pc EXCEPT ![w] = @ + 1]
    /\ UNCHANGED <<driverVars, podVars, stage, main, work, raised, fault, round, skew>>

\* Defect: the final part swallows the exception.
RaisesQuietly(w) ==
    /\ pc' = [pc EXCEPT ![w] = IF @ < team[w].final THEN team[w].final ELSE Len(team[w].ops) + 1]
    /\ UNCHANGED <<driverVars, podVars, stage, main, work, raised, round, skew>>

\* An exception in the body sends the worker to the final part.
Raises(w) ==
    /\ pc' = [pc EXCEPT ![w] = IF @ < team[w].final THEN team[w].final ELSE Len(team[w].ops) + 1]
    /\ raised' = raised \cup {w}
    /\ UNCHANGED <<driverVars, podVars, stage, main, work, round, skew>>

Syncs(w) ==
    /\ At(w, "sync")
    /\ Post("sync", {}, {w})
    /\ UNCHANGED <<driverVars, podVars, raised, fileVars, fault>>

Reports(w) ==
    /\ At(w, "result")
    /\ Post("rslt", {}, {w})
    /\ UNCHANGED <<driverVars, podVars, raised, fileVars, fault>>

\* A worker with an exception tells the sync pod, another ends.
Ends(w) ==
    /\ stage = "running" /\ work[w] = "running" /\ pc[w] > Len(team[w].ops)
    /\ IF w \in raised THEN Post("fail", {}, {w})
       ELSE /\ work' = [work EXCEPT ![w] = "ended"]
            /\ UNCHANGED <<stage, main, pc, round, skew>>
    /\ UNCHANGED <<driverVars, podVars, raised, fileVars, fault>>

(***************************************************************************)
(* Directories.  A tree that is a claim's mount point is shared by the     *)
(* pods that mount the claim; any other belongs to the pod.                *)
(***************************************************************************)
ClaimsAt(p, tree) ==
    {v \in p.claims : \E i \in DOMAIN cfg.volumes : cfg.volumes[i].name = v.name /\ cfg.volumes[i].mount = tree}

Place(w, tree) ==
    LET p == mains[team[w].main]
        claims == ClaimsAt(p, tree)
    IN IF claims = {} THEN [of |-> p.pod, tree |-> tree]
                      ELSE [of |-> p.ns \o (CHOOSE v \in claims : TRUE).source, tree |-> ""]

\* Those in which a worker has a directory of its own.
Trees(w) ==
    LET a == mains[team[w].main].args
    IN IF "dirs" \in DOMAIN a THEN Range(a.dirs) ELSE {a.rundir}

Homes(w) == {[place |-> Place(w, tree), key |-> <<>>, owner |-> w] : tree \in Trees(w)}

\* sysbench names its directory for the pod and the process number, which are those of the
\* same worker in another container of the pod.
ForProcess(w) ==
    [place |-> Place(w, mains[team[w].main].args.rundir), key |-> <<PodOf(w), team[w].process>>, owner |-> w]

Removes(w, removed) ==
    /\ dirs' = dirs \ removed
    /\ lost' = lost \cup ({d.owner : d \in removed} \ {w})
    /\ UNCHANGED db

Clears(w) ==
    /\ At(w, "clear")
    /\ Removes(w, {d \in dirs : d.place = Place(w, Arg(w)[1])})
    /\ Proceeds(w)

Makes(w) ==
    /\ At(w, "make")
    /\ dirs' = dirs \cup Homes(w)
    /\ UNCHANGED <<lost, db>> /\ Proceeds(w)

Drops(w) ==
    /\ At(w, "drop")
    /\ Removes(w, Homes(w))
    /\ Proceeds(w)

RemovesOld(w) ==
    /\ At(w, "rmtree")
    /\ Removes(w, {d \in dirs : d.place = ForProcess(w).place /\ d.key = ForProcess(w).key})
    /\ Proceeds(w)

InUse(w) == \E d \in dirs : d.place = ForProcess(w).place /\ d.key = ForProcess(w).key

\* It tries again for as long as the directory is there.
MakesForProcess(w) ==
    /\ At(w, "mkdir") /\ ~InUse(w)
    /\ dirs' = dirs \cup {ForProcess(w)}
    /\ UNCHANGED <<lost, db>> /\ Proceeds(w)

Needed(w) == IF mains[team[w].main].args.script = "sysbench.py" THEN {ForProcess(w)} ELSE Homes(w)

Needs(w) ==
    /\ At(w, "need")
    /\ UNCHANGED fileVars
    /\ IF Needed(w) \subseteq dirs THEN Proceeds(w) ELSE Raises(w) /\ UNCHANGED fault

(***************************************************************************)
(* Connections, the database, the clock.                                   *)
(***************************************************************************)
Connects(w) ==
    /\ At(w, "connect") /\ Serving(team[w].main)
    /\ UNCHANGED fileVars /\ Proceeds(w)

ClientGone(w) ==
    \E v \in DOMAIN team : work[v] \in Ended /\ IsClient(team[v].main) /\ team[w].main \in ServersOf(team[v].main)

\* The process that serves a connection reports as soon as the client's end is closed.
Serves(w) ==
    /\ At(w, "serve") /\ ClientGone(w)
    /\ UNCHANGED fileVars /\ Proceeds(w)

Probes(w) ==
    /\ At(w, "probe")
    /\ pc' = [pc EXCEPT ![w] = @ + IF PodOf(w) \in db THEN 2 ELSE 1]
    /\ UNCHANGED <<driverVars, podVars, stage, main, work, raised, fileVars, fault, round, skew>>

StartsDb(w) ==
    /\ At(w, "start")
    /\ IF PodOf(w) \in db THEN Raises(w) /\ UNCHANGED <<fault, db>>
                          ELSE Proceeds(w) /\ db' = db \cup {PodOf(w)}
    /\ UNCHANGED <<dirs, lost>>

Works(w) == At(w, "job") /\ UNCHANGED fileVars /\ Proceeds(w)

\* The time is over for one worker when it may not be for another.
ClockTicks(w) ==
    /\ At(w, "clock")
    /\ \/ Proceeds(w)
       \/ /\ pc' = [pc EXCEPT ![w] = Len(team[w].ops)]
          /\ UNCHANGED <<driverVars, podVars, stage, main, work, raised, fault, round, skew>>
    /\ UNCHANGED fileVars

Throws(w) == At(w, "raise") /\ Raises(w) /\ UNCHANGED <<fileVars, fault>>

(***************************************************************************)
(* Faults.                                                                 *)
(***************************************************************************)
OpFails(w) ==
    /\ "raise" \in Faults /\ fault = "none"
    /\ At(w, "job") \/ At(w, "make") \/ At(w, "need")
    /\ Raises(w)
    /\ fault' = "raise"
    /\ UNCHANGED fileVars

Killed(w) ==
    /\ "kill" \in Faults /\ fault = "none"
    /\ At(w, "job")
    /\ fault' = "kill"
    /\ work' = [work EXCEPT ![w] = "killed"]
    /\ UNCHANGED <<driverVars, podVars, stage, main, pc, raised, fileVars, round, skew>>

-----------------------------------------------------------------------------
Driver == Refuse \/ Plan \/ Create

Pods ==
    \/ \E k \in DOMAIN mains : MainConnects(k) \/ MainAborts(k) \/ MainForks(k) \/ MainReaps(k)
    \/ \E w \in DOMAIN team :
          \/ Syncs(w) \/ Reports(w) \/ Ends(w)
          \/ Clears(w) \/ Makes(w) \/ Drops(w) \/ RemovesOld(w) \/ MakesForProcess(w) \/ Needs(w)
          \/ Connects(w) \/ Serves(w) \/ Probes(w) \/ StartsDb(w) \/ Works(w) \/ ClockTicks(w) \/ Throws(w)

Fault == \E w \in DOMAIN team : OpFails(w) \/ Killed(w)

Next == Driver \/ Pods \/ Fault

\* The processes of the pods go on while any can.
Spec == Init /\ [][Next]_vars /\ WF_vars(Pods)
-----------------------------------------------------------------------------
(***************************************************************************)
(* Properties of the plan, as long as it is only a plan.                   *)
(***************************************************************************)
Planned == stage = "planned"

\* Every variable has its type; a round is one of connections, of synchronization or of results.
TypeOK ==
    /\ stage \in {"options", "refused", "planned", "running", "finished", "failed"}
    /\ \A k \in DOMAIN main : main[k] \in {"start", "pending", "waiting", "timed", "forked", "done"}
    /\ \A w \in DOMAIN work : work[w] \in {"unborn", "running", "waiting", "ended", "killed"}
    /\ \A w \in DOMAIN pc : pc[w] \in 1..(Len(team[w].ops) + 1)
    /\ raised \subseteq DOMAIN team /\ lost \subseteq DOMAIN team
    /\ fault \in {"none"} \cup Faults
    /\ round.command \in {"", "tnet", "sync", "rslt"}
    /\ round.mains \subseteq DOMAIN main /\ round.workers \subseteq DOMAIN team
    /\ skew \in BOOLEAN

\* No two objects of a kind in a namespace have the same name, no two machines the same address.
OneName(objects) ==
    \A m, o \in objects :
        m # o /\ m.kind = o.kind /\ m.ns = o.ns =>
            /\ m.name # o.name
            /\ m.kind = "VirtualMachine" => m.address # o.address

Deployments(c) == {m \in Objects(c) : m.kind = "Deployment"}

\* What a second run with --scale-deployments adds to the objects of c.
Added(c) == Deployments([c EXCEPT !.firstdep = FindFirstDeployment(Deployments(c))])

\* Two objects of a kind never get the same name in a namespace, whatever the numbers of
\* namespaces, deployments and replicas and the roles: one would silently replace the other.
\* Two machines of a namespace never get the same address.  And a second run that adds
\* deployments starts with an index whose names are free, but only up to one deployment more
\* than replicas: the last part of a name, which the code takes for the deployment's index, is
\* the replica's (build_manifest_plan, _find_first_deployment).
NamesUnique ==
    Planned =>
        /\ OneName(Objects(cfg))
        /\ cfg.firstdep + cfg.deps <= cfg.replicas + 1 =>
              {m.name : m \in Added(cfg)} \cap {m.name : m \in Deployments(cfg)} = {}

\* The driver creates one sync pod with the services, before the workers' objects
\* (_create_sync_services), but not with a prefix: it looks for a name without one, and each
\* namespace gets a sync pod with the workers' objects.
SyncPodCreated ==
    Planned /\ cfg.syncstart /\ cfg.podprefix = "" => Cardinality({m \in SyncServices(cfg, Nss(cfg)) : m.kind = "Pod"}) = 1

\* A service selects exactly one pod of its namespace by labels that other code computed, and an
\* external one names a service that exists: the clients find their server and the sync pod,
\* which is there from the start.
ServicesReachPods ==
    /\ SyncPodCreated
    /\ Planned =>
        LET objects == Objects(cfg)
            Chosen(s) == {o \in objects : o.kind # "Service" /\ o.ns = s.ns /\ s.selector \subseteq o.labels}
        IN \A s \in objects :
              s.kind = "Service" =>
                  IF s.external = <<>> THEN Cardinality(Chosen(s)) = 1
                  ELSE \E o \in objects : o.kind = "Service" /\ o.external = <<>> /\ s.external = o.name \o o.ns

\* Every pod of a plan can start: it finds the pod it must be with, the volumes that it mounts,
\* the secrets, and the script it runs.  Not so, in the code, for a drop-cache pod of a workload
\* given by an alias, for a sync pod that must be with the workers, and for a volume with a name
\* that is expanded or an emptydisk with a name.
Startable(c) ==
    /\ RequiresDropCache(c) => c.workload = c.resolved
    /\ c.syncaffinity # 1
    /\ \A i \in DOMAIN c.volumes :
          /\ ToSet(c.volumes[i].name) \cap {"%N", "%i", "%r"} = {}
          /\ c.volumes[i].type = "emptydisk" => c.volumes[i].name = <<>>

PodsCanStart ==
    Planned /\ Startable(cfg) =>
        \A m \in Objects(cfg) : m.containers # <<>> => CanStart(cfg, Objects(cfg), m)

(***************************************************************************)
(* The scripts of a run, as they are when its objects have been created.   *)
(***************************************************************************)
Has(ops, kinds) == \E i \in DOMAIN ops : ops[i].op \in kinds
NoneTo(ops, i, kinds) == \A j \in 1..(i - 1) : ops[j].op \notin kinds
SyncsTo(ops, i) == Cardinality({j \in 1..(i - 1) : ops[j].op = "sync"})

\* Nobody goes on after these, but by an exception.
Stopping == {"result", "raise", "forever"}

FirstResult(ops, i) == ops[i].op = "result" /\ NoneTo(ops, i, {"result"})

Reporting == Reporters(mains, team)

Clocked == \E w \in DOMAIN team : Has(team[w].ops, {"clock"})

JustCreated == stage = "running" /\ round.mains = {} /\ \A k \in DOMAIN main : main[k] \in {"start", "pending"}

\* Several containers of a pod have sysbench use one directory.
OwnDirectories(c) == c.resolved = "sysbench" => c.opts.workload # "fileio" \/ c.containers = 1

\* Those of whose jobs the driver makes a description.
Described(c) == c.resolved = "uperf" \/ (c.resolved = "fio" /\ ToSet(c.opts.fdatasyncs) \subseteq {0, 1})

\* A client-server workload with several containers in a pod has more servers than it counts, and
\* the pause pod runs no script.
Countable(c) == /\ IsClientServer(c) => c.containers = 1
                /\ c.resolved # "pausepod"

\* The code has no known reason to hang on it.
Unblocked(c) ==
    /\ c.syncstart /\ Handshakes(c) /\ Startable(c) /\ Countable(c) /\ OwnDirectories(c)
    /\ c.resolved = "memory" => c.opts.subproc = 0

\* A script stops somewhere, has no result in its final part, starts a database where it asks for
\* one, and can be cut short by the clock only if nothing but its last operation is a result; a
\* worker that does not report waits for a client or for ever.
ScriptFits(w, ops) ==
    /\ Len(ops) \in Nat /\ DOMAIN ops = 1..Len(ops)
    /\ team[w].main \in DOMAIN mains /\ team[w].final \in 1..(Len(ops) + 1)
    /\ Has(ops, Stopping)
    /\ \A i \in DOMAIN ops :
          /\ i >= team[w].final => ops[i].op \in {"clear", "sync"}
          /\ ops[i].op = "probe" => i + 1 \in DOMAIN ops /\ ops[i + 1].op = "start"
    /\ Has(ops, {"clock"}) => FirstResult(ops, Len(ops))
    /\ w \notin Reporting => ops[1].op \in {"serve", "forever"}

\* The same number of rounds leads all to the same place.
SameSteps(a, b) ==
    \A i \in DOMAIN a, j \in DOMAIN b :
        \/ a[i].op = "sync" /\ b[j].op = "sync" /\ SyncsTo(a, i) = SyncsTo(b, j)
        \/ FirstResult(a, i) /\ FirstResult(b, j)
        => StepsTo(a, i) = StepsTo(b, j)

MadeBy(v, op) == IF op = "make" THEN Homes(v) ELSE IF op = "mkdir" THEN {ForProcess(v)} ELSE {}

\* A round lies between the clearing of a tree and whatever another worker makes in it, and
\* directories named for the process are of different ones.
TreesApart(v, w) ==
    \A i \in DOMAIN team[w].ops, j \in DOMAIN team[v].ops :
        LET a == team[w].ops[i]
            b == team[v].ops[j]
        IN /\ a.op = "clear" /\ NoneTo(team[w].ops, i, Stopping)
              /\ (\E d \in MadeBy(v, b.op) : d.place = Place(w, a.arg[1])) =>
                 SyncsTo(team[w].ops, i) < SyncsTo(team[v].ops, j)
           /\ OwnDirectories(cfg) /\ a.op = "rmtree" /\ b.op = "mkdir" =>
                 ForProcess(v).place # ForProcess(w).place \/ ForProcess(v).key # ForProcess(w).key

JobsTo(ops, i) == {ops[k].arg : k \in {j \in 1..(i - 1) : ops[j].op = "job"}}

TreesUsed == \E w \in DOMAIN team : Has(team[w].ops, {"clear", "make", "mkdir"})

\* Nobody waits for what cannot come: every main process has started and has workers, and a
\* client's server is there and is no client ...
MainsFlow ==
    \A k \in DOMAIN mains :
        /\ mains[k].starts
        /\ WorkersOf(k) # {}
        /\ mains[k].args.script = "uperf-client.py" => IsClient(k)
        /\ IsClient(k) => ServersOf(k) # {} /\ \A j \in ServersOf(k) : ~IsClient(j)

\* ... and a worker that reports waits only for that server or for the directory of its process,
\* of which it has removed the old one and makes no other.
ReportersFlow ==
    /\ Reporting # {}
    /\ \A w \in Reporting :
          LET ops == team[w].ops
          IN /\ ~Has(ops, {"serve", "forever"})
             /\ Has(ops, {"connect"}) => IsClient(team[w].main)
             /\ \A i \in DOMAIN ops :
                   ops[i].op = "mkdir" => NoneTo(ops, i, {"make", "mkdir"}) /\ Has(ops, {"rmtree"})

Flows == MainsFlow /\ ReportersFlow

\* The main processes are as many as the sync pod expects in its first round, and the workers that
\* report as many as in the others.
MainsFit ==
    /\ IsFiniteSet(DOMAIN mains)
    /\ Countable(cfg) => Cardinality(DOMAIN mains) = InitialClients(cfg, Len(Nss(cfg)))

ReportersFit ==
    /\ IsFiniteSet(DOMAIN team)
    /\ Countable(cfg) \/ Reporting # {} => Cardinality(Reporting) = ExpectedClients(cfg, Len(Nss(cfg)))

Fit ==
    /\ MainsFit
    /\ ReportersFit
    /\ Unblocked(cfg) => Flows
    /\ \A w \in DOMAIN team : ScriptFits(w, team[w].ops)
    /\ \A v, w \in Reporting : SameSteps(team[v].ops, team[w].ops)
    /\ Described(cfg) =>
          \A w \in Reporting : \A i \in DOMAIN team[w].ops :
              FirstResult(team[w].ops, i) => JobsTo(team[w].ops, i) = GenerateMetadata(cfg)
    /\ TreesUsed => ~Clocked /\ \A w \in DOMAIN team : ~Has(team[w].ops, {"serve"})
    /\ \A v, w \in DOMAIN team : v # w => TreesApart(v, w)

\* The scripts that the workers of a run get, each from its workload and its arguments alone, fit
\* together and fit the driver's numbers: the main processes are as many as the sync pod expects
\* in its first round and those that report as many as in the others, the rounds come in the
\* same order for all, the jobs are those that the report is told of, a round keeps one worker's
\* clearing of a tree from another's making in it, and nobody waits for what cannot come.
ScriptsFit == JustCreated => Fit

(***************************************************************************)
(* Properties of the run.                                                  *)
(***************************************************************************)
\* The workloads that use and remove directories never remove one of another worker, though all
\* clear the trees, and pods may share a claim: the rounds keep the clearing before the making.
TreesIntact == stage = "running" /\ OwnDirectories(cfg) /\ raised = {} => lost = {}

\* A server's worker reports when a client of its has ended: nobody does so for one that was killed.
NoneAnswers == fault = "kill" => \A w \in DOMAIN team : ~Has(team[w].ops, {"serve"})

\* A run that finishes was in step: no round ever joined workers at different places of the
\* script, so that what ran at the same time was the same operation.  Only the results of the
\* server of a killed client are in no step.
FinishedInStep == stage = "finished" /\ NoneAnswers => ~skew

\* When a run finishes, every worker that reports is at its result and has run exactly the jobs
\* that the driver's description of the run, made apart from the pods, tells the report of.  An
\* fdatasync that is neither 0 nor 1 is described as given and run as 1; a client that was
\* killed may be answered for by its server, and otherwise the run of a killed worker does not
\* finish.
JobsOf(w) == JobsTo(team[w].ops, pc[w])

JobsReported ==
    stage = "finished" /\ NoneAnswers =>
        \A w \in Reporting :
            /\ team[w].ops[pc[w]].op = "result"
            /\ Described(cfg) => JobsOf(w) = GenerateMetadata(cfg)

MainCan(k) ==
    \/ main[k] = "start"
    \/ main[k] = "timed" /\ (mains[k].args.script = "uperf-client.py" => ServersOf(k) = {} \/ Serving(k))
    \/ main[k] = "forked" /\ \A w \in WorkersOf(k) : work[w] \in Ended

WorkerCan(w) ==
    /\ work[w] = "running"
    /\ ~At(w, "forever")
    /\ At(w, "connect") => Serving(team[w].main)
    /\ At(w, "serve") => ClientGone(w)
    /\ At(w, "mkdir") => ~InUse(w)

\* While a run is under way somebody can go on: never are all waiting for one another, in rounds
\* that the counts do not let end, for servers, or for directories, also after an exception.  Of
\* a worker that was killed the others may wait for ever.
NobodyStalls ==
    stage = "running" /\ Unblocked(cfg) /\ fault # "kill" =>
        (\E k \in DOMAIN mains : MainCan(k)) \/ (\E w \in DOMAIN team : WorkerCan(w))

(***************************************************************************)
(* Liveness.  A command line is sound when the code has no known reason    *)
(* to fail or to hang on it.                                               *)
(***************************************************************************)
SoundWorkload(c) ==
    CASE c.resolved = "failure" -> FALSE
      [] c.resolved = "uperf" -> c.opts.tests # <<>>
      [] c.resolved = "memory" -> c.opts.iterations > 0 /\ (c.runtime = 0 \/ c.opts.sync = 0)
      [] c.resolved = "hammerdb" -> c.containers * c.processes = 1
      [] c.resolved = "fio" -> c.files = <<>>
      [] OTHER -> TRUE

Sound(c) == Unblocked(c) /\ SoundWorkload(c)

\* The run of a sound command line in which nothing fails finishes: no workload waits for a
\* round that the others never come to.
SoundRunsSucceed == (stage = "running" /\ Sound(cfg)) ~> (stage = "finished" \/ fault # "none")

\* A worker that fails makes the run fail, and no run wait for ever.  Of a killed worker the run
\* learns when it was the only one of its container; and the server of a killed client may
\* report in its place.
Noticed(c) == fault = "raise" \/ (fault = "kill" /\ c.processes = 1 /\ c.resolved # "server")

FaultsFail == (stage = "running" /\ Sound(cfg) /\ Noticed(cfg)) ~> (stage = "failed")
=============================================================================
