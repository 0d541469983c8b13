# ClusterBuster: models and proofs

ClusterBuster runs a workload in many pods or VMs of a Kubernetes cluster, starts
all of its workers at the same moment, and collects their results.  This directory
holds TLA+ models of the parts of it that are hard to get right: processes, threads
and messages that interleave, objects and counts that different code computes and
that have to fit, commands that fail, and runs that are cut short; the TLC
configurations that check them, and TLAPS proofs.  Paths are
relative to the root of the repository.

## 1. The system

| Component | Code | State it keeps | Operations | Modelled in |
|---|---|---|---|---|
| Sync pod | `lib/pod_files/sync.py` | the pass it is in, the command and the count of the current round, result files, flag file, temporary and linked error file, watchdog table | take a round of requests, reply, publish, fail, time out | `SyncProtocol` |
| Pod client | `lib/pod_files/clusterbuster_pod_client.py` | forked workers and their exit statuses, clock offsets | TNET, SYNC, RSLT and FAIL requests; wait for the workers | `SyncProtocol` |
| Pod messaging | `lib/pod_files/cb_util.py` | a connection, what is left of the token | send, wait for the reply, retry | `SyncProtocol` |
| Controller's sync driver | `lib/clusterbuster/driver/sync.py` | the results it has read | handshake, `log_helper`, `fail_helper`, error notification | `SyncProtocol`, `RunControl` |
| Orchestrator | `lib/clusterbuster/driver/orchestrator.py` | `RunContext`: four events, `failure_reason` and its lock, threads, running commands, `worker_results` | create objects, run and join the threads, fail, handle signals, report, clean up | `RunControl` |
| Pod monitoring | `lib/clusterbuster/driver/monitoring.py` | which pods run or have ended | watch, report a failed or stuck pod | `RunControl` |
| Cleanup | `lib/clusterbuster/driver/cleanup.py` | what may be removed, failed queries in a row | delete by label, force, wait | `ClusterObjects` |
| Object creation | `orchestrator.py`, `ObjectBatcher` in `manifests.py` | threads, each with its namespaces and its batch; `run_failed`; `effective_remove_namespaces` | create in strides, command by command | `ClusterObjects` |
| Cluster interface | `lib/clusterbuster/driver/cluster.py` | none | run `oc create`, `apply`, `delete`, `get`, `exec` | `ClusterObjects`; `exec` in `SyncProtocol` |
| Configuration | `lib/clusterbuster/driver/config.py` | the configuration of a run | build, check, derive | `RunConfig` |
| Workloads of the driver | `workload_registry.py`, `workloads/` | options of the chosen workload | find by alias, read options, arguments of the pods' scripts, description of the jobs | `Workloads` |
| Manifests | `manifest_plan.py`, `manifests.py`, `vm.py` | none | names, labels, selectors, volumes, the sync pod's counts | `Manifests` |
| Workloads in the pods | `lib/pod_files/*.py` | directories, a database, connections | synchronize, run jobs, report | `PodScripts`, `PodWorkloads` |
| CI suite | `lib/clusterbuster/ci/` | job counter, jobs, failures, job directories, results file, UUID | run, skip, rename, restart | `CiSuite` |
| Option parsing, artifacts, metrics, report analysis, shell version | `cli.py`, `artifacts.py`, `metrics.py`, `reporting/`, `clusterbuster.sh` | none that outlives a call, or written once | parse, format, fetch, compute | not modelled |

### How the parts interact

* The controller creates the objects, the sync pod first, and gives the sync pod
  its time in a *handshake*; until then the pod accepts nobody.
* Every container sends `TNET` to the sync pod, gets the time offsets back, starts a
  watchdog client and forks its workers.  Each worker runs the workload, which calls
  `_sync_to_controller` any number of times (`SYNC`), and then sends its results
  (`RSLT`).  A failure is sent as `FAIL`.
* The sync pod works in *rounds*.  Its parent forks a child that accepts one request
  from each of a fixed number of clients and keeps all the connections open.  Nothing
  but the child's exit closes them, and for `SYNC` and `RSLT` the close *is* the
  reply.  The exit status tells the parent what to do next: 0 another round, 2 gather
  the results, anything else fail.
* Results are published by renaming a file to the *flag file*.  A thread of the
  controller, `log_helper`, waits for that file in an `oc exec`, reads it, and removes
  it in another `oc exec`; the parent waits for the removal and exits.  Errors go
  the same way through the *error file*, which both sides may create.
* The controller builds one configuration from the command line and the workload's
  options; the manifests, the arguments of the scripts in the pods, the numbers of
  clients the sync pod waits for and the description of the jobs in the report are all
  computed from it, by different functions.
* It creates namespaces, config maps, secrets and workloads one kind after another, each
  kind by several threads that take every n-th namespace, and the sync pod in between.
  Before and after, it deletes what carries its label: all namespaces, or only their
  objects when there were namespaces before.
* The CI suite starts the driver once per job with a directory of its own, renames that
  directory when the driver has ended, and takes a directory with a report for a
  finished job when it is restarted.
* In the controller the main thread waits until the monitor or the log helper is done,
  or something has failed; a third thread, `fail_helper`, watches for the error file.
  They communicate through events.  A signal handler interrupts the main thread.

### What is hard about it

* The rounds count requests and not workers, in the middle of killed clients, resets
  and retries.  Requests of different rounds must never mix.
* A client that blocks has no other way out than a close by the sync pod; every worker
  that stops sending leaves all others waiting.
* The same two files carry results and errors both ways, created, linked, renamed and
  removed by processes that do not otherwise synchronize.
* The watchdog's signal handler runs the final phase of the sync pod wherever the
  parent is, including inside that phase.
* In the controller the status of a run is read while other threads may be about to
  change it; threads may hang in commands; the signal handler shares the events and
  the lock with the thread it interrupts.

* The scripts of a workload, run by processes in different pods, must reach their
  synchronizations in the same order and equally often, whatever their options, or the
  run hangs or compares different things.
* A name, a label and a count are each computed in several places.
* Namespaces outlive a run: one that existed before must survive it, one that still
  terminates takes new objects down with it, and a query that fails looks like an empty
  answer.
* The CI suite may be killed at any step, with its driver or without it.

### What makes each part correct

* Sync pod, client and messaging: the barrier holds, only complete results are
  published, nobody waits for ever when a failure can be known, the parent succeeds only
  when the controller has the results.
* Orchestrator, monitoring, sync driver: a success comes with its results and without
  a recorded failure, the first failure is the one reported and it is notified once,
  failures and time limits end the run whatever hangs.
* Object creation and cleanup: pods find their files, a run that starts has all its
  objects, the cleanup leaves nothing running and removes no namespace it was to keep,
  and every run ends.
* Configuration, workloads, manifests, scripts: what different code computes fits: names
  are unique, services reach pods, the counts are the numbers of clients, workers of all
  pods do the same things in the same rounds, and the report describes the jobs that ran.
* CI suite: what counts as run has succeeded and has its report, a restart repeats and
  loses nothing, and reports carry one UUID.

## 2. The modules

| Module | What it is |
|---|---|
| `SyncBarrier` | the abstract promise of the sync pod: calls, releases, stored results, an outcome |
| `SyncProtocol` | sync pod, containers, workers, and the controller's log helper as far as the pod sees it |
| `MCSyncProtocol` | small instances of it |
| `SyncProtocolProofs` | the inductive invariant of the protocol and the theorems about its safety |
| `SyncRefinementProofs` | the proof that it implements `SyncBarrier` |
| `RunControl` | the controller's threads from the creation of the objects to the end of the process |
| `MCRunControl` | small instances of it |
| `RunControlProofs` | the invariant of recording failures, that of what a run reported as a success shows, and their theorems |
| `Workloads` | the registry, the options of each workload, the arguments of its scripts, the description of its jobs |
| `RunConfig` | extends it: from a command line to a configuration or a refusal |
| `Manifests` | extends it: the manifest plan and the builders it calls |
| `PodScripts` | extends `Workloads`: the script of each workload as a sequence of operations |
| `PodWorkloads` | composes the four: a run from the command line to the last result |
| `MCPodWorkloads` | its command lines |
| `PlanProofs` | the plan of a run, for every command line: its names, services, volumes and counts |
| `PodWorkloadsProofs` | the lockstep invariant of a run and its theorems, for scripts that fit together |
| `ClusterObjects` | the objects of several runs on the cluster, from the precleanup to the cleanup |
| `MCClusterObjects` | a small instance of it |
| `ClusterObjectsProofs` | its invariants and theorems |
| `ClusterCompleteProofs` | extends it: what a run that starts has, and what its cleanup leaves |
| `CiSuite` | several invocations of the CI suite over one artifact directory |
| `MCCiSuite` | a small instance of it |
| `CiSuiteProofs` | its invariants and theorems |

`SyncProtocol` and `RunControl` meet in the flag and error files.  `RunControl` keeps
of the sync pod only whether it runs, has failed, has published, has seen its flag file
removed, or is gone; `SyncProtocol` keeps of the controller only the log helper and
that it may create the error file at any time.  `PodWorkloads` keeps of `SyncProtocol`
the rounds, as steps without interleaving or failures in them, and puts the code's own
scripts and counts in the place of an abstract script and `CountAssumption`: what
`SyncProtocol` assumes, `ScriptsFit` checks.  `ClusterObjects` keeps of `RunControl` that
`do_logging` succeeds or fails; `RunControl` keeps of `ClusterObjects` that creating the
objects may fail.  `CiSuite` keeps of a run its directory, its report and its exit status.

### SyncProtocol

| Variable | In the code |
|---|---|
| `parent`, `firstPass` | where the main process of `sync.py` is, `first_pass` |
| `child`, `status`, `command`, `remaining`, `accepted` | the child in `sync_one`: its exit status, `expected_command`, `expected_clients`, the clients whose connection it holds |
| `peer` | the client on whose connection `read_token` blocks |
| `slots`, `gathered`, `flag` | the temporary result files, what `finish` has read of them, the flag file |
| `tmpError`, `error` | `tmp_error_file`, and `error_file` whoever created it |
| `watchdog`, `watched` | whether the watchdog's signal was sent, and the containers it knows of |
| `backlog` | connections not yet accepted, each with the request on it; `"short"` is one cut off, `"silent"` one without any request |
| `cstate`, `wstate`, `called`, `passed` | containers' and workers' progress; `passed` is the number of calls of `_sync_to_controller` that have returned |
| `helper`, `fetched` | the log helper and the results it holds |

One action stands for each step between two operations another process can see.  The
close of a round's connections is not an action: it is part of whatever ends the child
(`CloseConnections`), as in the code.  `Faults` enables the failures one by
one: a workload that raises, a worker that is killed (perhaps while it sends), a
container that is lost, a connection that is reset, a controller that aborts, a
nameserver that dies, a watchdog timeout, an `oc exec` that fails, and workloads that
stop synchronizing before others do.

The parent is not process 1 of its pod.  `cb_util` forks as soon as it finds that it is
process 1 (`cb_util.py:41-74`): the child becomes the parent of the rounds, and process 1
waits for it, in order to end when it ends (the comment at line 64 says so).  But it calls
`os.exit`, which does not exist, and catches the exception.  So the pod stays Running
whatever happens, and the parent's exit (`ParentExits`) ends the parent, the nameserver and
the watchdog only: a round's child lives on with its connections and the listening socket
(`Serving`), the files stay, and nobody outside is told.  A client is refused before the
first round listens, and retries without having lost its request; `ConnectionReset` is
therefore only possible once somebody listens (`Listening`).  A container is one step
further when it has its reply (`"ready"`); the watchdog's client, a process of its own,
connects for the first time before, while or after the workers are forked (`PatWatchdog`,
`ForkWorkers`), and the watchdog misses only a container that has done so.  The controller
does not look whether its timestamp has arrived (`"lost"`): if it has not, nobody is ever
served.

Left out: the delays, the values of the clocks, a reset of the connection of a `FAIL`
request, requests that the child reads and
ignores without counting (no token, wrong nonce, unparsable `TNET`), duplicate
addresses, the nameserver's own service, the content of results.  `finish` gathers the
result files in one step: the child that wrote them is gone, except after a watchdog
timeout, where the model is still right about which files exist at the end of that
step.  The child that has linked the error file waits for its removal for ever,
because no code of the driver removes it.  The parent looks at `tmp_error_file` only,
so that an error file made by the controller does not stop a round; its test before a
round is a guard of `StartRound`, because the child that wrote the file never lets the
parent get there.

### RunControl

| Variable | In the code |
|---|---|
| `cfg` | whether the workload reports, whether there is a `--timeout`, whether the cluster has more than ten pods (`many`) |
| `main`, `handler` | the main thread in `run` and `do_logging`, the signal handler in it |
| `monitor`, `log`, `fail` | the three background threads |
| `setting`, `lock` | each thread's progress in `_set_run_failed`, the holder of `_failure_reason_lock` |
| `shutdown`, `runFailed`, `runComplete`, `anyDone`, `reason` | the events and `failure_reason` |
| `pod`, `error`, `done`, `crashed` | the sync pod and its files, whether a worker's pod failed |
| `results`, `status`, `report` | `worker_results`, the return value of `do_logging`, what the report says |

`_set_run_failed` is four steps for every thread that calls it (take the lock, test,
assign, notify), because each can be interleaved.  The handler runs between two steps
of the main thread and stops it, and a second signal nests in it; `Event.set` takes the
event's own lock, so that a handler that interrupts the same `set` gets stuck (`"stuck"`).
An exception that `run` does not expect is recorded by the main thread itself, like a
thread's (`RunRaises`, `RunRaised`); `shutdown_event` is not set then, so that the monitor
may go on watching beyond the join (`Watching`).  After a failed exec `log_helper` waits
until the API lists more than ten pods (`driver/sync.py:277-281`): on a smaller cluster
it waits until the run is over (`LogApiReady`).  The sync pod does not go away by itself
(see above); it dies only of a failure.  Joining a thread
returns when the thread is over or when it is one that waits for a command or sleeps,
the only ones that can outlast the 30 seconds of the join.

Left out: `--wait-forever`, runs without a sync pod, snapshots, metrics, artifacts and
the steps of creating objects, which is one step that may fail.

### Workloads, RunConfig, Manifests, PodScripts, PodWorkloads

The first four have no variables: they are the pure functions of the driver's modules and
the scripts of the pods.  A configuration is one record, from the builder's defaults to what
`build` derives.  A name is the sequence of the parts the code joins with `-`, so that two
names are equal when the strings are.  A manifest keeps what something else matches: kind,
namespace, name, labels, selectors, affinity, volumes, mounts and the arguments of each
container.  The plan is the set of its manifests, which nothing but the kind orders; what
the code numbers by going through a list is a function of the place in it (`Unnamed` for
volumes, `FirstAddress` for machines).  A script is a sequence of operations that concern
somebody else (synchronize, make, use and remove directories, connect, start a database, run
a job, report), with the part that runs after an exception.  The files of a directory are
taken in the same order in every pod, which `os.scandir` does not promise: it would matter
only to fio with a job file whose name holds `-IGNORE-`, which is run and not reported
(`Ignored`).  The directories given to the files workload are different ones.

| Variable of `PodWorkloads` | In the code |
|---|---|
| `builder`, `stage`, `cfg` | the command line, how far the run is, the configuration |
| `mains`, `team` | main processes of containers and the workers they fork, from the manifests |
| `main`, `work`, `pc`, `raised` | where each is, and who is in its final part after an exception |
| `dirs`, `lost`, `db` | directories by place and owner, whose were removed by others, pods with a database |
| `fault` | the one worker that failed by itself |
| `round`, `skew` | the sync pod's round, and whether one ended with workers at different places |

A command line is refused by `build` or, when the registry does not know its workload, by
the planning of the objects (`Rejected`).  The sync pod serves nobody before it has the
controller's time, which the controller gives only to workloads that report and to a sync pod
without a prefix in its name (`Handshakes`, a guard of `MainConnects`).

Kubernetes is external: a pod starts when the pod it must be with, its volumes, its
secrets and its script exist (`CanStart`).  Left out: resources, security contexts,
probes, node pinning, the text of cloud-init, what a job measures.

### ClusterObjects

| Variable | In the code |
|---|---|
| `spaces`, `labelled`, `terminating`, `objects` | the cluster |
| `cfg`, `pc`, `plan`, `existing`, `effective` | the options that matter here, where `run` is, `namespaces_to_create`, which of them existed, `effective_remove_namespaces` |
| `failed`, `started`, `status` | `run_failed`, `run_started`, the status |
| `strides` | per thread of `_create_all_parallel`: the namespaces and manifests left, the batch |
| `sweep`, `removes`, `ok`, `misses` | `do_cleanup`: which one, whether it deletes namespaces, `ok`, `consecutive_failures` |
| `before`, `blind`, `doomed`, `swept`, `failures`, `runs` | history, for the properties and the bounds |

A command is one step that succeeds, is refused, or fails after any part of its work.
Threads interleave manifest by manifest.  Others may have made namespaces (`Foreign`), a
run may be killed at any step, and a namespace terminates in its own time, also while
the next run creates in it.  Left out: labels and service accounts, whose results the
code ignores, VMs, and dropping host caches.

### CiSuite

| Variable | In the code |
|---|---|
| `dirs`, `results` | job directories (final, `.tmp`, `.FAIL`, `.FAIL.n`) with their reports; the results file |
| `cfg`, `pc`, `uuid`, `at` | `--restart` and hard failure, where the suite is, its UUID, plugin and job |
| `counter`, `jobs`, `failures`, `abort`, `status` | `_global_job_counter`, `jobs`, `failures`, `_hard_fail_abort`, the driver's status |
| `driver`, `orphans` | the driver it waits for; drivers whose suite was killed, which go on writing |
| `invocations`, `chain`, `doubtful`, `halted`, `faults` | history, for the properties and the bounds |

A job's name has its workload, the suite's counter and what it runs, as in the code; the
counter depends on how the plugins before it ended.  `rmtree` ignores errors, so that the
removal of an old directory may leave any part of it (`RemovalFails`).  Left out: options
and profiles, pinning, dry runs, and an artifact directory that is itself a job's.

## 3. What is checked

| Run | What it shows |
|---|---|
| `sync_paired` | a container of two workers and one of one, up to two synchronizations each, every failure but a lost container and the watchdog's: types, refinement of `SyncBarrier`, completeness of published results, the controller removes only what it has read |
| `sync_watchdog` | a watchdog timeout at any point together with other failures: the barrier as long as no child failed, no successful exit before the results are read, and a container lost after it has registered does not block the others for ever |
| `sync_failure` | liveness without a watchdog: an undisturbed run completes, a failed worker decides the run, uneven workloads are found out |
| `run_ends` | every failure and hanging commands, both kinds of workloads, with and without `--timeout`: a failed run ends, a time limit ends the run, one notification, the first reason stays |
| `run_results` | failing and repeated commands, objects that cannot be created, `run` and threads that raise, up to two signals: success only with results and without a recorded failure, published results are reported |
| `workloads` | sixty command lines, every workload and deployment type, several namespaces, replicas, containers and processes, claims shared by pods, one worker that raises or is killed: names, services, volumes and counts fit; the sync pod comes with its service, and just one; directories of others are left alone; rounds join equal operations; the report describes the jobs; the scripts of a run fit together and the counts that the sync pod is told (`ScriptsFit`), which is what the proofs start from; while a run is under way somebody can go on (`NobodyStalls`); sound runs finish; failures fail |
| `objects` | two runs, three command lines, two namespaces and one of others, two creating threads, two failing commands, a signal and a kill at any step: pods have their files, runs that start are complete, the cleanup leaves nothing and keeps what it was to keep, every run ends |
| `suite` | three invocations with and without `--restart`, three plugins, two faults (a driver that fails or dies, also after its report, a report that is not written, a removal that leaves files, a killed suite): jobs counted have succeeded, the results file is true, one UUID, reports are kept, nothing is repeated |

Four runs show where the code does not do what its documentation, messages or
comments say:

| Run | What happens |
|---|---|
| `sync_watchdog_aborts` | `cli.py:783` says a watchdog timeout aborts the run.  The handler calls `finish`, which publishes what there is with empty results for the rest, and the controller accepts it |
| `sync_reset` | `cb_util.py:425` says it retries.  The retry of a client whose request the sync pod has read connects, but its token has been consumed: it sends nothing, and both sides wait |
| `run_watch_ends` | `monitor_pods` returns "None if completed normally".  It also returns `None` when `oc get pod -w` ends by itself: the run becomes a success without results |
| `run_first_reason` | "First-writer-wins semantics for `failure_reason` via lock".  The handler sets `run_failed` after it has released the lock, and another thread overwrites the reason in between |

Two more consequences can be read off `RunControl` and are not stated as properties.  A
signal inside `shutdown_event.set()` leaves the handler stuck (`HandlerShutdown`).  A
first signal after `do_logging` has set `shutdown_event` (`orchestrator.py:855`) is
taken for a second one and kills the process before the report or the cleanup
(`Signal`).  A third one concerns `SyncProtocol`: in a container with several workers,
a worker that is killed is not reported before its siblings end, which may be blocked
in a barrier; `FailureDecides` is therefore checked with one worker per container.

### Bounds

Two containers and two or three workers are the least in which a round mixes clients of
different kinds: a killed worker with a waiting one, in the same container and in another
one.  Two synchronizations are the least in which a request of one round can meet one of the
next; nothing in the code depends on the number of a round except whether it is the first.
Each worker has one request at a time, so that `backlog` is bounded by the clients, plus
what a reset or a kill leaves behind; a client that was reset is not reset again before it
has been answered (`Astray`).  A lost container is left to `sync_watchdog`, because without
a watchdog it only makes others wait; safety under it is proved (section 4).  `RunControl`
has the threads of the code; `MaxSignals` is 2 because a third signal meets what the second
did.

`PodWorkloads` starts from about sixty command lines (`MCBuilders`): every workload with
every kind of deployment it can have, and for the names and counts one and two of
namespaces, deployments, replicas, containers and processes, where an index that is
forgotten or counted twice shows.  One worker may fail by itself; a second failure meets a
run that is already failing.  The numbers of a command line are at most `MaxNumber`, which
is 9: it bounds the numerals in which `_find_first_deployment` looks for the largest, and no
number of a run there is above 4.  `ClusterObjects` has two namespaces, of four names one of
which others have taken, so that a run must skip a name and may reuse one; two threads, the
least in which one fails while another goes on; batches of two (`BatchSize`), so that a
namespace's objects are split between commands; two failures (`MaxFailures`), of which both
may be queries in a row (`MaxQueryFailures`), signals among them; and two runs, so that one
finds what the other left.  `CiSuite` has three plugins, one for each way to end at a
failure (`SmallPlan`); three invocations, the least in which a restart follows a restart;
and two faults, so that an orphan and a failed job meet.

No symmetry is used, since the runs with many states have two workers, and the
liveness runs must not use it.

The runs stop where the code stops: when everyone has exited, when a failed child waits for
an error file that nobody removes, when all invocations are over.  Hence `CHECK_DEADLOCK
FALSE`; that the runs do not stop earlier is what the liveness properties say.

### Fairness

In `SyncProtocol`, the parent, the child, the log helper, every container and every worker
take their steps eventually (weak fairness): they are processes of an operating system, or a
loop that polls.  Failures are never forced, with one exception: if a container that had
registered is gone, the watchdog notices it, since its alarm is armed by the last client it
heard of; one lost before that is noticed by nobody.  In `RunControl`, each thread and the
steps of each caller of `_set_run_failed` are weakly fair, except that no command run by
another thread than the main one is assumed to end: nothing in the code limits its time.
The main thread's own commands end, a time limit arrives, and a handshake that is stuck is
given up.  Nothing is assumed of the pods, of failures or of signals.  `RetrySpec` adds for
`ResultsReported` that commands end and that a read repeated for ever on a pod that lives
succeeds at last (strong fairness of `LogReads`).  Without that assumption an API server
that always fails keeps `log_helper` in its loop, as it does in the code.

In `PodWorkloads` the processes of the pods go on as long as any of them can
(`WF_vars(Pods)`), which is all its two properties need, since each of them takes finitely
many steps.  In `ClusterObjects` the controller's commands return (`WF_vars(Threads)`;
`oc` limits its own requests, and `run()` has no other wait there), and a namespace that
terminates is gone at last (`WF_vars(Terminates)`, the cluster's promise); failures,
signals and kills are not forced.  `CiSuite` states no liveness: a suite that nobody kills
only waits for its driver, which `RunControl` is about.

### Exceptions

Some properties hold only where the code has no known defect.  Each exception is a
definition of its own, so that the property breaks when the exception is taken away:

| Exception | Of | What the code does there |
|---|---|---|
| `CutOff` | `FailureDecides`, `LossDecides` | an exception in a round's child (a short request, a reply to a container that is gone, an error file that is there already) ends child and parent without an error file, process 1 goes on, and the helpers poll for ever |
| not `watched` | `LossDecides` | the watchdog learns of a container from its first connection only (`sync.py:150-161`) |
| `~cfg.many` | `ResultsReported` | `_wait_for_api_ready` wants more than ten pods in the cluster before it lets `log_helper` read again after a failed exec |
| `Startable` | `PodsCanStart`, `NobodyStalls`, liveness | a drop-cache pod looks for the label of the workload's alias where the pods carry its name; `--sync-affinity=1` asks for a label no pod carries; `volume_mounts` expands `%N`, `%i`, `%r` in a volume's name and `volumes` does not; a named `emptydisk` is no disk of a VM |
| `Handshakes` | `NobodyStalls`, liveness (through `Unblocked`) | the sync pod accepts nobody before it has the controller's time (`sync.py:303`), which `do_logging` hands over only for a workload that reports (`orchestrator.py:797`): the workers of the others wait for the sync pod until the controller, which looks only at their phases, ends the run |
| `podprefix = ""` | `ServicesReachPods` (`SyncPodCreated`), `NobodyStalls`, liveness (through `Handshakes`) | `_create_sync_services` and the handshake look for the sync pod under a name without the prefix that `mkpodname` has put in front of it (`orchestrator.py:326`, `:646`): it is not created with the services, each namespace gets one with its workers, and the handshake names a pod that does not exist |
| `Countable` | `ScriptsFit` (the counts), `NobodyStalls`, liveness | with several containers in a pod a client-server workload has more servers than the plan counts |
| `NoneAnswers` | `FinishedInStep`, `JobsReported` | the process that serves a connection reports a result when the client is gone, also when it was killed (`server.py:29`) |
| `OwnDirectories` | `TreesIntact`, `NobodyStalls`, liveness | containers of a pod run sysbench's `fileio` in one directory (`sysbench.py:144`) |
| `c.deps <= c.replicas + 1` | `NamesUnique` | `_find_first_deployment` takes the replica's number for the deployment's |
| `Described` | `JobsReported` | only uperf and fio describe their jobs; an `fdatasync` of 2 is described as 2 and run as 1 |
| `Unblocked`: no `waitforever`, no subprocess of memory | `NobodyStalls`, liveness | `waitforever` never reports; memory with `--subproc` reads its child's answer from a pipe whose other end it has not closed (`memory.py:161`), and waits for ever |
| `fault # "kill"` | `NobodyStalls` | nobody tells of a killed worker before the other workers of its container have ended (`clusterbuster_pod_client.py:216`) |
| `SoundWorkload` | liveness | hammerdb with two workers in a pod starts two databases; memory with a time limit and synchronization leaves its loop at different rounds; fio with files from `--files` takes every file of the config map for a job, and reports it unless its name holds `-IGNORE-`; a server reports for its killed client |
| `WaitsForever` | `Ends` | no time limit ends the wait for a namespace whose deletion failed, or for the secrets of one that went away |
| `doomed` | `StartedComplete` | a namespace that terminates is taken for an existing one |
| `blind`, undecided, `--scale-ns` | `KeepsNamespaces` | a failed query looks like an empty answer (`cleanup.py:52`); the cleanup of a run that fails before it has looked removes all; the cleanup takes namespaces that an earlier run left and this one does not use |
| `doubtful` | `CountedJobsSucceeded`, `ResultsTrue` | a driver succeeds without having written its report, and `is_report_dir` asks only whether the file exists; a removal that is cut short leaves a report without the rest |
| orphans | `CountedJobsSucceeded`, `OneUuid` | a driver that outlives its suite writes into the directory of the next one's job |
| `halted` | `RestartsRepeatNothing` | a plugin that ends early changes the counter, and with it the names of the later jobs |

`docs/clusterbuster-python-phase3-design.md:512` has the decision of the precleanup
passed on in `RunContext`; the code decides again in `_create_all_namespaces`, and the
model follows the code.

## 4. What is proved

For all sets of containers and workers, every assignment of workers to containers, all
numbers of synchronizations and all sets of failures, `SyncProtocolProofs` proves the
first six of these theorems and `SyncRefinementProofs` the last one:

| Theorem | Statement |
|---|---|
| `Invariance` | the inductive invariant `IInv` always holds |
| `TypeCorrect` | `TypeOK` |
| `BarrierSafe` | `BarrierSafety`: as long as no child has failed (`Intact`) nobody passes a barrier that somebody has not reached |
| `ResultsComplete` | `PublishedComplete`: without a watchdog timeout, what is published is complete and comes from workers that synchronized equally often |
| `ExitAfterRead` | `ReadBeforeExit`: no successful exit of the parent before the controller has results |
| `RemovalAfterRead` | `RemovesOnlyRead`: without a watchdog timeout, what is removed is what was read |
| `Refinement` | `ImplementsBarrier`, for all sets of failures without the watchdog's: every step of the protocol is one of `SyncBarrier` or a stutter |

They assume `PopulationAssumption` (finite, nonempty and disjoint sets), `NoneAssumption`
and `CountAssumption`: the counts given to the sync pod are the numbers of containers
and of workers.  The last one is a fact about the manifests (`manifest_plan.py`) and
not about the sync pod; it is what the barrier rests on.

The argument.  `BarrierSafety` is not inductive: that the last accepted request
completes a round says nothing about who sent the others.  `IInv` adds

1. *the network* (`OneRequest`, `HeldRequest`, `IdleClients`, `RequestsMatch`): a client
   has at most one request that can be counted, none if its connection is held, and a
   request says which state its sender is in and that it is in its `called`-th
   synchronization;
2. *the round* (`RoundMatches`, `FirstRound`): accepted requests plus `remaining` is the
   size of the round, all are of the round's command and of the right kind of client,
   and results are in their slots;
3. *the processes* (`Processes`): which states of the parent and of the child meet, and
   that a parent which is gone can leave a child behind, which finishes its round;
4. *what follows* (`SameRounds`, `Collected`, `Published`).

A complete round of `SYNC` or `RSLT` then holds as many *distinct* workers as there are,
hence all of them (`FullRound`), each one synchronization ahead of what it has passed:
releasing them keeps all of them level.  `RSLT` is only sent by workers that are level and
send nothing more (`Settled`), so that what is collected is complete and stays so.  Every
step that closes connections without a full round is the end of a child that failed, and
makes `Intact` false for good.  `ReadBeforeExit` and `RemovesOnlyRead` need a small
invariant of their own about the log helper and the flag file (`Fetches`).

`Refinement` goes through the actions: a closed round of `SYNC` is a release, a counted
`RSLT` a store, the exit with 2 and the parent's way to the flag file a publication, a
failure a failure, and everything else stutters.  Beyond `IInv` it needs that slots are
empty before the round of results and below the count in it (`Fresh`), so that a stored
result never replaces one, and that a worker whose result is stored synchronizes no
more (`StoredSettled`).  With a watchdog timeout the statement is false: incomplete
results are published (`sync_watchdog_aborts`).

`RunControlProofs` proves, for every configuration and all sets of failures:

| Theorem | Statement |
|---|---|
| `TypeCorrect` | `TypeOK`, with the failure lock held exactly by the thread inside `_set_run_failed` |
| `AtMostOneNotice` | `NotifiedOnce`, with any number of signals |
| `FirstReasonStays` | `FirstReasonWins`, for `MaxSignals = 0`; with a signal it is false (`run_first_reason`) |

The invariant `FInv` says that a thread is in `_set_run_failed` only while its own code
waits for the call (`CallsPend`, with the order in which the threads start, `Started`),
that at most one thread is past the test, that `run_failed` is set from the release of
the lock on, and that a notice follows it (`OneRecorder`).  `FirstReasonStays` adds that
a reason comes with `run_failed`, with a thread about to set it under the lock, or with
objects that could not be created, where the other threads have not started
(`ReasonStands`).

`RunControlProofs` also proves, for every configuration, any number of signals, and all sets of
failures without `watch` and `podfail` (`SafeFaults`):

| Theorem | Statement |
|---|---|
| `ResultsWithSuccess` | `SuccessHasResults` |
| `CleanSuccess` | `SuccessIsClean` |

Both are about the report, but what makes them true happens when the status is taken, in
`JoinActive`, while other threads still run.  `SInv` therefore relates the main thread's
position to the events and to every other thread: `shutdown_event` comes with a signal or
the end of the loop (`ShutdownMeans`); whoever is over, or has set an event,
has a failure recorded, the results at hand, or was asked to stop (`DoneMeans`); a call of
`_set_run_failed` that returned has left `run_failed` (`CallsRecord`); the sync pod's error
is recorded or was reported by a pod that publishes nothing (`ErrorMeans`, `PodMeans`); a
reason is a failure, or about to be one (`ReasonMeans`).  From these, a status of success
means that nothing has failed and that no thread is left that could record a failure
(`Clean`, `JoinSettles`), and no later step changes that.  Without `SafeFaults` they do not
hold: with `watch` the first is false (`run_watch_ends`), with `podfail` both, because the
log helper ends without a failure when the sync pod is gone.

`ClusterObjectsProofs` proves, for every set of names, number of namespaces, threads,
runs and failures:

| Theorem | Statement |
|---|---|
| `TypeCorrect` | `TypeOK` |
| `NamespacesKept` | `KeepsNamespaces`: what was there before a run is removed only as the options say, with the three exceptions above |
| `FilesFirst` | `FilesBeforePods`: no pod is on the cluster without the config maps and secrets it mounts |

and `ClusterCompleteProofs`, for the same constants:

| Theorem | Statement |
|---|---|
| `StartedRunsComplete` | `StartedComplete`: a run that starts and has not failed has all its objects, but in namespaces that were going away |
| `CleanupLeavesNothing` | `NothingLeft`: after the cleanup at the end nothing is left that it was to remove, unless it gave up |

`FilesBeforePods` needs to know what a phase has delivered when the next one begins.
`Ready` says which objects are there at each point of `create_all_objects`; `Fits`, of
each thread, that what it still has to do and what is in its batch are objects of the
phase and of its own namespaces; `Delivers`, that an object of the phase is on the
cluster, or in a thread's hands, unless a thread has failed, in which case no pod
follows.  `NamespacesKept` needs `KInv`: until the namespaces are looked at (`Early`)
none has been removed unless a query failed, what the run decides about them fits what it
saw, and a cleanup that removes namespaces has a reason (`MayRemove`).

`StartedComplete` is the converse of `FilesBeforePods`: nothing is missing.  That is not
inductive, since while threads create, an object may be on the cluster, in a thread's batch,
in its list, or in that of a later namespace.  `CInv` follows each one through these
(`Hands`), knows of the phases that are over that all of their objects are there
(`Provided`), and that a namespace the run uses goes away only if it was doomed when the run
looked (`Undying`); a thread that fails makes `failed` true for good, which is the only way
that something in its hands is never delivered.  `NothingLeft` needs `NInv`, which relates
the position in the cleanup to which cleanup it is, whether it removes namespaces, and what
the last command left (`Clean`).

`CiSuiteProofs` proves, for every plan of plugins, any number of invocations, and any
number of drivers that fail, die or are orphaned:

| Theorem | Statement |
|---|---|
| `TypeCorrect` | `TypeOK` |
| `CountedJobs` | `CountedJobsSucceeded`, with its exceptions above |
| `ReportsKept` | `KeepsReports` |
| `ResultsHold` | `ResultsTrue`: what is listed is on the disk, PASS means that all jobs ran |
| `UuidKept` | `OneUuid` |
| `RestartsKeepJobs` | `RestartsRepeatNothing`: a restart runs no job again that has its report, unless a plugin before it has stopped early |

That a counted job's directory is sound is not inductive: the report was written by another
process, before it was renamed, perhaps in another invocation.  `JInv` follows it from the
driver's stage (`Waits`, `AtStep`) through the renaming to the final directory
(`ReportsSound`), and needs that a job that is counted is never the one at hand
(`Numbered`), so that what the suite removes or replaces is not counted, and that `Sound`
only ever becomes false (`SoundBefore`), since orphans keep their names.  `RInv` adds that in
a chain of restarts nothing that the results file lists is removed (`Chained`), and that all
jobs behind the current one have run as long as nothing failed (`Ran`).  `UInv` says that
the suite's own uuid is that of every report.

`RestartsRepeatNothing` is about names: a job's directory is found again when the counter
in its name is the same in every invocation.  The counter is a sum over the plan, about
which induction would be needed; `QInv` instead says that it is the cardinality of a set,
the jobs of the plan before the one at hand (`Earlier`), which grows by one element with
each job, and that every name of a finished directory holds that number (`CountKept`), as
long as no plugin before it has stopped early.

`PodWorkloadsProofs` proves, for any command lines, any numbers of namespaces, pods,
containers and workers, every order of their steps, and a worker that raises or is killed:

| Theorem | Statement |
|---|---|
| `TypeCorrect` | `TypeOK`, which no run checks: the proof has taken its place |
| `TreesStay` | `TreesIntact`: no worker removes a directory of another one |
| `FinishInStep` | `FinishedInStep`: a run that finishes was in step in every round |
| `JobsAreReported` | `JobsReported`: those that report are at their results and have run the described jobs |
| `SomebodyGoesOn` | `NobodyStalls`: while a run is under way some process can take a step, after an exception too |

They assume `BuildersAssumption` and `NumeralAssumption` (below) and have the hypothesis
`[]ScriptsFit`: when the objects of a run have been created, the scripts of its workers fit
together (`Fit`).  `ScriptsFit` is a statement about texts, without any behaviour in it:
what every script looks like (`ScriptFits`), that in any two scripts the same number of
synchronizations leads to the same place (`SameSteps`), that in any two a synchronization
lies between the clearing of a tree and the making in it (`TreesApart`), that the containers
and the scripts with a result are as many as the sync pod is told, that their jobs are the
described ones, and that what a script waits for exists (`Flows`: a client's server is no
client, who reports serves nobody, a directory is made once and after the removal of an old
one).  The part of it that is about the plan is proved in `PlanProofs` (`MainsFit`,
`ReportersFit`, `MainsFlow`).  The rest is a hypothesis because the scripts are built from a
command line by recursion over its lists (options, the product of the parameters), and what
that yields for every list needs induction; TLC checks all of it as an invariant of
`workloads`, for every command line there.

The theorems are what it does not say: that processes which run such scripts, one step at a
time and in any order, each waiting only for the counts of the sync pod, stay together.  The
invariant `IInv` has

1. *the round* (`RoundOK`, `RoundWaits`, `Forks`): who waits in it, at which operation, and
   that workers run only where the main process has met the others;
2. *the count* (`Counted`): once they have met, every round is of as many as report;
3. *the place* (`Where`, `Idle`, `NotEnded`): a worker has passed nothing that stops it,
   unless an exception took it to its final part or the clock to its result; one that does
   not report is where it began, so that it is never counted;
4. *the lockstep* (`Lockstep`): those that report and have raised no exception have been in
   the same number of rounds, but for a worker that the clock has sent to its result;
5. *what follows*: a round out of step needs an exception, and who raised one never reports
   (`Skewed`), so the round of results, which needs all of them (`AllIn`), cannot end
   (`AllReported`); a directory's owner has passed the operation that makes it (`Made`), and
   who clears a tree is, by the lockstep, before it (`NoneLost`).

`SomebodyGoesOn` needs besides the invariant `LInv`:

1. no round stays complete (`Open`), and who waits is in the round (`Waiters`);
2. before the main processes have met, the round is of as many as there are (`First`), and
   all of them meet at once (`Together`), because the round's count is theirs (`MeetsMains`);
3. the workers of a main process exist from its fork on (`Born`), have all ended when it has
   (`Over`), and a client that has forked has found a server (`Served`).

If nobody could go on, then before the meeting all main processes would be in the round, and
it would be complete (`BeforeMeeting`).  After it, a client would have its server
(`ServerComes`), no directory would be in the way of its maker (`WayIsFree`), and so all that
report, and by `Idle` only they, would be in the round, and it would be complete
(`OthersWait`, `AfterMeeting`).  On the instance TLC has found `NobodyStalls` equivalent to
the enabledness of `Pods` in the states that it is about, and each of its exceptions
necessary.

`IInv` and `LInv` were checked by TLC on the instance of `workloads` before they were
proved.  Two properties turned out to hold more widely than they were stated:
`FinishedInStep` needs no `Countable`, and it and `JobsReported` hold also when a worker is
killed, unless it is the client of a server (`NoneAnswers`).

`PlanProofs` proves, for any command lines, hence every workload, every kind of deployment, any
numbers of namespaces, deployments, replicas, containers, processes and secrets, and any
volumes and options:

| Theorem | Statement |
|---|---|
| `NamesAreUnique` | `NamesUnique`: no two objects have the same kind, namespace and name, no two machines the same address, and deployments that a second run adds do not replace any |
| `ServicesReach` | `ServicesReachPods`: a service selects exactly one pod, an external one stands for a service that exists, and one sync pod is created with the services, before the workers, unless there is a prefix for pod names |
| `AllPodsCanStart` | `PodsCanStart`: pods find what they must be with and what they mount |
| `MainsAreExpected` | `MainsFit`: main processes are as many as the sync pod expects in its first round |
| `ReportersAreExpected` | `ReportersFit`: those that report are as many as it expects in the others, with at least one process |
| `MainsFlowOn` | `MainsFlow`: main processes can start and have workers, and a client's server exists and is no client, for an `Unblocked` command line |

They assume `BuildersAssumption`, that the numbers of a command line are natural numbers,
that the two switches of the sync pod are switches, and that the numbers that become parts
of names are at most `MaxNumber`; and `NumeralAssumption`, that different numbers up to
there have different numerals, which TLC evaluates for `MaxNumber = 9`.  Nothing is assumed
of `MaxNumber` but that it is a number: it is there because numerals are strings, of which
the provers know nothing.

The statements are about one command line and have no behaviour in them but the way to the
configuration (`PlanInv`, `MadeInv`: once there is a plan, it is that of a configuration which
`build` has accepted, and the processes are those of that plan).  The argument is a reading of
the plan from its end:

1. *the configuration* (`IsConfig`, `BuildIsConfig`): what the checks of `build` leave of a command
   line (kinds of deployment and volumes, one container in a machine, one process for the
   workloads that allow no more, the ranges of the numbers);
2. *the objects* (`ObjectIs`, `PlainIs`): whatever is created has one of a few forms, each with its
   kind, namespace, name, labels, containers and volumes as functions of a deployment, a role
   and a replica;
3. *the names* (`SamePlainName` and its like): a name is a sequence of parts in which the
   deployment, the role and the replica have fixed places, so that equal names were made for
   equal things.  `NamesUnique` follows, and for `ServicesReachPods` that a selector meets one pod,
   since labels are made of the same parts;
4. *the volumes*: what a container mounts and what its pod has are the images of the same list
   under two functions, which differ only as `Startable` says; unnamed volumes and secrets are
   numbered alike in both;
5. *the counts* (`Counted4`): the main processes are in bijection with the namespaces,
   deployments, replicas and containers (with a server, or drop-cache pods, beside them), the
   workers with these and the processes.  The cardinality of the product is the product that
   `expected_clients` computes.

TLC had found all of them to hold for the sixty command lines; the proofs are about those
that nobody has tried, and they have shown three things about the code.  With a prefix the sync
pod is not created where the controller looks for it, and the workers of workloads that do not
report never get past the sync pod: `MainsFlow` was not provable before `Handshakes` was part of
the model, which had let every sync pod serve.  And with `--processes=0` a container runs one
worker all the same (`Processes`), which the controller does not count: the sync pod then ends
its rounds without waiting.  `ReportersAreExpected` has the hypothesis `cfg.processes > 0` for
it, and no command line of `workloads` has no process.

`CountAssumption` of `SyncProtocol`, that the sync pod is told the numbers of containers and
of workers, is thereby a theorem about the plan (`MainsAreExpected`,
`ReportersAreExpected`), for `Countable` command lines with a process.

Only model-checked: `ScriptsFit` of `PodWorkloads`, but for its three parts above, because it
is about scripts that are built by recursion over lists (induction over data); and all
liveness, which is out of the prover's reach (fairness, `ENABLED`).

## 5. Not modelled, and what is left

Not modelled: the parsing of options and their help (`cli.py`: no state, one pass over
the arguments), artifacts, metrics and the report of a run (`artifacts.py`, `metrics.py`,
`driver/reporting.py`: I/O and formatting
after the run has ended), reports and their analysis
(`reporting/`: arithmetic over files that no longer change), the profiles and
options of the CI suite, the shell implementation (`clusterbuster.sh`, superseded by the
Python driver), and cloud-init and container texts.

Done: the sync protocol with its refinement; the controller's threads; objects, cleanup
and namespaces; configuration, workloads, manifests and scripts as functions, composed
into whole runs; the CI suite; proofs of every invariant and action property that a run
checks but `ScriptsFit`.

Left, in this order:

1. a timed model of the watchdog: it waits four times a fixed 60 s (`sync.py:114`)
   whatever interval the command line gives its clients;
2. `--wait-forever`, and runs without a sync pod;
3. the arguments of the CI suite's jobs, from profiles to command lines of the driver.
