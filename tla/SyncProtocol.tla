--------------------------- MODULE SyncProtocol ---------------------------
(***************************************************************************)
(* The barrier between the workers of a ClusterBuster run: the sync pod    *)
(* (lib/pod_files/sync.py), the containers and worker processes that talk  *)
(* to it (lib/pod_files/clusterbuster_pod_client.py, cb_util.py) and the   *)
(* part of the controller that reads the results back                      *)
(* (lib/clusterbuster/driver/sync.py).                                     *)
(*                                                                         *)
(* The sync pod's parent process forks a child per round.  The child       *)
(* accepts one request from every client and keeps the connections open;   *)
(* its exit closes them, and that is what lets the clients go on.  The     *)
(* first round answers the containers' TNET requests, the following ones   *)
(* are the workers' SYNC barriers and the last one collects their RSLT     *)
(* results, which the parent publishes in the flag file.                   *)
(*                                                                         *)
(* Left out: the delays (predelay, postdelay, step interval), the clock    *)
(* arithmetic of the timestamps, and requests the child reads and ignores  *)
(* without counting them (no token, wrong nonce, unparsable TNET payload). *)
(***************************************************************************)
EXTENDS Integers, FiniteSets

CONSTANTS
  Containers,       \* the workload containers, each running one main process
  Workers,          \* the worker processes the containers fork
  ContainerOf,      \* the container of each worker
  SyncCount,        \* how often each worker's workload calls _sync_to_controller
  ExpectedClients,  \* --cb-expected-clients
  InitialClients,   \* --cb-initial-expected-clients
  Faults,           \* the failures the environment may produce
  None              \* no worker, no file, no peer

FaultKinds ==
  {"raise", "kill", "lose", "reset", "abort", "nameserver", "watchdog", "exec", "uneven"}

ASSUME PopulationAssumption ==
  /\ IsFiniteSet(Containers) /\ Containers # {}
  /\ IsFiniteSet(Workers) /\ Workers # {}
  /\ Containers \cap Workers = {}
  /\ ContainerOf \in [Workers -> Containers]
  /\ SyncCount \in [Workers -> Nat]
  /\ Faults \subseteq FaultKinds

ASSUME CountAssumption ==
  /\ ExpectedClients = Cardinality(Workers)
  /\ InitialClients = Cardinality(Containers)

Clients == Containers \cup Workers
Slots == 1 .. ExpectedClients
Results == [Slots -> Workers \cup {None}]

ASSUME NoneAssumption == None \notin Clients /\ None \notin Results

VARIABLES
  \* sync pod, parent process
  parent, firstPass,
  \* sync pod, the forked child that runs sync_one
  child, status, command, accepted, remaining, peer,
  \* files in the sync pod
  slots, gathered, flag, tmpError, error,
  \* the sync pod's watchdog process and the containers registered with it
  watchdog, watched,
  \* connections that carry a request and are not yet accepted
  backlog,
  \* container main processes and workers
  cstate, wstate, called, passed,
  \* the controller's log_helper thread and the results it holds
  helper, fetched

parentVars == <<parent, firstPass>>
childVars == <<child, status, command, accepted, remaining, peer>>
fileVars == <<slots, gathered, flag, tmpError, error>>
watchdogVars == <<watchdog, watched>>
clientVars == <<cstate, wstate, called, passed>>
helperVars == <<helper, fetched>>
vars == <<parentVars, childVars, fileVars, watchdogVars, backlog, clientVars, helperVars>>

Exited == {"exit0", "exit1"}
ParentStates == {"timing", "loop", "wait", "finish", "publish", "flagwait", "fatal"} \cup Exited
ChildStates == {"none", "accept", "reply", "failwrite", "faillink", "failwait", "exited"}
Commands == {"tnet", "sync", "rslt", "fail"}
ContainerStates == {"boot", "tnet", "ready", "run", "failing", "exited", "dead"}
WorkerStates == {"off", "run", "sync", "rslt", "fail", "ok", "failed", "killed"}
Requests == [from : Clients, cmd : Commands \cup {"short", "silent"}]

(***************************************************************************)
(* Somebody holds the socket the clients connect to: the parent, or the    *)
(* child of a round, which lives on when the parent is gone.               *)
(***************************************************************************)
Serving == parent \notin Exited \/ child \notin {"none", "exited"}

\* The socket listens from the first round on; until then a client is refused.
Listening == Serving /\ ~(firstPass /\ parent \in {"timing", "loop"})

Request(p, cmd) == [from |-> p, cmd |-> cmd]
WorkersOf(c) == {w \in Workers : ContainerOf[w] = c}

(***************************************************************************)
(* A client's process is gone.                                             *)
(***************************************************************************)
Gone(p) == \/ p \in Workers /\ wstate[p] \in {"ok", "failed", "killed"}
           \/ p \in Containers /\ cstate[p] \in {"exited", "dead"}

(***************************************************************************)
(* The client retried after a reset and waits on a connection other than   *)
(* the one its request was sent on.                                        *)
(***************************************************************************)
Astray(p) == peer = p \/ Request(p, "silent") \in backlog

---------------------------------------------------------------------------
(* What the clients do once the connections of a round are closed. *)

AfterWorkerReply ==
  [s \in WorkerStates |-> CASE s = "sync" -> "run"
                            [] s = "rslt" -> "ok"
                            [] s = "fail" -> "failed"
                            [] OTHER      -> s]

\* An empty reply to TNET cannot be parsed: the container exits silently.
AfterContainerReply ==
  [s \in ContainerStates |-> CASE s = "tnet"    -> "dead"
                               [] s = "failing" -> "exited"
                               [] OTHER         -> s]

\* A client that retried after a reset waits on its second connection only.
Released(p) == p = peer \/ (p \in accepted /\ Request(p, "silent") \notin backlog)

CloseConnections ==
  /\ passed' = [w \in Workers |-> IF w \in accepted \cup {peer} THEN called[w] ELSE passed[w]]
  /\ wstate' = [w \in Workers |-> IF Released(w) THEN AfterWorkerReply[wstate[w]]
                                                 ELSE wstate[w]]
  /\ cstate' = [c \in Containers |-> IF Released(c) THEN AfterContainerReply[cstate[c]]
                                                    ELSE cstate[c]]
  /\ accepted' = {}
  /\ peer' = None
  /\ UNCHANGED called

ChildExits(st) ==
  /\ child' = "exited"
  /\ status' = st
  /\ CloseConnections

(***************************************************************************)
(* The parent's exit ends the nameserver and the watchdog and nothing      *)
(* else.  Process 1 of the pod, which forked the parent, is to end the pod *)
(* then, but calls a function that does not exist and goes on waiting: the *)
(* pod stays, with its files and with the child of a round.                *)
(***************************************************************************)
ParentExits(p) ==
  /\ parent' = p
  /\ UNCHANGED <<firstPass, childVars, fileVars, watchdogVars, backlog, clientVars, helperVars>>

---------------------------------------------------------------------------
Init ==
  /\ parent = "timing" /\ firstPass = TRUE
  /\ child = "none" /\ status = 0 /\ command = "none"
  /\ accepted = {} /\ remaining = 0 /\ peer = None
  /\ slots = [s \in Slots |-> None] /\ gathered = [s \in Slots |-> None]
  /\ flag = None /\ tmpError = FALSE /\ error = FALSE
  /\ watchdog = "armed" /\ watched = {}
  /\ backlog = {}
  /\ cstate = [c \in Containers |-> "boot"]
  /\ wstate = [w \in Workers |-> "off"]
  /\ called = [w \in Workers |-> 0]
  /\ passed = [w \in Workers |-> 0]
  /\ helper = "timing" /\ fetched = None

---------------------------------------------------------------------------
(* The sync pod's parent process. *)

GetControllerTiming ==
  /\ parent = "timing" /\ helper \notin {"timing", "lost"}
  /\ parent' = "loop"
  /\ UNCHANGED <<firstPass, childVars, fileVars, watchdogVars, backlog, clientVars, helperVars>>

\* Defect: a round ends one client early.
RoundSizeShort == IF firstPass THEN InitialClients ELSE ExpectedClients - 1

RoundSize == IF firstPass THEN InitialClients ELSE ExpectedClients

\* The check for tmp_error_file before a round finds nothing: the child that
\* wrote it never exits with status 0.
StartRound ==
  /\ parent = "loop" /\ ~tmpError
  /\ parent' = "wait"
  /\ child' = "accept" /\ status' = 0 /\ command' = "none"
  /\ accepted' = {} /\ peer' = None
  /\ remaining' = RoundSize
  /\ UNCHANGED <<firstPass, fileVars, watchdogVars, backlog, clientVars, helperVars>>

\* Defect: a failed round ends the run normally.
AfterRoundFinish(st) == IF st = 0 THEN "loop" ELSE "finish"

AfterRound(st) == CASE st = 2 -> "finish"
                    [] st = 0 -> "loop"
                    [] OTHER  -> "fatal"

Reap ==
  /\ parent = "wait" /\ child = "exited"
  /\ parent' = AfterRound(status)
  /\ firstPass' = FALSE
  /\ child' = "none"
  /\ UNCHANGED <<status, command, accepted, remaining, peer, fileVars, watchdogVars, backlog,
                 clientVars, helperVars>>

\* os.wait() returns whichever child ends: a nameserver that died ends the run.
NameserverDies ==
  /\ "nameserver" \in Faults
  /\ parent = "wait"
  /\ parent' = "fatal"
  /\ UNCHANGED <<firstPass, childVars, fileVars, watchdogVars, backlog, clientVars, helperVars>>

Fatal == parent = "fatal" /\ ParentExits("exit1")

GatherResults ==
  /\ parent = "finish"
  /\ IF tmpError THEN parent' = "fatal" /\ UNCHANGED gathered
                 ELSE parent' = "publish" /\ gathered' = slots
  /\ UNCHANGED <<firstPass, childVars, slots, flag, tmpError, error, watchdogVars, backlog,
                 clientVars, helperVars>>

PublishResults ==
  /\ parent = "publish"
  /\ parent' = "flagwait"
  /\ flag' = gathered
  /\ UNCHANGED <<firstPass, childVars, slots, gathered, tmpError, error, watchdogVars, backlog,
                 clientVars, helperVars>>

\* Defect: the parent exits without waiting for the flag file to be removed.
FlagRemovedOrNot == parent = "flagwait"

FlagRemoved == parent = "flagwait" /\ flag = None

FinishExit == FlagRemoved /\ ParentExits("exit0")

\* Defect: the handler of the watchdog's signal does nothing.
WatchdogHandlerReturns == parent' = parent

WatchdogHandler == parent' = "finish"

(***************************************************************************)
(* A container that registered with the watchdog and is gone stops patting *)
(* it; the watchdog signals the parent, whose handler calls finish()       *)
(* wherever the parent is, and never returns.                              *)
(***************************************************************************)
WatchdogTimeout ==
  /\ "watchdog" \in Faults
  /\ watchdog = "armed" /\ parent \notin Exited
  /\ \E c \in watched : Gone(c)
  /\ watchdog' = "fired"
  /\ WatchdogHandler
  /\ UNCHANGED <<firstPass, childVars, fileVars, watched, backlog, clientVars, helperVars>>

---------------------------------------------------------------------------
(* The child process: sync_one. *)

\* Defect: fail_hard returns, and the child goes on accepting.
AcceptingAlways == remaining > 0 /\ peer = None

Accepting == child = "accept" /\ remaining > 0 /\ peer = None

\* Defect: the command of a round is not checked.
RejectedAnyRound(m) == (m.cmd = "tnet" /\ ~firstPass) \/ m.cmd = "fail"

\* The conditions under which sync_one calls fail_hard on a request it read.
Rejected(m) ==
  \/ command \notin {"none", m.cmd}
  \/ m.cmd = "tnet" /\ ~firstPass
  \/ m.cmd = "fail"

AcceptRequest(m) ==
  /\ Accepting /\ m.cmd \in Commands /\ ~Rejected(m)
  /\ backlog' = backlog \ {m}
  /\ accepted' = accepted \cup {m.from}
  /\ command' = m.cmd
  /\ slots' = IF m.cmd = "rslt" THEN [slots EXCEPT ![remaining] = m.from] ELSE slots
  /\ remaining' = remaining - 1
  /\ UNCHANGED <<parentVars, child, status, peer, gathered, flag, tmpError, error, watchdogVars,
                 clientVars, helperVars>>

RejectRequest(m) ==
  /\ Accepting /\ m.cmd \in Commands /\ Rejected(m)
  /\ backlog' = backlog \ {m}
  /\ accepted' = accepted \cup {m.from}
  /\ command' = IF command = "none" THEN m.cmd ELSE command
  /\ child' = "failwrite"
  /\ UNCHANGED <<parentVars, status, remaining, peer, fileVars, watchdogVars, clientVars,
                 helperVars>>

\* read_token raises on a request cut short; nothing catches it.
ReadShortRequest(m) ==
  /\ Accepting /\ m.cmd = "short"
  /\ backlog' = backlog \ {m}
  /\ ChildExits(1)
  /\ UNCHANGED <<parentVars, command, remaining, fileVars, watchdogVars, helperVars>>

\* read_token blocks on a connection whose client sends nothing, and which it
\* accepts after the client's first one ...
ReadSilentRequest(m) ==
  /\ Accepting /\ m.cmd = "silent" /\ Request(m.from, "short") \notin backlog
  /\ backlog' = backlog \ {m}
  /\ peer' = m.from
  /\ UNCHANGED <<parentVars, child, status, command, accepted, remaining, fileVars, watchdogVars,
                 clientVars, helperVars>>

\* ... until that client is gone.
SilentPeerCloses ==
  /\ child = "accept" /\ peer # None /\ Gone(peer)
  /\ peer' = None
  /\ UNCHANGED <<parentVars, child, status, command, accepted, remaining, fileVars, watchdogVars,
                 backlog, clientVars, helperVars>>

\* The last request of a round is in: reply to TNET, or exit and let everyone go.
StartReplies ==
  /\ child = "accept" /\ remaining = 0 /\ command = "tnet"
  /\ child' = "reply"
  /\ UNCHANGED <<parentVars, status, command, accepted, remaining, peer, fileVars, watchdogVars,
                 backlog, clientVars, helperVars>>

CompleteRound ==
  /\ child = "accept" /\ remaining = 0 /\ command # "tnet"
  /\ ChildExits(IF command = "rslt" THEN 2 ELSE 0)
  /\ UNCHANGED <<parentVars, command, remaining, fileVars, watchdogVars, backlog, helperVars>>

\* The container parses the reply.
ReplyTimestamp(c) ==
  /\ child = "reply" /\ c \in accepted
  /\ accepted' = accepted \ {c}
  /\ cstate' = IF cstate[c] = "tnet" /\ ~Astray(c) THEN [cstate EXCEPT ![c] = "ready"]
                                                   ELSE cstate
  /\ UNCHANGED <<parentVars, child, status, command, remaining, peer, fileVars, watchdogVars,
                 backlog, wstate, called, passed, helperVars>>

\* Sending to a client that is gone may raise; nothing catches it.
ReplyRaises(c) ==
  /\ child = "reply" /\ c \in accepted /\ (cstate[c] # "tnet" \/ Astray(c))
  /\ ChildExits(1)
  /\ UNCHANGED <<parentVars, command, remaining, fileVars, watchdogVars, backlog, helperVars>>

FinishReplies ==
  /\ child = "reply" /\ accepted = {}
  /\ ChildExits(0)
  /\ UNCHANGED <<parentVars, command, remaining, fileVars, watchdogVars, backlog, helperVars>>

\* fail_hard: write the temporary error file, link it, wait for the removal of
\* the link, which no part of the driver removes.
WriteError ==
  /\ child = "failwrite"
  /\ child' = "faillink"
  /\ tmpError' = TRUE
  /\ UNCHANGED <<parentVars, status, command, accepted, remaining, peer, slots, gathered, flag,
                 error, watchdogVars, backlog, clientVars, helperVars>>

LinkError ==
  /\ child = "faillink" /\ ~error
  /\ child' = "failwait"
  /\ error' = TRUE
  /\ UNCHANGED <<parentVars, status, command, accepted, remaining, peer, slots, gathered, flag,
                 tmpError, watchdogVars, backlog, clientVars, helperVars>>

\* os.link fails because the controller has created the error file: fatal.
LinkErrorFails ==
  /\ child = "faillink" /\ error
  /\ ChildExits(1)
  /\ UNCHANGED <<parentVars, command, remaining, fileVars, watchdogVars, backlog, helperVars>>

---------------------------------------------------------------------------
(* Containers and workers. *)

Send(p, cmd) == backlog' = backlog \cup {Request(p, cmd)}

InitializeTiming(c) ==
  /\ cstate[c] = "boot"
  /\ cstate' = [cstate EXCEPT ![c] = "tnet"]
  /\ Send(c, "tnet")
  /\ UNCHANGED <<parentVars, childVars, fileVars, watchdogVars, wstate, called, passed,
                 helperVars>>

\* The watchdog's client of a container, a process of its own, connects to the
\* watchdog for the first time: only now does the watchdog know of the container.
PatWatchdog(c) ==
  /\ "watchdog" \in Faults
  /\ watchdog = "armed" /\ parent \notin Exited
  /\ cstate[c] \in {"ready", "run", "failing"} /\ c \notin watched
  /\ watched' = watched \cup {c}
  /\ UNCHANGED <<parentVars, childVars, fileVars, watchdog, backlog, clientVars, helperVars>>

ForkWorkers(c) ==
  /\ cstate[c] = "ready"
  /\ cstate' = [cstate EXCEPT ![c] = "run"]
  /\ wstate' = [w \in Workers |-> IF w \in WorkersOf(c) THEN "run" ELSE wstate[w]]
  /\ UNCHANGED <<parentVars, childVars, fileVars, watchdogVars, backlog, called, passed,
                 helperVars>>

SyncToController(w) ==
  /\ wstate[w] = "run" /\ called[w] < SyncCount[w]
  /\ wstate' = [wstate EXCEPT ![w] = "sync"]
  /\ called' = [called EXCEPT ![w] = @ + 1]
  /\ Send(w, "sync")
  /\ UNCHANGED <<parentVars, childVars, fileVars, watchdogVars, cstate, passed, helperVars>>

ReportResults(w) ==
  /\ wstate[w] = "run"
  /\ called[w] = SyncCount[w] \/ "uneven" \in Faults
  /\ wstate' = [wstate EXCEPT ![w] = "rslt"]
  /\ Send(w, "rslt")
  /\ UNCHANGED <<parentVars, childVars, fileVars, watchdogVars, cstate, called, passed,
                 helperVars>>

\* runit raises: the worker itself reports the failure.
WorkloadRaises(w) ==
  /\ "raise" \in Faults
  /\ wstate[w] = "run"
  /\ wstate' = [wstate EXCEPT ![w] = "fail"]
  /\ Send(w, "fail")
  /\ UNCHANGED <<parentVars, childVars, fileVars, watchdogVars, cstate, called, passed,
                 helperVars>>

\* Defect: a worker killed by a signal is not reported.
WorkersSucceededOrKilled(c) == \A w \in WorkersOf(c) : wstate[w] \in {"ok", "killed"}

WorkersSucceeded(c) == \A w \in WorkersOf(c) : wstate[w] = "ok"

\* The main process waits for every one of its workers before it reports.
MainReapsWorkers(c) ==
  /\ cstate[c] = "run"
  /\ \A w \in WorkersOf(c) : wstate[w] \in {"ok", "failed", "killed"}
  /\ IF WorkersSucceeded(c)
     THEN cstate' = [cstate EXCEPT ![c] = "exited"] /\ UNCHANGED backlog
     ELSE cstate' = [cstate EXCEPT ![c] = "failing"] /\ Send(c, "fail")
  /\ UNCHANGED <<parentVars, childVars, fileVars, watchdogVars, wstate, called, passed,
                 helperVars>>

\* A FAIL request is given up after its timeout once nobody serves it.
FailTimesOut(p) ==
  /\ ~Serving
  /\ \/ /\ p \in Workers /\ wstate[p] = "fail"
        /\ wstate' = [wstate EXCEPT ![p] = "failed"] /\ UNCHANGED cstate
     \/ /\ p \in Containers /\ cstate[p] = "failing"
        /\ cstate' = [cstate EXCEPT ![p] = "exited"] /\ UNCHANGED wstate
  /\ UNCHANGED <<parentVars, childVars, fileVars, watchdogVars, backlog, called, passed,
                 helperVars>>

\* The kernel kills one worker, possibly while it is sending a request.
WorkerKilled(w) ==
  /\ "kill" \in Faults
  /\ wstate[w] \in {"run", "sync", "rslt", "fail"}
  /\ wstate' = [wstate EXCEPT ![w] = "killed"]
  /\ \/ UNCHANGED backlog
     \/ wstate[w] = "run" /\ Send(w, "short")
  /\ UNCHANGED <<parentVars, childVars, fileVars, watchdogVars, cstate, called, passed,
                 helperVars>>

\* A whole container is lost, with all of its processes.
ContainerLost(c) ==
  /\ "lose" \in Faults
  /\ cstate[c] \in {"boot", "tnet", "ready", "run", "failing"}
  /\ cstate' = [cstate EXCEPT ![c] = "dead"]
  /\ wstate' = [w \in Workers |-> IF w \in WorkersOf(c)
                                     /\ wstate[w] \in {"run", "sync", "rslt", "fail"}
                                  THEN "killed" ELSE wstate[w]]
  /\ UNCHANGED <<parentVars, childVars, fileVars, watchdogVars, backlog, called, passed,
                 helperVars>>

\* Defect: the retry sends the request again, although it may have been counted.
RetriedAgain(p, cmd) == Request(p, cmd)

Retried(p, cmd) == Request(p, "silent")

(***************************************************************************)
(* The connection a client waits on is reset.  _send_message connects      *)
(* again, but has consumed its token: the new connection carries nothing.  *)
(* A request the sync pod had not read yet is cut short.                   *)
(***************************************************************************)
ConnectionReset(p, cmd) ==
  /\ "reset" \in Faults /\ Listening /\ ~Astray(p)
  /\ \/ p \in Workers /\ wstate[p] = cmd
     \/ p \in Containers /\ cstate[p] = cmd
  /\ backlog' = {Retried(p, cmd)} \cup
                IF Request(p, cmd) \in backlog
                THEN (backlog \ {Request(p, cmd)}) \cup {Request(p, "short")}
                ELSE backlog
  /\ UNCHANGED <<parentVars, childVars, fileVars, watchdogVars, clientVars, helperVars>>

---------------------------------------------------------------------------
(* The controller. *)

\* The outcome of writing the timestamp is not looked at: it may never arrive.
GiveTimestamp ==
  /\ helper = "timing"
  /\ \/ helper' = "poll"
     \/ "exec" \in Faults /\ helper' = "lost"
  /\ UNCHANGED <<parentVars, childVars, fileVars, watchdogVars, backlog, clientVars, fetched>>

\* log_helper: read the flag file and validate what it holds, ...
ReadFlag ==
  /\ helper = "poll" /\ flag # None
  /\ helper' = "read"
  /\ fetched' = flag
  /\ UNCHANGED <<parentVars, childVars, fileVars, watchdogVars, backlog, clientVars>>

\* Defect: the flag file is removed before it is read and validated.
ValidatedOrNot == helper \in {"poll", "read"} /\ flag # None

Validated == helper = "read"

\* ... then remove it, which lets the sync pod exit, ...
RemoveFlag ==
  /\ Validated
  /\ helper' = "done"
  /\ flag' = None
  /\ UNCHANGED <<parentVars, childVars, slots, gathered, tmpError, error, watchdogVars, backlog,
                 clientVars, fetched>>

\* ... or return all the same when every attempt to remove it failed.
RemoveFlagFails ==
  /\ "exec" \in Faults /\ helper = "read"
  /\ helper' = "done"
  /\ UNCHANGED <<parentVars, childVars, fileVars, watchdogVars, backlog, clientVars, fetched>>

\* _set_run_failed appends to the error file through notify_sync_pod_error.
NotifyError ==
  /\ "abort" \in Faults
  /\ helper # "timing" /\ ~error
  /\ error' = TRUE
  /\ UNCHANGED <<parentVars, childVars, slots, gathered, flag, tmpError, watchdogVars, backlog,
                 clientVars, helperVars>>

---------------------------------------------------------------------------
ParentStep == \/ GetControllerTiming \/ StartRound \/ Reap \/ Fatal
              \/ GatherResults \/ PublishResults \/ FinishExit

ChildStep == \/ \E m \in backlog : \/ AcceptRequest(m) \/ RejectRequest(m)
                                   \/ ReadShortRequest(m) \/ ReadSilentRequest(m)
             \/ SilentPeerCloses \/ StartReplies \/ CompleteRound
             \/ \E c \in Containers : ReplyTimestamp(c) \/ ReplyRaises(c)
             \/ FinishReplies \/ WriteError \/ LinkError \/ LinkErrorFails

ContainerStep(c) == \/ InitializeTiming(c) \/ PatWatchdog(c) \/ ForkWorkers(c)
                    \/ MainReapsWorkers(c) \/ FailTimesOut(c)
WorkerStep(w) == SyncToController(w) \/ ReportResults(w) \/ FailTimesOut(w)
HelperStep == GiveTimestamp \/ ReadFlag \/ RemoveFlag

FaultStep == \/ NameserverDies \/ WatchdogTimeout \/ RemoveFlagFails \/ NotifyError
             \/ \E w \in Workers : WorkloadRaises(w) \/ WorkerKilled(w)
             \/ \E c \in Containers : ContainerLost(c)
             \/ \E p \in Clients, cmd \in {"tnet", "sync", "rslt"} : ConnectionReset(p, cmd)

Next == \/ ParentStep \/ ChildStep \/ HelperStep \/ FaultStep
        \/ \E c \in Containers : ContainerStep(c)
        \/ \E w \in Workers : WorkerStep(w)

Spec == Init /\ [][Next]_vars

(***************************************************************************)
(* Every process that can take a step of its own eventually takes one.     *)
(* Nothing is assumed of the failures, except that an armed watchdog does  *)
(* notice a container that stopped patting it.                             *)
(***************************************************************************)
Fairness == /\ WF_vars(ParentStep) /\ WF_vars(ChildStep) /\ WF_vars(HelperStep)
            /\ \A c \in Containers : WF_vars(ContainerStep(c))
            /\ \A w \in Workers : WF_vars(WorkerStep(w))
            /\ WF_vars(WatchdogTimeout)

FairSpec == Spec /\ Fairness

---------------------------------------------------------------------------
(* Correctness. *)

TypeOK ==
  /\ parent \in ParentStates /\ firstPass \in BOOLEAN
  /\ child \in ChildStates /\ status \in 0 .. 2
  /\ command \in Commands \cup {"none"}
  /\ accepted \subseteq Clients /\ remaining \in Nat
  /\ peer \in Clients \cup {None} /\ (peer # None => child = "accept" /\ remaining > 0)
  /\ slots \in Results /\ gathered \in Results /\ flag \in Results \cup {None}
  /\ tmpError \in BOOLEAN /\ error \in BOOLEAN
  /\ watchdog \in {"armed", "fired"} /\ watched \subseteq Containers
  /\ backlog \subseteq Requests
  /\ cstate \in [Containers -> ContainerStates]
  /\ wstate \in [Workers -> WorkerStates]
  /\ called \in [Workers -> Nat] /\ passed \in [Workers -> Nat]
  /\ helper \in {"timing", "lost", "poll", "read", "done"}
  /\ fetched \in Results \cup {None}

\* No child failed: that is what cuts a round short.
Intact == status # 1

(***************************************************************************)
(* As long as the sync pod is intact, no worker is released from its k-th  *)
(* synchronization before every worker has asked for its own k-th: the     *)
(* rounds count clients, not workers, so this needs the requests of        *)
(* different rounds never to mix (sync_one, sync.py:382-462).              *)
(***************************************************************************)
BarrierSafety ==
  Intact => \A v, w \in Workers : passed[v] <= called[w]

\* A result file holds the report of every worker.
CompleteResults(data) == \A w \in Workers : \E s \in Slots : data[s] = w

(***************************************************************************)
(* Without a watchdog timeout, what the controller can read or has read is *)
(* the result of every worker, all of which have passed the same number of *)
(* synchronizations, and no failure was recorded (finish, sync.py:476).    *)
(***************************************************************************)
PublishedComplete ==
  watchdog # "fired" =>
    \A data \in {flag, fetched} \ {None} :
      /\ CompleteResults(data)
      /\ \A v, w \in Workers : passed[v] = called[w]
      /\ ~tmpError

(***************************************************************************)
(* The sync pod's parent exits with success only once the controller holds *)
(* results, even if a watchdog timeout made it publish them a second time  *)
(* (design document, 5.4: read, validate, remove; log_helper,              *)
(* driver/sync.py:131-138).                                                *)
(***************************************************************************)
ReadBeforeExit == parent = "exit0" => fetched # None

(***************************************************************************)
(* Without a watchdog timeout, the results that disappear from the sync    *)
(* pod are exactly those the controller has read (log_helper reads the     *)
(* flag file in one exec and removes it in another one).                   *)
(***************************************************************************)
RemovesOnlyRead ==
  [][flag # None /\ flag' = None /\ watchdog # "fired" => fetched = flag]_vars

(***************************************************************************)
(* A watchdog timeout aborts the run: it never turns into results that     *)
(* miss a worker (cli.py:781-784, "if the watchdog is not reset within the *)
(* timeout, the run is aborted").                                          *)
(***************************************************************************)
WatchdogAborts ==
  watchdog = "fired" /\ fetched # None => CompleteResults(fetched)

(***************************************************************************)
(* The rounds implement the barrier: the promise of SyncBarrier, with the  *)
(* results the sync pod has stored and the outcome the driver sees.        *)
(***************************************************************************)
Stored == {slots[s] : s \in Slots} \ {None}
Failed == status = 1 \/ tmpError \/ parent \in {"fatal", "exit1"}
Outcome == IF flag # None \/ fetched # None THEN "published"
           ELSE IF Failed THEN "failed" ELSE "running"

Barrier == INSTANCE SyncBarrier WITH stored <- Stored, outcome <- Outcome
ImplementsBarrier == Barrier!BarrierSpec

---------------------------------------------------------------------------
(* Progress. *)

\* The driver can tell how the run ended: it finds an error or a flag file.
Decided == error \/ flag # None \/ fetched # None

\* A round's child died of an exception and the parent with it: the pod stays
\* and no file in it says so.
CutOff == parent = "exit1" /\ status = 1

\* Something went wrong with a worker or a container, or the controller aborted the run.
Disturbed == \/ tmpError
             \/ \E w \in Workers : wstate[w] \in {"fail", "failed", "killed"}
             \/ \E c \in Containers : cstate[c] = "dead"
             \/ \E w \in Workers : wstate[w] \in {"rslt", "ok"} /\ called[w] # SyncCount[w]

(***************************************************************************)
(* A run that nothing disturbs completes: every worker is let through all  *)
(* its barriers, its result is collected and the sync pod exits.           *)
(***************************************************************************)
Completes == <>(Disturbed \/ (parent = "exit0" /\ \A w \in Workers : wstate[w] = "ok"))

(***************************************************************************)
(* A worker that fails decides the run although everyone else is blocked   *)
(* in a barrier it will not join (__fail, clusterbuster_pod_client.py:462; *)
(* fail_hard, sync.py:345), unless an exception has ended the sync pod's   *)
(* processes, of which nobody tells the driver.                            *)
(***************************************************************************)
FailureDecides ==
  \A w \in Workers : wstate[w] \in {"fail", "failed", "killed"} ~> (Decided \/ CutOff)

(***************************************************************************)
(* With the watchdog, a container that is lost after it has registered     *)
(* does not leave the others waiting in a barrier for ever, with the same  *)
(* exception (watchdog, sync.py:92-161).                                   *)
(***************************************************************************)
LossDecides ==
  \A c \in Containers :
    (cstate[c] = "dead" /\ c \in watched) ~> (Decided \/ CutOff)

(***************************************************************************)
(* Workloads that do not synchronize equally often are found out: when one *)
(* reports its results while another one still synchronizes, the sync pod  *)
(* records an error or gives up (docs/clusterbuster.md:536-540).           *)
(***************************************************************************)
UnevenDetected ==
  \A v, w \in Workers :
    (wstate[v] = "rslt" /\ called[v] < called[w]) ~> (tmpError \/ parent = "exit1")

(***************************************************************************)
(* A client whose connection is reset after its request has been read says *)
(* it retries (cb_util.py:425), and the run completes.                     *)
(***************************************************************************)
ResetRecovers == [](\A m \in backlog : m.cmd # "short") => Completes
===========================================================================
