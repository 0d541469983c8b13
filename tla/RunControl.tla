---------------------------- MODULE RunControl ----------------------------
(***************************************************************************)
(* How a run ends in the controller: do_logging and the end of run() in    *)
(* lib/clusterbuster/driver/orchestrator.py, its monitor, log helper and   *)
(* fail helper threads (driver/monitoring.py, driver/sync.py), the signal  *)
(* handler, which interrupts the main thread, and the sync pod as these    *)
(* see it.  SyncProtocol models the inside of the sync pod.                *)
(*                                                                         *)
(* The threads share four events (shutdown_event, run_failed,              *)
(* run_complete, any_thread_done) and failure_reason, which a lock guards. *)
(* Event.set takes the event's own lock; only where a signal can interrupt *)
(* the main thread inside it is it more than one step.                     *)
(*                                                                         *)
(* Left out: --wait-forever, runs without a sync pod, snapshots, metrics   *)
(* and artifacts, which change none of this state.                         *)
(***************************************************************************)
EXTENDS Naturals

CONSTANTS
  Configurations,  \* does the workload report, is there a --timeout, has the cluster many pods
  Faults,          \* the failures the environment may produce
  MaxSignals,      \* how many signals the user sends
  None             \* no reason, no lock holder, no report

FaultKinds == {"create", "slow", "podfail", "crash", "exec", "watch", "raise"}

ASSUME ConfigurationAssumption ==
  Configurations \subseteq [reporting : BOOLEAN, timeout : BOOLEAN, many : BOOLEAN]
ASSUME FaultAssumption == Faults \subseteq FaultKinds /\ MaxSignals \in Nat

\* The threads that call _set_run_failed.
Callers == {"main", "monitor", "log", "fail"}
Reasons == Callers \cup {"signal"}

ASSUME ReasonAssumption == None \notin Reasons /\ None \notin [ok : BOOLEAN, results : BOOLEAN]

VARIABLES
  cfg,
  \* program counters: the main thread, the signal handler in it, the other threads
  main, handler, monitor, log, fail,
  \* the progress of each thread in _set_run_failed, and who holds its lock
  setting, lock,
  \* the events and the reason
  shutdown, runFailed, runComplete, anyDone, reason,
  \* signals delivered, error notifications sent
  signals, notified,
  \* the sync pod, its error and done files, and whether a worker pod failed
  pod, error, done, crashed,
  \* ctx.worker_results, the status of the run and the report
  results, status, report

threadVars == <<monitor, log, fail>>
failureVars == <<setting, lock, runFailed, reason, notified>>
eventVars == <<shutdown, runComplete, anyDone>>
podVars == <<pod, error, done, crashed>>
resultVars == <<results, status, report>>
vars == <<cfg, main, handler, threadVars, failureVars, eventVars, signals, podVars, resultVars>>

MainStates == {"create", "handshake", "refused", "raised", "start", "loop", "late", "shutting",
               "join", "term", "joinall", "report", "cleanup", "exit", "killed"}
HandlerStates == {"none", "shutdown", "reason", "fail", "stuck"}
MonitorStates == {"off", "watch", "failing", "sleep", "ending", "done"}
LogStates == {"off", "start", "check", "exec", "read", "complete", "store", "api", "phase",
              "failing", "ending", "done"}
FailStates == {"off", "check", "exec", "failing", "done"}
SettingStates == {"idle", "want", "locked", "set", "notify"}
PodStates == {"sync", "fail", "flag", "removed", "dead"}

\* The pod's first process stays when those of the sync have ended.
PodRunning == pod # "dead"
Ended == main \in {"exit", "killed"}
Stopping == shutdown \/ runFailed
MainRuns == handler = "none" /\ ~Ended

Init ==
  /\ cfg \in Configurations
  /\ main = "create" /\ handler = "none" /\ monitor = "off" /\ log = "off" /\ fail = "off"
  /\ setting = [c \in Callers |-> "idle"] /\ lock = None
  /\ shutdown = FALSE /\ runFailed = FALSE /\ runComplete = FALSE /\ anyDone = FALSE
  /\ reason = None /\ signals = 0 /\ notified = 0
  /\ pod = "sync" /\ error = FALSE /\ done = FALSE /\ crashed = FALSE
  /\ results = FALSE /\ status = 0 /\ report = None

---------------------------------------------------------------------------
(* _set_run_failed, step by step, for the thread that called it. *)

Call(c) == setting' = [setting EXCEPT ![c] = "want"]
CallOver(c) == setting[c] = "idle"
Running(c) == c = "main" => MainRuns

\* Defect: the check and the assignment are not guarded by the lock.
LockIgnored(c) == TRUE

LockFree(c) == lock = None

TakeLock(c) ==
  /\ Running(c) /\ setting[c] = "want" /\ LockFree(c)
  /\ lock' = c
  /\ setting' = [setting EXCEPT ![c] = "locked"]
  /\ UNCHANGED <<cfg, main, handler, threadVars, runFailed, reason, notified, eventVars, signals,
                 podVars, resultVars>>

\* Defect: a secondary failure is not told from the first one.
NeverSecondary == FALSE

Secondary == runFailed

CheckFailed(c) ==
  /\ Running(c) /\ setting[c] = "locked"
  /\ IF Secondary
     THEN /\ setting' = [setting EXCEPT ![c] = "idle"]
          /\ lock' = None
          /\ UNCHANGED reason
     ELSE /\ setting' = [setting EXCEPT ![c] = "set"]
          /\ reason' = c
          /\ UNCHANGED lock
  /\ UNCHANGED <<cfg, main, handler, threadVars, runFailed, notified, eventVars, signals, podVars,
                 resultVars>>

SetRunFailed(c) ==
  /\ Running(c) /\ setting[c] = "set"
  /\ runFailed' = TRUE
  /\ lock' = None
  /\ setting' = [setting EXCEPT ![c] = "notify"]
  /\ UNCHANGED <<cfg, main, handler, threadVars, reason, notified, eventVars, signals, podVars,
                 resultVars>>

\* notify_sync_pod_error appends to the error file, or reports that it cannot; before the
\* handshake is over, the pod need not run yet.
Notify(c) ==
  /\ Running(c) /\ setting[c] = "notify"
  /\ notified' = notified + 1
  /\ \/ PodRunning /\ error' = TRUE
     \/ (~PodRunning \/ monitor = "off" \/ "exec" \in Faults) /\ UNCHANGED error
  /\ setting' = [setting EXCEPT ![c] = "idle"]
  /\ UNCHANGED <<cfg, main, handler, threadVars, lock, runFailed, reason, eventVars, signals, pod,
                 done, crashed, resultVars>>

---------------------------------------------------------------------------
(* The main thread. *)

mainRest == <<cfg, handler, threadVars, failureVars, eventVars, signals, podVars, resultVars>>

MainTo(from, to) == MainRuns /\ main = from /\ main' = to

CreateObjects == MainTo("create", "handshake") /\ UNCHANGED mainRest

\* create_all_objects raises RunFailed after a signal or when a batch fails.
CreateFails ==
  /\ MainTo("create", "term")
  /\ runFailed \/ "create" \in Faults
  /\ status' = 1
  /\ reason' = IF reason = None THEN "main" ELSE reason
  /\ UNCHANGED <<cfg, handler, threadVars, setting, lock, runFailed, notified, eventVars, signals,
                 podVars, results, report>>

Handshake ==
  /\ MainTo("handshake", "start")
  /\ cfg.reporting => PodRunning
  /\ UNCHANGED mainRest

HandshakeFails ==
  /\ MainTo("handshake", "refused")
  /\ cfg.reporting
  /\ Stopping \/ pod = "dead" \/ "slow" \in Faults
  /\ Call("main")
  /\ UNCHANGED <<cfg, handler, threadVars, lock, runFailed, reason, notified, eventVars, signals,
                 podVars, resultVars>>

HandshakeRefused ==
  /\ MainTo("refused", "term") /\ CallOver("main")
  /\ status' = 1
  /\ UNCHANGED <<cfg, handler, threadVars, failureVars, eventVars, signals, podVars, results,
                 report>>

(***************************************************************************)
(* Any other exception, of a command or of the creation's own code, is     *)
(* recorded by run() itself; the loop's only command is the direct check's.*)
(***************************************************************************)
RunRaises ==
  /\ MainRuns /\ main \in {"create", "handshake", "loop"} /\ CallOver("main")
  /\ "raise" \in Faults
  /\ main = "handshake" => cfg.reporting
  /\ main = "loop" => cfg.timeout /\ ~runFailed
  /\ main' = "raised"
  /\ Call("main")
  /\ UNCHANGED <<cfg, handler, threadVars, lock, runFailed, reason, notified, eventVars, signals,
                 podVars, resultVars>>

RunRaised ==
  /\ MainTo("raised", "term") /\ CallOver("main")
  /\ status' = 1
  /\ UNCHANGED <<cfg, handler, threadVars, failureVars, eventVars, signals, podVars, results,
                 report>>

StartThreads ==
  /\ MainTo("start", "loop")
  /\ monitor' = "watch"
  /\ log' = IF cfg.reporting THEN "start" ELSE "off"
  /\ UNCHANGED <<cfg, handler, fail, failureVars, eventVars, signals, podVars, resultVars>>

\* Without --timeout the loop looks at run_failed, with it it does not.
LoopEnds ==
  /\ MainTo("loop", "shutting") /\ CallOver("main")
  /\ anyDone \/ (~cfg.timeout /\ runFailed)
  /\ UNCHANGED mainRest

TimeOut ==
  /\ MainTo("loop", "late") /\ CallOver("main")
  /\ cfg.timeout /\ ~anyDone
  /\ Call("main")
  /\ UNCHANGED <<cfg, handler, threadVars, lock, runFailed, reason, notified, eventVars, signals,
                 podVars, resultVars>>

TimedOut ==
  /\ MainTo("late", "shutting") /\ CallOver("main")
  /\ UNCHANGED mainRest

CheckPodsDirect ==
  /\ MainRuns /\ main = "loop" /\ CallOver("main")
  /\ cfg.timeout /\ ~runFailed /\ (crashed \/ pod = "dead")
  /\ Call("main")
  /\ UNCHANGED <<cfg, main, handler, threadVars, lock, runFailed, reason, notified, eventVars,
                 signals, podVars, resultVars>>

Shutdown ==
  /\ MainTo("shutting", "join")
  /\ shutdown' = TRUE
  /\ UNCHANGED <<cfg, handler, threadVars, failureVars, runComplete, anyDone, signals, podVars,
                 resultVars>>

(***************************************************************************)
(* Joining a thread gives up after 30 seconds: only a thread that waits    *)
(* for a command, sleeps, or was not told to end (run() records an         *)
(* exception without setting shutdown_event) can be that late.             *)
(***************************************************************************)
Watching == monitor = "watch" /\ ~shutdown /\ ~runComplete

Blocked(c) == setting[c] = "notify" \/ CASE c = "monitor" -> monitor = "sleep" \/ Watching
                                         [] c = "log"  -> log \in {"exec", "read", "api", "phase"}
                                         [] c = "fail" -> fail = "exec"
                                         [] OTHER      -> FALSE
ThreadOver(c) == CASE c = "monitor" -> monitor \in {"off", "done"}
                   [] c = "log"     -> log \in {"off", "done"}
                   [] c = "fail"    -> fail \in {"off", "done"}
                   [] OTHER         -> TRUE

\* Defects: the threads are not joined; they are joined without a time limit.
NotJoined(c) == TRUE
JoinedForever(c) == ThreadOver(c)

Joined(c) == ThreadOver(c) \/ Blocked(c)

JoinActive ==
  /\ MainTo("join", "term")
  /\ Joined("monitor") /\ Joined("log")
  /\ status' = IF runFailed THEN 1 ELSE 0
  /\ UNCHANGED <<cfg, handler, threadVars, failureVars, eventVars, signals, podVars, results,
                 report>>

\* A command is killed once its thread has registered it.
TerminateSubprocesses ==
  /\ MainTo("term", "joinall")
  /\ log' \in {log, IF log = "exec" THEN "api" ELSE log}
  /\ fail' \in {fail, IF fail = "exec" THEN "check" ELSE fail}
  /\ UNCHANGED <<cfg, handler, monitor, failureVars, eventVars, signals, podVars, resultVars>>

JoinThreads ==
  /\ MainTo("joinall", "report")
  /\ \A c \in Callers : Joined(c)
  /\ UNCHANGED mainRest

Report ==
  /\ MainTo("report", "cleanup")
  /\ report' = [ok |-> status = 0, results |-> results]
  /\ UNCHANGED <<cfg, handler, threadVars, failureVars, eventVars, signals, podVars, results,
                 status>>

Cleanup == MainTo("cleanup", "exit") /\ UNCHANGED mainRest

---------------------------------------------------------------------------
(* The signal handler runs in the main thread, between two of its steps.   *)

handlerRest == <<cfg, threadVars, lock, setting, notified, runComplete, anyDone, podVars,
                 resultVars>>

(***************************************************************************)
(* A signal may interrupt the handler of another.  Once shutdown_event is  *)
(* set it kills the process; before, the inner handler does the outer      *)
(* one's work, or waits for ever if the outer one is inside Event.set.     *)
(***************************************************************************)
Signal ==
  /\ signals < MaxSignals /\ ~Ended
  /\ signals' = signals + 1
  /\ \/ shutdown /\ main' = "killed" /\ handler' = "none"
     \/ /\ ~shutdown /\ UNCHANGED main
        /\ handler' \in IF handler = "none" THEN {"shutdown"} ELSE {handler, "stuck"}
  /\ UNCHANGED <<shutdown, runFailed, reason, handlerRest>>

\* Event.set waits for ever if the main thread was interrupted inside the same Event.set.
HandlerShutdown ==
  /\ handler = "shutdown"
  /\ \/ shutdown' = TRUE /\ handler' = "reason"
     \/ main = "shutting" /\ handler' = "stuck" /\ UNCHANGED shutdown
  /\ UNCHANGED <<main, signals, runFailed, reason, handlerRest>>

HandlerReason ==
  /\ handler = "reason"
  /\ handler' = "fail"
  /\ reason' = IF lock = None /\ ~runFailed THEN "signal" ELSE reason
  /\ UNCHANGED <<main, signals, shutdown, runFailed, handlerRest>>

HandlerFail ==
  /\ handler = "fail"
  /\ \/ runFailed' = TRUE /\ handler' = "none"
     \/ setting["main"] = "set" /\ handler' = "stuck" /\ UNCHANGED runFailed
  /\ UNCHANGED <<main, signals, shutdown, reason, handlerRest>>

---------------------------------------------------------------------------
(* The monitor thread. *)

monitorRest == <<cfg, main, handler, log, fail, signals, podVars, resultVars>>

MonitorStops ==
  /\ monitor = "watch" /\ ~Watching
  /\ monitor' = "ending"
  /\ UNCHANGED <<failureVars, eventVars, monitorRest>>

\* A pod failed or is stuck, or the thread raised.
MonitorSeesFailure ==
  /\ Watching
  /\ crashed \/ pod = "dead" \/ Faults \cap {"slow", "raise"} # {}
  /\ monitor' = "failing"
  /\ Call("monitor")
  /\ UNCHANGED <<lock, runFailed, reason, notified, eventVars, monitorRest>>

MonitorReturns ==
  /\ monitor = "failing" /\ CallOver("monitor")
  /\ monitor' = "ending"
  /\ UNCHANGED <<failureVars, eventVars, monitorRest>>

\* Every pod of a workload that does not report runs: it is given its run time.
MonitorAllRunning ==
  /\ Watching /\ ~cfg.reporting /\ ~crashed
  /\ monitor' = "sleep"
  /\ UNCHANGED <<failureVars, eventVars, monitorRest>>

MonitorCompletes ==
  /\ monitor = "sleep"
  /\ monitor' = "ending"
  /\ runComplete' = TRUE
  /\ UNCHANGED <<failureVars, shutdown, anyDone, monitorRest>>

\* The command that watches the pods ends: monitor_pods returns None.
WatchEnds ==
  /\ "watch" \in Faults
  /\ monitor = "watch"
  /\ monitor' = "ending"
  /\ UNCHANGED <<failureVars, eventVars, monitorRest>>

MonitorEnds ==
  /\ monitor = "ending"
  /\ monitor' = "done"
  /\ anyDone' = TRUE
  /\ UNCHANGED <<failureVars, shutdown, runComplete, monitorRest>>

---------------------------------------------------------------------------
(* The log helper thread. *)

logRest == <<cfg, main, handler, monitor, signals, error, crashed, status, report>>

LogTo(from, to) == log = from /\ log' = to

LogStarts ==
  /\ LogTo("start", "check")
  /\ fail' = "check"
  /\ UNCHANGED <<failureVars, eventVars, pod, done, results, logRest>>

LogChecks ==
  /\ LogTo("check", IF Stopping THEN "ending" ELSE "exec")
  /\ UNCHANGED <<fail, failureVars, eventVars, pod, done, results, logRest>>

\* The script in the sync pod prints the flag file and creates the done file ...
LogReads ==
  /\ LogTo("exec", "read") /\ pod = "flag"
  /\ done' = TRUE
  /\ UNCHANGED <<fail, failureVars, eventVars, pod, results, logRest>>

\* ... or ends without output because of the error file, or fails.
LogSeesError ==
  /\ LogTo("exec", "phase") /\ PodRunning /\ pod # "flag" /\ error
  /\ UNCHANGED <<fail, failureVars, eventVars, pod, done, results, logRest>>

LogExecFails ==
  /\ LogTo("exec", "api") /\ (~PodRunning \/ "exec" \in Faults)
  /\ \/ UNCHANGED done
     \/ pod = "flag" /\ done' = TRUE
  /\ UNCHANGED <<fail, failureVars, eventVars, pod, results, logRest>>

\* Removing the flag file may fail; log_helper goes on all the same.
LogRemoves ==
  /\ LogTo("read", "complete")
  /\ \/ pod = "flag" /\ pod' = "removed"
     \/ (pod # "flag" \/ "exec" \in Faults) /\ UNCHANGED pod
  /\ UNCHANGED <<fail, failureVars, eventVars, done, results, logRest>>

LogCompletes ==
  /\ LogTo("complete", "store")
  /\ runComplete' = TRUE
  /\ UNCHANGED <<fail, failureVars, shutdown, anyDone, pod, done, results, logRest>>

LogStores ==
  /\ LogTo("store", "ending")
  /\ results' = TRUE
  /\ UNCHANGED <<fail, failureVars, eventVars, pod, done, logRest>>

\* Defect: the API is never taken for ready, however many pods it lists.
LogApiNeverReady ==
  /\ LogTo("api", "ending") /\ Stopping
  /\ UNCHANGED <<fail, failureVars, eventVars, pod, done, results, logRest>>

\* On a cluster of at most ten pods the API never counts as ready again.
LogApiReady ==
  /\ LogTo("api", IF Stopping THEN "ending" ELSE "check") /\ (Stopping \/ cfg.many)
  /\ UNCHANGED <<fail, failureVars, eventVars, pod, done, results, logRest>>

\* log_helper gives up when the sync pod is no longer running.
LogPhase ==
  /\ LogTo("phase", IF Stopping \/ ~PodRunning THEN "ending" ELSE "check")
  /\ UNCHANGED <<fail, failureVars, eventVars, pod, done, results, logRest>>

LogRaises ==
  /\ LogTo("exec", "failing") /\ "raise" \in Faults
  /\ Call("log")
  /\ UNCHANGED <<fail, lock, runFailed, reason, notified, eventVars, pod, done, results, logRest>>

LogReturns ==
  /\ LogTo("failing", "ending") /\ CallOver("log")
  /\ UNCHANGED <<fail, failureVars, eventVars, pod, done, results, logRest>>

LogEnds ==
  /\ LogTo("ending", "done")
  /\ anyDone' = TRUE
  /\ UNCHANGED <<fail, failureVars, shutdown, runComplete, pod, done, results, logRest>>

---------------------------------------------------------------------------
(* The fail helper thread. *)

failRest == <<cfg, main, handler, monitor, log, lock, runFailed, reason, notified, eventVars,
              signals, podVars, resultVars>>

FailTo(from, to) == fail = from /\ fail' = to

FailChecks ==
  /\ FailTo("check", IF Stopping THEN "done" ELSE "exec")
  /\ UNCHANGED <<setting, failRest>>

FailSeesError ==
  /\ FailTo("exec", "failing") /\ PodRunning /\ error
  /\ Call("fail")
  /\ UNCHANGED failRest

FailSeesDone ==
  /\ FailTo("exec", "done") /\ PodRunning /\ ~error /\ (pod = "flag" \/ done)
  /\ UNCHANGED <<setting, failRest>>

\* Nothing to see yet, or the command failed: it polls again.
FailPolls ==
  /\ FailTo("exec", "check")
  /\ \/ ~PodRunning \/ "exec" \in Faults
     \/ ~error /\ pod # "flag" /\ ~done
  /\ UNCHANGED <<setting, failRest>>

FailReturns ==
  /\ FailTo("failing", "done") /\ CallOver("fail")
  /\ UNCHANGED <<setting, failRest>>

---------------------------------------------------------------------------
(* The sync pod and the workers' pods. *)

podRest == <<cfg, main, handler, threadVars, failureVars, eventVars, signals, done, resultVars>>

\* The sync pod waits for the handshake before its rounds begin.
PodPublishes ==
  /\ pod = "sync" /\ cfg.reporting /\ monitor # "off"
  /\ pod' = "flag"
  /\ UNCHANGED <<error, crashed, podRest>>

PodReportsError ==
  /\ pod = "sync" /\ cfg.reporting /\ monitor # "off"
  /\ pod' = "fail" /\ error' = TRUE
  /\ UNCHANGED <<crashed, podRest>>

PodDies ==
  /\ "podfail" \in Faults /\ PodRunning
  /\ pod' = "dead"
  /\ UNCHANGED <<error, crashed, podRest>>

WorkerPodCrashes ==
  /\ "crash" \in Faults /\ ~crashed
  /\ crashed' = TRUE
  /\ UNCHANGED <<pod, error, podRest>>

---------------------------------------------------------------------------
SettingStep(c) == TakeLock(c) \/ CheckFailed(c) \/ SetRunFailed(c) \/ Notify(c)

MainStep == \/ CreateObjects \/ Handshake \/ HandshakeRefused \/ RunRaised \/ StartThreads
            \/ LoopEnds \/ TimedOut \/ Shutdown \/ JoinActive \/ TerminateSubprocesses \/ JoinThreads
            \/ Report \/ Cleanup
HandlerStep == HandlerShutdown \/ HandlerReason \/ HandlerFail
MonitorStep == \/ MonitorStops \/ MonitorReturns \/ MonitorAllRunning \/ MonitorCompletes
               \/ MonitorEnds
LogStep == \/ LogStarts \/ LogChecks \/ LogReads \/ LogSeesError \/ LogExecFails \/ LogRemoves
           \/ LogCompletes \/ LogStores \/ LogApiReady \/ LogPhase \/ LogReturns \/ LogEnds
FailStep == FailChecks \/ FailSeesError \/ FailSeesDone \/ FailPolls \/ FailReturns
PodStep == PodPublishes \/ PodReportsError \/ PodDies \/ WorkerPodCrashes
MishapStep == \/ CreateFails \/ HandshakeFails \/ RunRaises \/ CheckPodsDirect \/ Signal
              \/ MonitorSeesFailure \/ WatchEnds \/ LogRaises

Next == \/ \E c \in Callers : SettingStep(c)
        \/ MainStep \/ TimeOut \/ HandlerStep \/ MonitorStep \/ LogStep \/ FailStep
        \/ PodStep \/ MishapStep

Spec == Init /\ [][Next]_vars

(***************************************************************************)
(* Threads run, the time limit arrives and the commands of the main thread *)
(* end; a command of another thread may last for ever.  Nothing is assumed *)
(* of the pods or of the failures.                                         *)
(***************************************************************************)
LogRuns == LogStarts \/ LogChecks \/ LogCompletes \/ LogStores \/ LogReturns \/ LogEnds
FailRuns == FailChecks \/ FailReturns

Fairness == /\ WF_vars(MainStep) /\ WF_vars(TimeOut) /\ WF_vars(HandshakeFails)
            /\ WF_vars(HandlerStep) /\ WF_vars(Notify("main"))
            /\ WF_vars(MonitorStep) /\ WF_vars(LogRuns) /\ WF_vars(FailRuns)
            /\ \A c \in Callers : WF_vars(TakeLock(c) \/ CheckFailed(c) \/ SetRunFailed(c))

FairSpec == Spec /\ Fairness

\* Commands end, and one that is tried again and again eventually works.
RetrySpec == FairSpec /\ WF_vars(LogStep) /\ SF_vars(LogReads)

---------------------------------------------------------------------------
(* Correctness. *)

TypeOK ==
  /\ cfg \in Configurations
  /\ main \in MainStates /\ handler \in HandlerStates
  /\ monitor \in MonitorStates /\ log \in LogStates /\ fail \in FailStates
  /\ setting \in [Callers -> SettingStates] /\ lock \in Callers \cup {None}
  /\ \A c \in Callers : setting[c] \in {"locked", "set"} <=> lock = c
  /\ shutdown \in BOOLEAN /\ runFailed \in BOOLEAN
  /\ runComplete \in BOOLEAN /\ anyDone \in BOOLEAN
  /\ reason \in Reasons \cup {None} /\ signals \in 0 .. MaxSignals /\ notified \in Nat
  /\ pod \in PodStates /\ error \in BOOLEAN /\ done \in BOOLEAN /\ crashed \in BOOLEAN
  /\ results \in BOOLEAN /\ status \in {0, 1}
  /\ report \in [ok : BOOLEAN, results : BOOLEAN] \cup {None}

Success == report # None /\ report.ok

(***************************************************************************)
(* A reporting workload's run is reported as a success only with the       *)
(* results of its workers, although the monitor thread can end the main    *)
(* loop before the log helper has stored them (do_logging and run,         *)
(* orchestrator.py:857-862, 1149-1155).                                    *)
(***************************************************************************)
SuccessHasResults == Success /\ cfg.reporting => report.results

(***************************************************************************)
(* No failure that any thread recorded, or that the sync pod reported, is  *)
(* lost in a run that is reported as a success: the status is taken while  *)
(* other threads may be about to record one (orchestrator.py:857-862).     *)
(***************************************************************************)
SuccessIsClean == Success => reason = None /\ ~runFailed /\ ~error

(***************************************************************************)
(* However many threads fail, the sync pod is notified at most once        *)
(* (_set_run_failed; test_driver_orchestrator.py:659, "only first writer   *)
(* notifies").                                                             *)
(***************************************************************************)
NotifiedOnce == notified <= 1

(***************************************************************************)
(* The first failure's reason stays (clusterbuster-python-phase3-design,   *)
(* 5.10: "First-writer-wins semantics for failure_reason via lock").       *)
(***************************************************************************)
FirstReasonWins == [][reason # None => reason' = reason]_vars

(***************************************************************************)
(* A failure ends the run, even if commands hang: the threads that wait    *)
(* for them are left behind (_join_threads, orchestrator.py:265).          *)
(***************************************************************************)
FailureEnds == runFailed ~> Ended

(***************************************************************************)
(* A run with a time limit ends, whatever its pods and threads do.         *)
(***************************************************************************)
TimeLimitHolds == cfg.timeout ~> Ended

(***************************************************************************)
(* The results the sync pod publishes end up in the report of a successful *)
(* run, however often reading them fails at first, unless some thread      *)
(* recorded a failure, a signal arrived, or reading failed on a cluster of *)
(* at most ten pods (log_helper and _wait_for_api_ready, driver/sync.py).  *)
(***************************************************************************)
ResultsReported ==
  (cfg.reporting /\ pod = "flag")
    ~> \/ reason # None \/ signals > 0
       \/ ~cfg.many /\ log = "api"
       \/ Ended /\ Success /\ report.results
===========================================================================
