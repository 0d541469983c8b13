------------------------- MODULE RunControlProofs -------------------------
(***************************************************************************)
(* What holds of the controller's threads for every set of failures and    *)
(* any number of signals: at most one failure is notified; without         *)
(* signals, the first failure's reason stays; and a success is one.        *)
(***************************************************************************)
EXTENDS RunControl, TLAPS

Quiet(c) == setting[c] = "idle"

\* A thread is in _set_run_failed only while its own code waits for the call.
CallsPend ==
  /\ ~Quiet("main") => main \in {"refused", "raised", "loop", "late", "killed"}
  /\ ~Quiet("monitor") => monitor = "failing"
  /\ ~Quiet("log") => log = "failing"
  /\ ~Quiet("fail") => fail = "failing"

\* The threads start after the handshake, fail_helper from the log helper.
Started ==
  /\ main \in {"create", "handshake", "refused", "start"} => monitor = "off" /\ log = "off"
  /\ log \in {"off", "start"} => fail = "off"

Recording(c) == setting[c] \in {"set", "notify"}

\* One thread at a time has passed the test, and none after run_failed is set.
OneRecorder ==
  /\ \A c, d \in Callers : Recording(c) /\ Recording(d) => c = d
  /\ \A c \in Callers : setting[c] = "notify" => runFailed
  /\ notified > 0 => runFailed /\ \A c \in Callers : ~Recording(c)
  /\ notified <= 1

FInv == TypeOK /\ CallsPend /\ Started /\ OneRecorder

---------------------------------------------------------------------------
USE DEF Callers

LEMMA InitFInv == Init => FInv
<1> SUFFICES ASSUME Init PROVE FInv
  OBVIOUS
<1>1. TypeOK
  <2>1. /\ cfg \in Configurations /\ main \in MainStates /\ handler \in HandlerStates
        /\ monitor \in MonitorStates /\ log \in LogStates /\ fail \in FailStates
        /\ pod \in PodStates /\ status \in {0, 1}
    BY DEF Init, MainStates, HandlerStates, MonitorStates, LogStates, FailStates, PodStates
  <2>2. /\ shutdown \in BOOLEAN /\ runFailed \in BOOLEAN /\ runComplete \in BOOLEAN
        /\ anyDone \in BOOLEAN /\ error \in BOOLEAN /\ done \in BOOLEAN
        /\ crashed \in BOOLEAN /\ results \in BOOLEAN
    BY Zenon DEF Init
  <2>3. /\ setting \in [Callers -> SettingStates]
        /\ \A c \in Callers : setting[c] \in {"locked", "set"} <=> lock = c
    BY ReasonAssumption DEF Init, SettingStates, Reasons
  <2>4. /\ lock \in Callers \cup {None} /\ reason \in Reasons \cup {None}
        /\ signals \in 0 .. MaxSignals /\ notified \in Nat
        /\ report \in [ok : BOOLEAN, results : BOOLEAN] \cup {None}
    BY FaultAssumption DEF Init
  <2> QED BY <2>1, <2>2, <2>3, <2>4 DEF TypeOK
<1>2. CallsPend /\ Started BY DEF Init, CallsPend, Quiet, Started
<1>3. OneRecorder BY DEF Init, OneRecorder, Recording
<1> QED BY <1>1, <1>2, <1>3 DEF FInv

\* The steps of _set_run_failed.
LEMMA SettingPreserves ==
  ASSUME FInv, NEW c \in Callers, SettingStep(c)
  PROVE  FInv'
<1> USE DEF FInv, TypeOK, threadVars, eventVars, podVars, resultVars
<1>1. CASE TakeLock(c)
  <2>1. TypeOK'
    BY <1>1, ReasonAssumption DEF TakeLock, LockFree, SettingStates, Reasons
  <2>2. CallsPend' /\ Started' BY <1>1 DEF TakeLock, CallsPend, Quiet, Started
  <2>3. OneRecorder' BY <1>1 DEF TakeLock, OneRecorder, Recording
  <2> QED BY <2>1, <2>2, <2>3
<1>2. CASE CheckFailed(c)
  <2>1. TypeOK'
    BY <1>2, ReasonAssumption DEF CheckFailed, Secondary, SettingStates, Reasons
  <2>2. CallsPend' /\ Started' BY <1>2 DEF CheckFailed, CallsPend, Quiet, Started
  <2>3. OneRecorder' BY <1>2 DEF CheckFailed, Secondary, OneRecorder, Recording
  <2> QED BY <2>1, <2>2, <2>3
<1>3. CASE SetRunFailed(c)
  <2>1. TypeOK'
    BY <1>3, ReasonAssumption DEF SetRunFailed, SettingStates, Reasons
  <2>2. CallsPend' /\ Started' BY <1>3 DEF SetRunFailed, CallsPend, Quiet, Started
  <2>3. OneRecorder' BY <1>3 DEF SetRunFailed, OneRecorder, Recording
  <2> QED BY <2>1, <2>2, <2>3
<1>4. CASE Notify(c)
  <2>1. TypeOK'
    <3>1. error' \in BOOLEAN BY <1>4, Zenon DEF Notify
    <3>2. notified' \in Nat BY <1>4 DEF Notify
    <3>3. /\ setting' \in [Callers -> SettingStates]
          /\ \A d \in Callers : setting'[d] \in {"locked", "set"} <=> lock' = d
      BY <1>4 DEF Notify, SettingStates
    <3> QED BY <1>4, <3>1, <3>2, <3>3 DEF Notify
  <2>2. CallsPend' /\ Started' BY <1>4 DEF Notify, CallsPend, Quiet, Started
  <2>3. OneRecorder' BY <1>4 DEF Notify, OneRecorder, Recording
  <2> QED BY <2>1, <2>2, <2>3
<1> QED BY <1>1, <1>2, <1>3, <1>4 DEF SettingStep
\* A thread calls _set_run_failed, or none does.
Calling(c) == setting[c] = "idle" /\ Call(c) /\ UNCHANGED <<lock, notified>>

LEMMA CallTypes ==
  ASSUME TypeOK, NEW c \in Callers, Calling(c)
  PROVE  /\ setting' \in [Callers -> SettingStates]
         /\ \A d \in Callers : setting'[d] \in {"locked", "set"} <=> lock' = d
         /\ \A d \in Callers \ {c} : setting'[d] = setting[d]
         /\ \A d \in Callers : Recording(d)' => Recording(d)
         /\ \A d \in Callers : setting'[d] = "notify" <=> setting[d] = "notify"
  BY DEF TypeOK, Calling, Call, SettingStates, Recording

\* Outside of _set_run_failed only the handler touches what it assigns.
LEMMA RecorderKept ==
  ASSUME TypeOK, OneRecorder, runFailed => runFailed',
         \/ UNCHANGED <<setting, lock, notified>>
         \/ \E c \in Callers : Calling(c)
  PROVE  OneRecorder'
<1>1. CASE UNCHANGED <<setting, lock, notified>>
  BY <1>1 DEF OneRecorder, Recording
<1>2. ASSUME NEW c \in Callers, Calling(c) PROVE OneRecorder'
  <2>1. notified' = notified BY <1>2 DEF Calling
  <2> QED BY <1>2, <2>1, CallTypes DEF OneRecorder
<1> QED BY <1>1, <1>2

LEMMA MainPreserves ==
  ASSUME FInv, MainStep \/ TimeOut \/ CreateFails \/ HandshakeFails \/ RunRaises \/ CheckPodsDirect
  PROVE  FInv'
<1> USE DEF FInv
<1>1. CASE \/ CreateObjects \/ Handshake \/ HandshakeRefused \/ RunRaised \/ StartThreads
           \/ LoopEnds \/ TimedOut \/ Shutdown \/ JoinActive \/ TerminateSubprocesses \/ JoinThreads
           \/ Report \/ Cleanup \/ CreateFails
  <2>1. UNCHANGED <<setting, lock, notified, runFailed>>
    BY <1>1 DEF CreateObjects, Handshake, HandshakeRefused, RunRaised, StartThreads, LoopEnds,
       TimedOut, Shutdown, JoinActive, TerminateSubprocesses, JoinThreads, Report, Cleanup,
       CreateFails, mainRest, failureVars
  <2>2. TypeOK'
    <3>1. CASE CreateObjects \/ Handshake \/ LoopEnds \/ TimedOut \/ JoinThreads \/ Cleanup
      BY <3>1 DEF CreateObjects, Handshake, LoopEnds, TimedOut, JoinThreads, Cleanup, MainTo,
         mainRest, threadVars, failureVars, eventVars, podVars, resultVars, MainStates, TypeOK
    <3>2. CASE HandshakeRefused \/ RunRaised \/ StartThreads \/ TerminateSubprocesses \/ JoinActive
      BY <3>2 DEF HandshakeRefused, RunRaised, StartThreads, TerminateSubprocesses, JoinActive,
         MainTo, threadVars, failureVars, eventVars, podVars, resultVars, MainStates,
         MonitorStates, LogStates, FailStates, TypeOK
    <3>3. CASE Shutdown
      BY <3>3 DEF Shutdown, MainTo, threadVars, failureVars, podVars, resultVars, MainStates, TypeOK
    <3>4. CASE Report
      BY <3>4 DEF Report, MainTo, threadVars, failureVars, eventVars, podVars, MainStates, TypeOK
    <3>5. CASE CreateFails
      BY <3>5 DEF CreateFails, MainTo, threadVars, eventVars, podVars, MainStates, Reasons, TypeOK
    <3> QED BY <1>1, <3>1, <3>2, <3>3, <3>4, <3>5
  <2>3. CallsPend' /\ Started'
    BY <1>1, <2>1 DEF CreateObjects, Handshake, HandshakeRefused, RunRaised, StartThreads,
       LoopEnds, TimedOut, Shutdown, JoinActive, TerminateSubprocesses, JoinThreads, Report,
       Cleanup, CreateFails, MainTo, CallOver, mainRest, threadVars, CallsPend, Quiet, Started
  <2> QED BY <2>1, <2>2, <2>3, RecorderKept
<1>2. CASE TimeOut \/ HandshakeFails \/ RunRaises \/ CheckPodsDirect
  <2>1. Calling("main") /\ UNCHANGED <<threadVars, runFailed>>
    BY <1>2 DEF TimeOut, HandshakeFails, RunRaises, CheckPodsDirect, MainTo, CallOver, Calling,
       CallsPend, Quiet
  <2>2. TypeOK'
    BY <1>2, <2>1, CallTypes DEF TimeOut, HandshakeFails, RunRaises, CheckPodsDirect, MainTo,
       Calling, threadVars, eventVars, podVars, resultVars, MainStates, TypeOK
  <2>3. CallsPend' /\ Started'
    BY <1>2, <2>1, CallTypes DEF TimeOut, HandshakeFails, RunRaises, CheckPodsDirect, MainTo,
       threadVars, CallsPend, Quiet, Started
  <2> QED BY <2>1, <2>2, <2>3, RecorderKept
<1> QED BY <1>1, <1>2 DEF MainStep

LEMMA HandlerPreserves ==
  ASSUME FInv, Signal \/ HandlerStep
  PROVE  FInv'
<1> USE DEF FInv
<1>1. UNCHANGED <<setting, lock, notified>> /\ (runFailed => runFailed')
  BY DEF Signal, HandlerStep, HandlerShutdown, HandlerReason, HandlerFail, handlerRest
<1>2. TypeOK'
  <2>1. CASE Signal
    BY <2>1, FaultAssumption DEF Signal, handlerRest, threadVars, podVars, resultVars, MainStates,
       HandlerStates, TypeOK
  <2>2. CASE HandlerShutdown
    <3>1. shutdown' \in BOOLEAN BY <2>2, Zenon DEF HandlerShutdown, TypeOK
    <3> QED BY <2>2, <3>1 DEF HandlerShutdown, handlerRest, threadVars, podVars, resultVars,
            HandlerStates, TypeOK
  <2>3. CASE HandlerReason
    BY <2>3 DEF HandlerReason, handlerRest, threadVars, podVars, resultVars, HandlerStates, Reasons,
       TypeOK
  <2>4. CASE HandlerFail
    <3>1. runFailed' \in BOOLEAN BY <2>4, Zenon DEF HandlerFail, TypeOK
    <3> QED BY <2>4, <3>1 DEF HandlerFail, handlerRest, threadVars, podVars, resultVars,
            HandlerStates, TypeOK
  <2> QED BY <2>1, <2>2, <2>3, <2>4 DEF HandlerStep
<1>3. CallsPend' /\ Started'
  BY <1>1 DEF Signal, HandlerStep, HandlerShutdown, HandlerReason, HandlerFail, handlerRest,
     threadVars, CallsPend, Quiet, Started
<1> QED BY <1>1, <1>2, <1>3, RecorderKept

LEMMA MonitorPreserves ==
  ASSUME FInv, MonitorStep \/ MonitorSeesFailure \/ WatchEnds
  PROVE  FInv'
<1> USE DEF FInv
<1>1. CASE MonitorStep \/ WatchEnds
  <2>1. UNCHANGED <<setting, lock, notified, runFailed>>
    BY <1>1 DEF MonitorStep, Watching, MonitorStops, MonitorReturns, MonitorAllRunning,
       MonitorCompletes, MonitorEnds, WatchEnds, failureVars
  <2>2. TypeOK'
    <3>1. runComplete' \in BOOLEAN /\ anyDone' \in BOOLEAN /\ UNCHANGED shutdown
      <4>1. CASE MonitorCompletes BY <4>1, Zenon DEF MonitorCompletes, TypeOK
      <4>2. CASE MonitorEnds BY <4>2, Zenon DEF MonitorEnds, TypeOK
      <4>3. CASE MonitorStops \/ MonitorReturns \/ MonitorAllRunning \/ WatchEnds
        BY <4>3 DEF MonitorStops, MonitorReturns, MonitorAllRunning, WatchEnds, eventVars, TypeOK
      <4> QED BY <1>1, <4>1, <4>2, <4>3 DEF MonitorStep
    <3>2. monitor' \in MonitorStates /\ UNCHANGED <<failureVars, monitorRest>>
      BY <1>1 DEF MonitorStep, Watching, MonitorStops, MonitorReturns, MonitorAllRunning,
         MonitorCompletes, MonitorEnds, WatchEnds, MonitorStates
    <3> QED BY <3>1, <3>2 DEF failureVars, monitorRest, podVars, resultVars, TypeOK
  <2>3. CallsPend' /\ Started'
    BY <1>1, <2>1 DEF MonitorStep, Watching, MonitorStops, MonitorReturns, MonitorAllRunning,
       MonitorCompletes, MonitorEnds, WatchEnds, CallOver, monitorRest, CallsPend, Quiet, Started
  <2> QED BY <2>1, <2>2, <2>3, RecorderKept
<1>2. CASE MonitorSeesFailure
  <2>1. Calling("monitor") /\ UNCHANGED runFailed
    BY <1>2 DEF MonitorSeesFailure, Watching, Calling, CallsPend, Quiet, Started
  <2>2. TypeOK'
    BY <1>2, <2>1, CallTypes DEF MonitorSeesFailure, monitorRest, eventVars, podVars, resultVars,
       MonitorStates, TypeOK
  <2>3. CallsPend' /\ Started'
    BY <1>2, <2>1, CallTypes DEF MonitorSeesFailure, Watching, monitorRest, CallsPend, Quiet,
       Started
  <2> QED BY <2>1, <2>2, <2>3, RecorderKept
<1> QED BY <1>1, <1>2

LEMMA LogPreserves ==
  ASSUME FInv, LogStep \/ LogRaises
  PROVE  FInv'
<1> USE DEF FInv
<1>1. CASE LogStep
  <2>1. UNCHANGED <<setting, lock, notified, runFailed>>
    BY <1>1 DEF LogStep, LogStarts, LogChecks, LogReads, LogSeesError, LogExecFails, LogRemoves,
       LogCompletes, LogStores, LogApiReady, LogPhase, LogReturns, LogEnds, failureVars
  <2>2. TypeOK'
    <3>1. CASE LogCompletes \/ LogEnds
      <4>1. runComplete' \in BOOLEAN /\ anyDone' \in BOOLEAN
        <5>1. CASE LogCompletes BY <5>1, Zenon DEF LogCompletes, TypeOK
        <5>2. CASE LogEnds BY <5>2, Zenon DEF LogEnds, TypeOK
        <5> QED BY <3>1, <5>1, <5>2
      <4> QED BY <3>1, <4>1 DEF LogCompletes, LogEnds, LogTo, failureVars, logRest, LogStates,
              TypeOK
    <3>2. CASE LogReads \/ LogExecFails
      <4>1. done' \in BOOLEAN
        <5>1. CASE LogReads BY <5>1, Zenon DEF LogReads
        <5>2. CASE LogExecFails BY <5>2, Zenon DEF LogExecFails, TypeOK
        <5> QED BY <3>2, <5>1, <5>2
      <4> QED BY <3>2, <4>1 DEF LogReads, LogExecFails, LogTo, failureVars, eventVars, logRest,
              LogStates, TypeOK
    <3>3. CASE LogStores
      <4>1. results' \in BOOLEAN BY <3>3, Zenon DEF LogStores
      <4> QED BY <3>3, <4>1 DEF LogStores, LogTo, failureVars, eventVars, logRest, LogStates, TypeOK
    <3>4. CASE LogStarts \/ LogRemoves
      BY <3>4 DEF LogStarts, LogRemoves, LogTo, failureVars, eventVars, logRest, LogStates,
         FailStates, PodStates, TypeOK
    <3>5. CASE LogChecks \/ LogSeesError \/ LogApiReady \/ LogPhase \/ LogReturns
      BY <3>5 DEF LogChecks, LogSeesError, LogApiReady, LogPhase, LogReturns, LogTo,
         failureVars, eventVars, logRest, LogStates, TypeOK
    <3> QED BY <1>1, <3>1, <3>2, <3>3, <3>4, <3>5 DEF LogStep
  <2>3. CallsPend' /\ Started'
    BY <1>1, <2>1 DEF LogStep, LogStarts, LogChecks, LogReads, LogSeesError, LogExecFails,
       LogRemoves, LogCompletes, LogStores, LogApiReady, LogPhase, LogReturns, LogEnds, LogTo,
       CallOver, logRest, CallsPend, Quiet, Started
  <2> QED BY <2>1, <2>2, <2>3, RecorderKept
<1>2. CASE LogRaises
  <2>1. Calling("log") /\ UNCHANGED runFailed
    BY <1>2 DEF LogRaises, LogTo, Calling, CallsPend, Quiet, Started
  <2>2. TypeOK'
    BY <1>2, <2>1, CallTypes DEF LogRaises, LogTo, logRest, eventVars, LogStates, TypeOK
  <2>3. CallsPend' /\ Started'
    BY <1>2, <2>1, CallTypes DEF LogRaises, LogTo, logRest, CallsPend, Quiet, Started
  <2> QED BY <2>1, <2>2, <2>3, RecorderKept
<1> QED BY <1>1, <1>2

LEMMA FailPreserves ==
  ASSUME FInv, FailStep
  PROVE  FInv'
<1> USE DEF FInv
<1>1. CASE FailChecks \/ FailSeesDone \/ FailPolls \/ FailReturns
  <2>1. UNCHANGED <<setting, lock, notified, runFailed>>
    BY <1>1 DEF FailChecks, FailSeesDone, FailPolls, FailReturns, failRest
  <2>2. TypeOK'
    BY <1>1 DEF FailChecks, FailSeesDone, FailPolls, FailReturns, FailTo, failRest, eventVars,
       podVars, resultVars, FailStates, TypeOK
  <2>3. CallsPend' /\ Started'
    BY <1>1, <2>1 DEF FailChecks, FailSeesDone, FailPolls, FailReturns, FailTo, CallOver, failRest,
       CallsPend, Quiet, Started
  <2> QED BY <2>1, <2>2, <2>3, RecorderKept
<1>2. CASE FailSeesError
  <2>1. Calling("fail") /\ UNCHANGED runFailed
    BY <1>2 DEF FailSeesError, FailTo, failRest, Calling, CallsPend, Quiet, Started
  <2>2. TypeOK'
    BY <1>2, <2>1, CallTypes DEF FailSeesError, FailTo, failRest, eventVars, podVars, resultVars,
       FailStates, TypeOK
  <2>3. CallsPend' /\ Started'
    BY <1>2, <2>1, CallTypes DEF FailSeesError, FailTo, failRest, CallsPend, Quiet, Started
  <2> QED BY <2>1, <2>2, <2>3, RecorderKept
<1> QED BY <1>1, <1>2 DEF FailStep

LEMMA PodPreserves ==
  ASSUME FInv, PodStep
  PROVE  FInv'
<1> USE DEF FInv
<1>1. UNCHANGED <<main, threadVars, failureVars>>
  BY DEF PodStep, PodPublishes, PodReportsError, PodDies, WorkerPodCrashes, podRest
<1>2. TypeOK'
  <2>1. error' \in BOOLEAN /\ crashed' \in BOOLEAN
    <3>1. CASE PodReportsError BY <3>1, Zenon DEF PodReportsError, TypeOK
    <3>2. CASE WorkerPodCrashes BY <3>2, Zenon DEF WorkerPodCrashes, TypeOK
    <3>3. CASE PodPublishes \/ PodDies
      BY <3>3 DEF PodPublishes, PodDies, TypeOK
    <3> QED BY <3>1, <3>2, <3>3 DEF PodStep
  <2>2. pod' \in PodStates /\ UNCHANGED podRest
    BY DEF PodStep, PodPublishes, PodReportsError, PodDies, WorkerPodCrashes, PodStates,
       TypeOK
  <2> QED BY <2>1, <2>2 DEF podRest, threadVars, failureVars, eventVars, resultVars, TypeOK
<1>3. CallsPend' /\ Started' BY <1>1 DEF threadVars, failureVars, CallsPend, Quiet, Started
<1> QED BY <1>1, <1>2, <1>3, RecorderKept DEF failureVars

(***************************************************************************)
(* The invariant FInv holds in every reachable state.                      *)
(***************************************************************************)
LEMMA NextFInv == FInv /\ [Next]_vars => FInv'
<1> SUFFICES ASSUME FInv, [Next]_vars PROVE FInv'
  OBVIOUS
<1>1. CASE UNCHANGED vars
  BY <1>1 DEF vars, threadVars, failureVars, eventVars, podVars, resultVars, FInv, TypeOK,
     CallsPend, Quiet, Started, OneRecorder, Recording
<1> QED
  BY <1>1, SettingPreserves, MainPreserves, HandlerPreserves, MonitorPreserves, LogPreserves,
     FailPreserves, PodPreserves DEF Next, MishapStep

THEOREM FailureInvariance == Spec => []FInv
  BY InitFInv, NextFInv, PTL DEF Spec

(***************************************************************************)
(* Every variable of the controller keeps to the states the code gives it, *)
(* and the failure lock is held exactly by the thread that is inside.      *)
(***************************************************************************)
THEOREM TypeCorrect == Spec => []TypeOK
  BY FailureInvariance, PTL DEF FInv

(***************************************************************************)
(* However many threads fail and whenever signals arrive, the sync pod is  *)
(* notified at most once (_set_run_failed, orchestrator.py:197).           *)
(***************************************************************************)
THEOREM AtMostOneNotice == Spec => []NotifiedOnce
  BY FailureInvariance, PTL DEF FInv, OneRecorder, NotifiedOnce

---------------------------------------------------------------------------
(* The first reason, in a run without signals. *)

NoSignal == signals = 0 /\ handler = "none" /\ main # "killed"

\* The objects could not be created: main records the reason alone.
Aborted ==
  /\ main \in {"term", "joinall", "report", "cleanup", "exit"}
  /\ monitor = "off" /\ log = "off" /\ fail = "off"
  /\ \A c \in Callers : Quiet(c)

\* A reason comes with run_failed, or its thread is about to set it.
ReasonStands == reason # None => runFailed \/ Aborted \/ \E c \in Callers : setting[c] = "set"

LEMMA NoSignalPreserved ==
  ASSUME MaxSignals = 0, NoSignal, [Next]_vars
  PROVE  NoSignal'
<1>1. CASE UNCHANGED vars
  BY <1>1 DEF vars, NoSignal
<1>2. ASSUME NEW c \in Callers, SettingStep(c) PROVE NoSignal'
  BY <1>2 DEF SettingStep, TakeLock, CheckFailed, SetRunFailed, Notify, NoSignal
<1>3. CASE MainStep \/ TimeOut \/ CreateFails \/ HandshakeFails \/ RunRaises \/ CheckPodsDirect
  BY <1>3 DEF MainStep, CreateObjects, Handshake, HandshakeRefused, RunRaised, StartThreads,
     LoopEnds, TimedOut, Shutdown, JoinActive, TerminateSubprocesses, JoinThreads, Report,
     Cleanup, TimeOut, CreateFails, HandshakeFails, RunRaises, CheckPodsDirect, MainTo,
     mainRest, NoSignal
<1>4. CASE MonitorStep \/ MonitorSeesFailure \/ WatchEnds
  BY <1>4 DEF MonitorStep, Watching, MonitorStops, MonitorReturns, MonitorAllRunning,
     MonitorCompletes, MonitorEnds, MonitorSeesFailure, WatchEnds, monitorRest, NoSignal
<1>5. CASE LogStep \/ LogRaises
  BY <1>5 DEF LogStep, LogStarts, LogChecks, LogReads, LogSeesError, LogExecFails, LogRemoves,
     LogCompletes, LogStores, LogApiReady, LogPhase, LogReturns, LogEnds, LogRaises, logRest,
     NoSignal
<1>6. CASE FailStep
  BY <1>6 DEF FailStep, FailChecks, FailSeesError, FailSeesDone, FailPolls, FailReturns, failRest,
     NoSignal
<1>7. CASE PodStep
  BY <1>7 DEF PodStep, PodPublishes, PodReportsError, PodDies, WorkerPodCrashes, podRest,
     NoSignal
<1>8. ~Signal /\ ~HandlerStep
  BY DEF Signal, HandlerStep, HandlerShutdown, HandlerReason, HandlerFail, NoSignal
<1> QED BY <1>1, <1>2, <1>3, <1>4, <1>5, <1>6, <1>7, <1>8 DEF Next, MishapStep

LEMMA ReasonKept ==
  ASSUME FInv, NoSignal, NoSignal', ReasonStands, [Next]_vars
  PROVE  ReasonStands' /\ (reason # None => reason' = reason)
<1>a. TypeOK /\ CallsPend /\ Started BY DEF FInv
<1>1. CASE UNCHANGED vars
  BY <1>1 DEF vars, threadVars, failureVars, ReasonStands, Aborted, Quiet
<1>2. ASSUME NEW c \in Callers, SettingStep(c)
      PROVE  ReasonStands' /\ (reason # None => reason' = reason)
  <2>1. setting[c] # "idle" BY <1>2 DEF SettingStep, TakeLock, CheckFailed, SetRunFailed, Notify
  <2>2. ~Aborted BY <2>1 DEF Aborted, Quiet
  <2>3. \A d \in Callers \ {c} : setting'[d] = setting[d]
    BY <1>2, <1>a DEF SettingStep, TakeLock, CheckFailed, SetRunFailed, Notify, TypeOK
  <2>4. CASE TakeLock(c) \/ Notify(c)
    <3>1. setting[c] # "set" /\ UNCHANGED <<reason, runFailed>>
      BY <2>4 DEF TakeLock, Notify
    <3> QED BY <2>2, <2>3, <3>1 DEF ReasonStands
  <2>5. CASE CheckFailed(c)
    <3>1. setting[c] = "locked" /\ lock = c BY <2>5, <1>a DEF CheckFailed, TypeOK
    <3>2. \A d \in Callers : setting[d] # "set"
      BY <3>1, <1>a DEF TypeOK
    <3>3. CASE runFailed
      BY <2>5, <3>3 DEF CheckFailed, Secondary, ReasonStands
    <3>4. CASE ~runFailed
      <4>1. reason = None BY <2>2, <3>2, <3>4 DEF ReasonStands
      <4>2. setting'[c] = "set" BY <2>5, <3>4, <1>a DEF CheckFailed, Secondary, TypeOK
      <4> QED BY <4>1, <4>2 DEF ReasonStands
    <3> QED BY <3>3, <3>4
  <2>6. CASE SetRunFailed(c)
    BY <2>6 DEF SetRunFailed, ReasonStands
  <2> QED BY <1>2, <2>4, <2>5, <2>6 DEF SettingStep
<1>3. CASE MainStep
  <2>1. /\ UNCHANGED <<setting, reason, runFailed>>
        /\ Aborted => Aborted'
    BY <1>3 DEF MainStep, CreateObjects, Handshake, HandshakeRefused, RunRaised, StartThreads,
       LoopEnds, TimedOut, Shutdown, JoinActive, TerminateSubprocesses, JoinThreads, Report,
       Cleanup, MainTo, mainRest, threadVars, failureVars, Aborted, Quiet
  <2> QED BY <2>1 DEF ReasonStands
<1>4. CASE CreateFails
  <2>1. Aborted'
    BY <1>4, <1>a DEF CreateFails, MainTo, threadVars, CallsPend, Started, Aborted, Quiet
  <2> QED BY <1>4, <2>1 DEF CreateFails, ReasonStands
<1>5. CASE \/ TimeOut \/ HandshakeFails \/ RunRaises \/ CheckPodsDirect
           \/ MonitorSeesFailure \/ LogRaises \/ FailSeesError
  <2>1. UNCHANGED <<reason, runFailed>> /\ ~Aborted
    BY <1>5 DEF TimeOut, HandshakeFails, RunRaises, CheckPodsDirect, MonitorSeesFailure, Watching,
       LogRaises, LogTo, FailSeesError, FailTo, failRest, MainTo, Aborted
  <2>2. \E c \in Callers : Calling(c)
    BY <1>5, <1>a DEF TimeOut, HandshakeFails, RunRaises, CheckPodsDirect, MonitorSeesFailure,
       Watching, LogRaises, LogTo, FailSeesError, FailTo, failRest, MainTo, CallOver, Calling,
       CallsPend, Quiet
  <2>3. \A c \in Callers : setting[c] = "set" => setting'[c] = "set"
    BY <2>2, <1>a DEF Calling, Call, TypeOK
  <2> QED BY <2>1, <2>3 DEF ReasonStands
<1>6. CASE MonitorStep \/ WatchEnds \/ LogStep \/ FailStep \/ PodStep
  <2>1. CASE FailSeesError BY <1>5, <2>1
  <2>2. CASE ~FailSeesError
    <3>1. UNCHANGED <<setting, reason, runFailed>>
      BY <1>6, <2>2 DEF MonitorStep, Watching, MonitorStops, MonitorReturns, MonitorAllRunning,
         MonitorCompletes, MonitorEnds, WatchEnds, LogStep, LogStarts, LogChecks, LogReads,
         LogSeesError, LogExecFails, LogRemoves, LogCompletes, LogStores, LogApiReady, LogPhase,
         LogReturns, LogEnds, FailStep, FailChecks, FailSeesDone, FailPolls, FailReturns, failRest,
         PodStep, PodPublishes, PodReportsError, PodDies, WorkerPodCrashes, podRest,
         failureVars
    <3>2. Aborted => Aborted'
      BY <1>6, <2>2, <3>1 DEF MonitorStep, Watching, MonitorStops, MonitorReturns,
         MonitorAllRunning, MonitorCompletes, MonitorEnds, WatchEnds, LogStep, LogStarts,
         LogChecks, LogReads, LogSeesError, LogExecFails, LogRemoves, LogCompletes, LogStores,
         LogApiReady, LogPhase, LogReturns, LogEnds, LogTo, FailStep, FailChecks, FailSeesDone,
         FailPolls, FailReturns, FailTo, monitorRest, logRest, failRest, PodStep, PodPublishes,
         PodReportsError, PodDies, WorkerPodCrashes, podRest, threadVars, Aborted, Quiet
    <3> QED BY <3>1, <3>2 DEF ReasonStands
  <2> QED BY <2>1, <2>2
<1>7. ~Signal /\ ~HandlerStep
  BY DEF Signal, HandlerStep, HandlerShutdown, HandlerReason, HandlerFail, NoSignal
<1> QED BY <1>1, <1>2, <1>3, <1>4, <1>5, <1>6, <1>7 DEF Next, MishapStep

(***************************************************************************)
(* In a run without signals the first failure's reason stays, whatever     *)
(* fails and in whatever order (_set_run_failed, orchestrator.py:197).     *)
(***************************************************************************)
THEOREM FirstReasonStays ==
  ASSUME MaxSignals = 0
  PROVE  Spec => FirstReasonWins
<1>1. Init => NoSignal /\ ReasonStands
  BY DEF Init, NoSignal, ReasonStands
<1>2. NoSignal /\ [Next]_vars => NoSignal'
  BY NoSignalPreserved
<1>3. FInv /\ NoSignal /\ NoSignal' /\ ReasonStands /\ [Next]_vars
      => ReasonStands' /\ [reason # None => reason' = reason]_vars
  BY ReasonKept
<1> QED BY <1>1, <1>2, <1>3, FailureInvariance, PTL DEF Spec, FirstReasonWins

-----------------------------------------------------------------------------
(***************************************************************************)
(* What a run that is reported as a success shows, for any workload, any   *)
(* number of signals, and every failure but two: a watch that ends by      *)
(* itself and a sync pod that dies, after which the controller ends the    *)
(* run as if it had completed (monitor_pods, driver/monitoring.py;         *)
(* log_helper, driver/sync.py).                                            *)
(***************************************************************************)
\* The failures the theorems allow.
SafeFaults == Faults \cap {"watch", "podfail"} = {}

\* The main thread has joined the others and goes on to the report.
AfterJoin == {"term", "joinall", "report", "cleanup", "exit"}

\* The main thread has asked the others to stop, or is no more.
Past == main \in AfterJoin \cup {"join", "killed"}

\* A failure is recorded, or the handler is on its way to do so.
Doomed == runFailed \/ (shutdown /\ handler \in {"reason", "fail", "stuck"})

\* The log helper has the results.
Got == log = "store" \/ results

\* Why a thread may be over.
Justified == Doomed \/ Got \/ Past

\* shutdown_event is set by the main thread at the end, or by the handler before it goes on.
ShutdownMeans ==
  /\ shutdown => Past \/ Doomed
  /\ handler \in {"reason", "fail"} => shutdown
  /\ main = "join" => shutdown

\* A thread whose call has returned has recorded a failure, or found one.
CallsRecord ==
  /\ log = "failing" => ~Quiet("log") \/ runFailed
  /\ monitor = "failing" => ~Quiet("monitor") \/ runFailed
  /\ main = "late" => ~Quiet("main") \/ runFailed

\* In a run that reports, nobody is done before the results are there.
DoneMeans ==
  cfg.reporting =>
    /\ runComplete => Got
    /\ monitor # "sleep"
    /\ monitor \in {"ending", "done"} => Justified
    /\ log \in {"ending", "done"} => Justified
    /\ anyDone => Justified
    /\ main \in {"shutting", "join"} => Doomed \/ Got

\* The sync pod and the log helper.
PodMeans ==
  /\ pod # "dead"
  /\ pod = "removed" => log \in {"complete", "store"} \/ results
  /\ results \/ log \in {"read", "complete", "store"} => pod \in {"flag", "removed"}
  /\ results => log \in {"ending", "done"}
  /\ ~cfg.reporting => log = "off" /\ pod = "sync"

\* The error file comes from the sync pod itself or follows a recorded failure.
ErrorMeans ==
  /\ error => runFailed \/ pod = "fail"
  /\ fail = "failing" => error

\* A reason is about to be a failure, or is the status already.
Setting == \E c \in Callers : setting[c] = "set"

ReasonMeans ==
  /\ status = 1 => main \in AfterJoin \cup {"killed"}
  /\ reason # None => runFailed \/ status = 1 \/ main = "killed" \/ handler = "fail" \/ Setting

\* The status is success and will be the report's, or is.
Settled == (main \in AfterJoin /\ status = 0) \/ Success

\* Then nothing has failed and nothing is left that could.
Clean ==
  /\ reason = None /\ ~runFailed /\ ~error
  /\ shutdown /\ handler = "none"
  /\ \A c \in Callers : Quiet(c)
  /\ main \in AfterJoin \cup {"killed"}
  /\ log \in {"off", "ending", "done"} /\ fail # "failing"
  /\ cfg.reporting => results

\* The invariant of the two theorems.
SettledMeans == Settled => Clean

ReportMeans == Success /\ cfg.reporting => report.results

SInv ==
  /\ FInv
  /\ ShutdownMeans /\ CallsRecord /\ DoneMeans /\ PodMeans /\ ErrorMeans /\ ReasonMeans
  /\ SettledMeans /\ ReportMeans

---------------------------------------------------------------------------
USE DEF Callers, AfterJoin

\* A call adds a thread to those in _set_run_failed and removes none.
LEMMA SettingOutside ==
  ASSUME TypeOK, NEW x \in Callers, setting' = setting \/ Calling(x)
  PROVE  /\ ~Quiet("main") => ~Quiet("main")'
         /\ ~Quiet("monitor") => ~Quiet("monitor")'
         /\ ~Quiet("log") => ~Quiet("log")'
         /\ ~Quiet("fail") => ~Quiet("fail")'
         /\ Setting => Setting'
<1>1. \A d \in Callers : /\ setting[d] # "idle" => setting'[d] # "idle"
                         /\ setting[d] = "set" => setting'[d] = "set"
  BY DEF TypeOK, Calling, Call
<1>2. Setting => Setting'
  BY <1>1 DEF Setting
<1> QED BY <1>1, <1>2 DEF Quiet

\* Joining the threads settles the status: without a failure so far, none of them is about to
\* record one, and a log helper that is over, and not late, has stored the results.
LEMMA JoinSettles == ASSUME SInv, JoinActive PROVE SettledMeans'
<1> USE DEF SInv, FInv
<1> SUFFICES ASSUME Settled' PROVE Clean'
  BY DEF SettledMeans
<1>1. main = "join" /\ main' = "term" /\ handler = "none"
  BY DEF JoinActive, MainTo, MainRuns
<1>2. UNCHANGED <<cfg, handler, monitor, log, fail, setting, runFailed, reason, shutdown, pod,
                error, results, report>>
  BY DEF JoinActive, threadVars, failureVars, eventVars, podVars
<1>3. status = 0
  BY <1>1 DEF ReasonMeans, TypeOK
<1>4. ~Success
  BY <1>1 DEF SettledMeans, Settled, Clean
<1>5. ~runFailed
  BY <1>2, <1>4 DEF Settled, Success, JoinActive
<1>6. Joined("monitor") /\ Joined("log")
  BY DEF JoinActive
<1>7. \A c \in Callers : setting[c] # "notify"
  BY <1>5 DEF OneRecorder
<1>8. monitor # "failing" /\ log \notin {"failing", "store"}
  BY <1>6, <1>7 DEF Joined, ThreadOver, Blocked, Watching
<1>9. cfg.reporting => results
  BY <1>1, <1>5, <1>8 DEF DoneMeans, Doomed, Got
<1>10. ~error /\ fail # "failing"
  BY <1>5, <1>9 DEF ErrorMeans, PodMeans
<1>11. \A c \in Callers : Quiet(c)
  BY <1>1, <1>8, <1>10 DEF CallsPend
<1>12. reason = None
  BY <1>1, <1>3, <1>5, <1>11 DEF ReasonMeans, Setting, Quiet
<1>13. log \in {"off", "ending", "done"}
  BY <1>9 DEF PodMeans, TypeOK
<1>14. shutdown
  BY <1>1 DEF ShutdownMeans
<1> QED BY <1>1, <1>2, <1>5, <1>9, <1>10, <1>11, <1>12, <1>13, <1>14 DEF Clean, Quiet

\* The steps of _set_run_failed: whoever is inside it keeps the run from being settled.
LEMMA SettingKeeps ==
  ASSUME SInv, SafeFaults, \E c \in Callers : SettingStep(c)
  PROVE  SInv'
<1> USE DEF SInv, SettledMeans, FInv, threadVars, failureVars, eventVars, podVars, resultVars,
        SettingStep, TakeLock, CheckFailed, SetRunFailed, Notify
<1>0. FInv'
  BY NextFInv DEF Next, MishapStep
<1>d. PICK c \in Callers : SettingStep(c)
  OBVIOUS
<1>e. /\ UNCHANGED <<cfg, main, handler, threadVars, eventVars, pod, done, crashed, resultVars>>
      /\ runFailed => runFailed'
  BY <1>d
<1>1. ShutdownMeans'
  BY <1>e DEF ShutdownMeans, Past, Doomed
<1>2. CallsRecord'
  <2>1. \A d \in Callers \ {c} : setting'[d] = setting[d]
    BY <1>d DEF TypeOK
  <2>2. setting'[c] # "idle" \/ runFailed'
    BY <1>d DEF Secondary, TypeOK, OneRecorder
  <2>3. \A d \in Callers : setting[d] # "idle" => setting'[d] # "idle" \/ runFailed'
    BY <2>1, <2>2
  <2> QED BY <1>e, <2>3 DEF CallsRecord, Quiet
<1>3. DoneMeans'
  BY <1>e DEF DoneMeans, Justified, Doomed, Got, Past
<1>4. PodMeans'
  BY <1>e DEF PodMeans
<1>5. ErrorMeans'
  <2>1. error' => error \/ runFailed
    BY <1>d DEF OneRecorder
  <2>2. error => error'
    BY <1>d
  <2> QED BY <1>e, <2>1, <2>2 DEF ErrorMeans
<1>6. ReasonMeans'
  <2>1. \A d \in Callers \ {c} : setting'[d] = setting[d]
    BY <1>d DEF TypeOK
  <2>2. CASE TakeLock(c) \/ Notify(c)
    <3>1. reason' = reason /\ setting[c] # "set" BY <2>2
    <3> QED BY <1>e, <2>1, <3>1 DEF ReasonMeans, Setting
  <2>3. CASE CheckFailed(c)
    <3>1. (reason' = reason /\ runFailed') \/ setting'[c] = "set"
      BY <2>3 DEF Secondary, TypeOK
    <3> QED BY <1>e, <3>1 DEF ReasonMeans, Setting
  <2>4. CASE SetRunFailed(c)
    BY <1>e, <2>4 DEF ReasonMeans
  <2> QED BY <1>d, <2>2, <2>3, <2>4
<1>7. SettledMeans'
  <2>1. ~Quiet(c)
    BY <1>d DEF Quiet
  <2>2. ~Settled BY <2>1 DEF Clean
  <2> QED BY <1>e, <2>2 DEF Settled, Success
<1>8. ReportMeans'
  BY <1>e DEF ReportMeans, Success
<1> QED BY <1>0, <1>1, <1>2, <1>3, <1>4, <1>5, <1>6, <1>7, <1>8

\* The main thread: the status is settled by JoinActive, and nothing after it takes that back.
LEMMA MainKeeps ==
  ASSUME SInv, SafeFaults,
         \/ MainStep \/ TimeOut \/ CreateFails \/ HandshakeFails \/ RunRaises
         \/ CheckPodsDirect
  PROVE  SInv'
<1> USE DEF SInv, SettledMeans, FInv, threadVars, failureVars, eventVars, podVars, resultVars,
        MainStep, CreateObjects, Handshake, HandshakeRefused, RunRaised, StartThreads, LoopEnds,
        TimedOut, Shutdown, JoinActive, TerminateSubprocesses, JoinThreads, Report, Cleanup,
        TimeOut,
        CreateFails, HandshakeFails, RunRaises, CheckPodsDirect, MainTo, mainRest
<1>0. FInv'
  BY NextFInv DEF Next, MishapStep
<1>c. setting' = setting \/ Calling("main")
  BY DEF Calling, Call, CallOver, CallsPend, Quiet
<1>1. ShutdownMeans'
  BY DEF ShutdownMeans, Past, Doomed
<1>2. CallsRecord'
  <2>1. CASE TimeOut
    <3>1. ~Quiet("main")' /\ UNCHANGED <<log, monitor>>
      BY <2>1 DEF Call, Quiet, TypeOK
    <3>2. /\ ~Quiet("main") => ~Quiet("main")'
          /\ ~Quiet("monitor") => ~Quiet("monitor")'
          /\ ~Quiet("log") => ~Quiet("log")'
      BY <1>c, SettingOutside
    <3>3. runFailed => runFailed' BY <2>1 DEF failureVars
    <3> QED BY <3>1, <3>2, <3>3 DEF CallsRecord
  <2>2. CASE ~TimeOut
    <3>1. /\ main' = "late" => main = "late"
          /\ runFailed => runFailed'
          /\ log' = "failing" => log = "failing"
          /\ monitor' = "failing" => monitor = "failing"
      BY <2>2
    <3>2. /\ ~Quiet("main") => ~Quiet("main")'
          /\ ~Quiet("monitor") => ~Quiet("monitor")'
          /\ ~Quiet("log") => ~Quiet("log")'
      BY <1>c, SettingOutside
    <3> QED BY <3>1, <3>2 DEF CallsRecord
  <2> QED BY <2>1, <2>2
<1>3. DoneMeans'
  BY DEF DoneMeans, Justified, Doomed, Got, Past, CallsRecord, Started, CallOver, Quiet, MainRuns
<1>4. PodMeans'
  BY DEF PodMeans, Started
<1>5. ErrorMeans'
  BY DEF ErrorMeans
<1>6. ReasonMeans'
  <2>1. runFailed' = runFailed /\ (handler = "fail" => handler' = "fail")
        /\ (main = "killed" => main' = "killed")
    BY DEF MainRuns, Ended
  <2>2. Setting => Setting'
    BY <1>c, SettingOutside
  <2>3. reason' = reason \/ status' = 1
    OBVIOUS
  <2>4. status' = 1 => main' \in AfterJoin \cup {"killed"}
    BY DEF ReasonMeans
  <2>5. status = 1 => status' = 1
    BY DEF ReasonMeans
  <2> QED BY <2>1, <2>2, <2>3, <2>4, <2>5 DEF ReasonMeans
<1>7. SettledMeans'
  <2>1. CASE JoinActive
    BY <2>1, JoinSettles
  <2>2. CASE ~JoinActive
    <3>1. CASE Settled
      <4>1. Clean BY <3>1
      <4>2. ~(TimeOut \/ CreateFails \/ HandshakeFails \/ RunRaises \/ CheckPodsDirect)
        BY <4>1 DEF Clean
      <4>3. UNCHANGED <<reason, runFailed, error, shutdown, handler, setting, results, cfg>>
            /\ log' \in {"off", "ending", "done"} /\ fail' # "failing"
            /\ main' \in AfterJoin \cup {"killed"}
        BY <2>2, <4>1, <4>2 DEF Clean
      <4> QED BY <4>1, <4>3 DEF Clean, Quiet
    <3>2. CASE ~Settled
      <4>1. CASE Report
        <5>1. main = "report" /\ status' = status /\ report'.ok = (status = 0)
          BY <4>1
        <5>2. status # 0 BY <3>2, <5>1 DEF Settled
        <5> QED BY <5>1, <5>2 DEF Settled, Success
      <4>2. CASE ~Report
        <5>1. report' = report
              /\ (main' \in AfterJoin => status' = 1 \/ (status' = status /\ main \in AfterJoin))
          BY <2>2, <4>2
        <5> QED BY <3>2, <5>1 DEF Settled, Success
      <4> QED BY <4>1, <4>2
    <3> QED BY <3>1, <3>2
  <2> QED BY <2>1, <2>2
<1>8. ReportMeans'
  <2>1. CASE Report
    <3>1. report' = [ok |-> status = 0, results |-> results] /\ main = "report" /\ cfg' = cfg
      BY <2>1
    <3>2. Success' => status = 0 BY <3>1 DEF Success
    <3>3. status = 0 => Clean BY <3>1 DEF Settled
    <3> QED BY <3>1, <3>2, <3>3 DEF ReportMeans, Clean
  <2>2. CASE ~Report
    <3>1. report' = report /\ cfg' = cfg BY <2>2
    <3> QED BY <3>1 DEF ReportMeans, Success
  <2> QED BY <2>1, <2>2
<1> QED BY <1>0, <1>1, <1>2, <1>3, <1>4, <1>5, <1>6, <1>7, <1>8

\* The signal handler: it sets the events before the reason, or kills the process.
LEMMA HandlerKeeps ==
  ASSUME SInv, SafeFaults, Signal \/ HandlerStep
  PROVE  SInv'
<1> USE DEF SInv, SettledMeans, FInv, threadVars, failureVars, eventVars, podVars, resultVars,
        Signal, HandlerStep, HandlerShutdown, HandlerReason, HandlerFail, handlerRest
<1>0. FInv'
  BY NextFInv DEF Next, MishapStep
<1>1. ShutdownMeans'
  BY DEF ShutdownMeans, Past, Doomed
<1>2. CallsRecord'
  BY DEF CallsRecord, Quiet
<1>3. DoneMeans'
  BY DEF DoneMeans, Justified, Doomed, Got, Past
<1>4. PodMeans'
  BY DEF PodMeans
<1>5. ErrorMeans'
  BY DEF ErrorMeans
<1>6. ReasonMeans'
  <2>1. setting' = setting /\ status' = status /\ (runFailed => runFailed')
        /\ (status = 1 /\ main \in AfterJoin \cup {"killed"} =>
              main' \in AfterJoin \cup {"killed"})
    OBVIOUS
  <2>2. (reason' = reason /\ handler # "fail" /\ (main = "killed" => main' = "killed"))
        \/ handler' = "fail" \/ runFailed' \/ setting["main"] = "set" \/ main' = "killed"
    BY DEF Ended, ShutdownMeans
  <2> QED BY <2>1, <2>2 DEF ReasonMeans, Setting
<1>7. SettledMeans'
  BY DEF SettledMeans, Settled, Clean, Success, Quiet
<1>8. ReportMeans'
  BY DEF ReportMeans, Success
<1> QED BY <1>0, <1>1, <1>2, <1>3, <1>4, <1>5, <1>6, <1>7, <1>8

\* The monitor thread ends only for a reason, as its watch does not end by itself.
LEMMA MonitorKeeps ==
  ASSUME SInv, SafeFaults, MonitorStep \/ MonitorSeesFailure \/ WatchEnds
  PROVE  SInv'
<1> USE DEF SInv, SettledMeans, FInv, threadVars, failureVars, eventVars, podVars, resultVars,
        MonitorStep, Watching, MonitorStops, MonitorReturns, MonitorAllRunning, MonitorCompletes,
        MonitorEnds, MonitorSeesFailure, WatchEnds, monitorRest
<1>0. FInv'
  BY NextFInv DEF Next, MishapStep
<1>c. setting' = setting \/ Calling("monitor")
  BY DEF Calling, Call, CallsPend, Quiet, Started
<1>1. ShutdownMeans'
  BY DEF ShutdownMeans, Past, Doomed
<1>2. CallsRecord'
  <2>1. /\ ~Quiet("main") => ~Quiet("main")'
        /\ ~Quiet("monitor") => ~Quiet("monitor")'
        /\ ~Quiet("log") => ~Quiet("log")'
    BY <1>c, SettingOutside
  <2>2. runFailed' = runFailed /\ log' = log /\ main' = main
    OBVIOUS
  <2>3. monitor' = "failing" => monitor = "failing" \/ setting'["monitor"] # "idle"
    BY DEF Call, TypeOK
  <2> QED BY <2>1, <2>2, <2>3 DEF CallsRecord, Quiet
<1>3. DoneMeans'
  BY DEF DoneMeans, Justified, Doomed, Got, Past, ShutdownMeans, CallsRecord, Quiet, CallOver,
     SafeFaults
<1>4. PodMeans'
  BY DEF PodMeans
<1>5. ErrorMeans'
  BY DEF ErrorMeans
<1>6. ReasonMeans'
  <2>1. Setting => Setting'
    BY <1>c, SettingOutside
  <2>2. UNCHANGED <<reason, runFailed, status, main, handler>>
    OBVIOUS
  <2> QED BY <2>1, <2>2 DEF ReasonMeans
<1>7. SettledMeans'
  BY DEF SettledMeans, Settled, Clean, Success, Quiet
<1>8. ReportMeans'
  BY DEF ReportMeans, Success
<1> QED BY <1>0, <1>1, <1>2, <1>3, <1>4, <1>5, <1>6, <1>7, <1>8

\* The log helper ends with the results, or because of a failure or the end of the run.
LEMMA LogKeeps ==
  ASSUME SInv, SafeFaults, LogStep \/ LogRaises
  PROVE  SInv'
<1> USE DEF SInv, SettledMeans, FInv, threadVars, failureVars, eventVars, podVars, resultVars,
        LogStep, LogStarts, LogChecks, LogReads, LogSeesError, LogExecFails, LogRemoves,
        LogCompletes, LogStores, LogApiReady, LogPhase, LogReturns, LogEnds, LogRaises, LogTo,
        logRest
<1>0. FInv'
  BY NextFInv DEF Next, MishapStep
<1>c. setting' = setting \/ Calling("log")
  BY DEF Calling, Call, CallsPend, Quiet, Started
<1>1. ShutdownMeans'
  BY DEF ShutdownMeans, Past, Doomed
<1>2. CallsRecord'
  <2>1. /\ ~Quiet("main") => ~Quiet("main")'
        /\ ~Quiet("monitor") => ~Quiet("monitor")'
        /\ ~Quiet("log") => ~Quiet("log")'
    BY <1>c, SettingOutside
  <2>2. runFailed' = runFailed /\ monitor' = monitor /\ main' = main
    OBVIOUS
  <2>3. log' = "failing" => log = "failing" \/ setting'["log"] # "idle"
    BY DEF Call, TypeOK
  <2> QED BY <2>1, <2>2, <2>3 DEF CallsRecord, Quiet
<1>3. DoneMeans'
  BY DEF DoneMeans, Justified, Doomed, Got, Past, ShutdownMeans, CallsRecord, Quiet, CallOver,
     Stopping, PodRunning, PodMeans, TypeOK, PodStates
<1>4. PodMeans'
  BY DEF PodMeans
<1>5. ErrorMeans'
  BY DEF ErrorMeans
<1>6. ReasonMeans'
  <2>1. Setting => Setting'
    BY <1>c, SettingOutside
  <2>2. UNCHANGED <<reason, runFailed, status, main, handler>>
    OBVIOUS
  <2> QED BY <2>1, <2>2 DEF ReasonMeans
<1>7. SettledMeans'
  BY DEF SettledMeans, Settled, Clean, Success, Quiet
<1>8. ReportMeans'
  BY DEF ReportMeans, Success
<1> QED BY <1>0, <1>1, <1>2, <1>3, <1>4, <1>5, <1>6, <1>7, <1>8

\* The fail helper: it records only the error the sync pod reported.
LEMMA FailKeeps ==
  ASSUME SInv, SafeFaults, FailStep
  PROVE  SInv'
<1> USE DEF SInv, SettledMeans, FInv, threadVars, failureVars, eventVars, podVars, resultVars,
        FailStep, FailChecks, FailSeesError, FailSeesDone, FailPolls, FailReturns, FailTo,
        failRest
<1>0. FInv'
  BY NextFInv DEF Next, MishapStep
<1>c. setting' = setting \/ Calling("fail")
  BY DEF Calling, Call, CallsPend, Quiet, Started
<1>1. ShutdownMeans'
  BY DEF ShutdownMeans, Past, Doomed
<1>2. CallsRecord'
  <2>1. /\ ~Quiet("main") => ~Quiet("main")'
        /\ ~Quiet("monitor") => ~Quiet("monitor")'
        /\ ~Quiet("log") => ~Quiet("log")'
    BY <1>c, SettingOutside
  <2>2. UNCHANGED <<runFailed, monitor, log, main>>
    OBVIOUS
  <2> QED BY <2>1, <2>2 DEF CallsRecord, Quiet
<1>3. DoneMeans'
  BY DEF DoneMeans, Justified, Doomed, Got, Past
<1>4. PodMeans'
  BY DEF PodMeans
<1>5. ErrorMeans'
  BY DEF ErrorMeans
<1>6. ReasonMeans'
  <2>1. Setting => Setting'
    BY <1>c, SettingOutside
  <2>2. UNCHANGED <<reason, runFailed, status, main, handler>>
    OBVIOUS
  <2> QED BY <2>1, <2>2 DEF ReasonMeans
<1>7. SettledMeans'
  BY DEF SettledMeans, Settled, Clean, Success, Quiet
<1>8. ReportMeans'
  BY DEF ReportMeans, Success
<1> QED BY <1>0, <1>1, <1>2, <1>3, <1>4, <1>5, <1>6, <1>7, <1>8

\* The sync pod: it does not die, and reports an error or publishes, but not both.
LEMMA PodKeeps ==
  ASSUME SInv, SafeFaults, PodStep
  PROVE  SInv'
<1> USE DEF SInv, SettledMeans, FInv, threadVars, failureVars, eventVars, podVars, resultVars,
        PodStep, PodPublishes, PodReportsError, PodDies, WorkerPodCrashes, podRest
<1>0. FInv'
  BY NextFInv DEF Next, MishapStep
<1>1. ShutdownMeans'
  BY DEF ShutdownMeans, Past, Doomed
<1>2. CallsRecord'
  BY DEF CallsRecord, Quiet
<1>3. DoneMeans'
  BY DEF DoneMeans, Justified, Doomed, Got, Past
<1>4. PodMeans'
  BY DEF PodMeans, SafeFaults
<1>5. ErrorMeans'
  BY DEF ErrorMeans, SafeFaults
<1>6. ReasonMeans'
  BY DEF ReasonMeans, Setting
<1>7. SettledMeans'
  BY DEF SettledMeans, Settled, Clean, Success, Quiet, PodMeans
<1>8. ReportMeans'
  BY DEF ReportMeans, Success
<1> QED BY <1>0, <1>1, <1>2, <1>3, <1>4, <1>5, <1>6, <1>7, <1>8

LEMMA StutterKeeps == ASSUME SInv, UNCHANGED vars PROVE SInv'
<1> USE DEF SInv, threadVars, failureVars, eventVars, podVars, resultVars, vars
<1>1. FInv'
  BY NextFInv
<1>2. ShutdownMeans' /\ CallsRecord' /\ ErrorMeans' /\ ReasonMeans'
  BY DEF ShutdownMeans, Past, Doomed, CallsRecord, Quiet, ErrorMeans, ReasonMeans, Setting
<1>3. DoneMeans' /\ PodMeans'
  BY DEF DoneMeans, Justified, Doomed, Got, Past, PodMeans
<1>4. SettledMeans' /\ ReportMeans'
  BY DEF SettledMeans, Settled, Clean, Quiet, Success, ReportMeans
<1> QED BY <1>1, <1>2, <1>3, <1>4

---------------------------------------------------------------------------
LEMMA InitSInv == Init => SInv
<1> SUFFICES ASSUME Init PROVE SInv
  OBVIOUS
<1>1. FInv
  BY InitFInv
<1>2. ShutdownMeans /\ CallsRecord /\ ErrorMeans /\ ReasonMeans
  BY DEF Init, ShutdownMeans, CallsRecord, ErrorMeans, ReasonMeans
<1>3. DoneMeans /\ PodMeans
  BY DEF Init, DoneMeans, PodMeans
<1>4. SettledMeans /\ ReportMeans
  BY DEF Init, SettledMeans, Settled, ReportMeans, Success
<1> QED BY <1>1, <1>2, <1>3, <1>4 DEF SInv

LEMMA NextSInv == ASSUME SafeFaults PROVE SInv /\ [Next]_vars => SInv'
<1> SUFFICES ASSUME SInv, [Next]_vars PROVE SInv'
  OBVIOUS
<1>1. CASE UNCHANGED vars
  BY <1>1, StutterKeeps
<1>2. CASE Next
  BY <1>2, SettingKeeps, MainKeeps, HandlerKeeps, MonitorKeeps, LogKeeps, FailKeeps, PodKeeps
     DEF Next, MishapStep
<1> QED BY <1>1, <1>2

LEMMA SuccessInvariance == ASSUME SafeFaults PROVE Spec => []SInv
  BY InitSInv, NextSInv, PTL DEF Spec

(***************************************************************************)
(* A reporting workload's run is reported as a success only with the       *)
(* results of its workers, whichever thread ends the main loop and however *)
(* many signals arrive, unless the watch of the pods ends by itself or the *)
(* sync pod dies (do_logging and run, orchestrator.py:857-862, 1149-1155). *)
(***************************************************************************)
THEOREM ResultsWithSuccess == ASSUME SafeFaults PROVE Spec => []SuccessHasResults
<1>1. SInv => SuccessHasResults
  BY DEF SInv, ReportMeans, SuccessHasResults
<1> QED BY <1>1, SuccessInvariance, PTL

(***************************************************************************)
(* No failure that a thread recorded, or that the sync pod reported, is    *)
(* lost in a run that is reported as a success, neither before the report  *)
(* nor after it: the threads that could still record one were waited for   *)
(* (orchestrator.py:857-862).                                              *)
(***************************************************************************)
THEOREM CleanSuccess == ASSUME SafeFaults PROVE Spec => []SuccessIsClean
<1>1. SInv => SuccessIsClean
  BY DEF SInv, SettledMeans, Settled, Clean, SuccessIsClean
<1> QED BY <1>1, SuccessInvariance, PTL
===========================================================================
