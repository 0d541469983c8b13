----------------------- MODULE SyncRefinementProofs -----------------------
(***************************************************************************)
(* The sync protocol implements the barrier it promises (SyncBarrier), for *)
(* every population of containers and workers and every failure except a   *)
(* watchdog timeout, which publishes whatever results there are.           *)
(***************************************************************************)
EXTENDS SyncProtocolProofs

NoTimeout == watchdog # "fired"

Empty == \A s \in Slots : slots[s] = None

\* Nothing is stored before the round of results, in which the slots that are
\* still to be filled are empty.
Fresh ==
  /\ child = "reply" => command = "tnet"
  /\ child \in {"accept", "reply"} /\ command # "rslt" => Empty
  /\ child = "accept" /\ command = "rslt" => \A s \in Slots : s <= remaining => slots[s] = None
  /\ child = "exited" /\ status = 0 => Empty
  /\ parent \in {"timing", "loop"} => Empty

\* A worker whose results are stored synchronizes no more.
StoredSettled == \A s \in Slots : slots[s] # None => wstate[slots[s]] \in Settled

RInv == IInv /\ Fetches /\ NoTimeout /\ Fresh /\ StoredSettled

---------------------------------------------------------------------------
LEMMA NoTimeoutPreserved ==
  ASSUME "watchdog" \notin Faults, NoTimeout, [Next]_vars
  PROVE  NoTimeout'
<1>1. CASE UNCHANGED vars
  BY <1>1 DEF vars, watchdogVars, NoTimeout
<1>2. CASE ParentStep
  BY <1>2 DEF ParentStep, GetControllerTiming, StartRound, Reap, Fatal, GatherResults,
     PublishResults, FinishExit, ParentExits, watchdogVars, NoTimeout
<1>3. CASE ChildStep
  BY <1>3 DEF ChildStep, AcceptRequest, RejectRequest, ReadShortRequest, ReadSilentRequest,
     SilentPeerCloses, StartReplies, CompleteRound, ReplyTimestamp, ReplyRaises, FinishReplies,
     WriteError, LinkError, LinkErrorFails, watchdogVars, NoTimeout
<1>4. CASE HelperStep \/ FaultStep
  BY <1>4 DEF HelperStep, GiveTimestamp, ReadFlag, RemoveFlag, FaultStep, NameserverDies,
     WatchdogTimeout, RemoveFlagFails, NotifyError, WorkloadRaises, WorkerKilled, ContainerLost,
     ConnectionReset, watchdogVars, NoTimeout
<1>5. CASE \/ \E c \in Containers : ContainerStep(c)
           \/ \E w \in Workers : WorkerStep(w)
  BY <1>5 DEF ContainerStep, InitializeTiming, PatWatchdog, ForkWorkers, clientVars,
     MainReapsWorkers, WorkerStep, SyncToController, ReportResults, FailTimesOut, watchdogVars,
     NoTimeout
<1> QED BY <1>1, <1>2, <1>3, <1>4, <1>5 DEF Next

LEMMA FreshPreserved ==
  ASSUME IInv, NoTimeout', Fresh, [Next]_vars
  PROVE  Fresh'
<1>a. TypeOK /\ Processes BY DEF IInv
<1>1. CASE UNCHANGED vars
  BY <1>1 DEF vars, parentVars, childVars, fileVars, Fresh, Empty
<1>2. CASE ParentStep
  BY <1>2, <1>a DEF ParentStep, GetControllerTiming, StartRound, Reap, AfterRound, Fatal,
     GatherResults, PublishResults, FinishExit, ParentExits, parentVars, childVars, fileVars, Fresh,
     Empty
<1>3. CASE ChildStep
  <2>1. parent \notin {"timing", "loop"} /\ parent' = parent
    BY <1>3, <1>a DEF ChildStep, AcceptRequest, Accepting, RejectRequest, ReadShortRequest,
       ReadSilentRequest, SilentPeerCloses, StartReplies, CompleteRound, ReplyTimestamp,
       ReplyRaises, FinishReplies, WriteError, LinkError, LinkErrorFails, parentVars, Processes
  <2>2. ASSUME NEW m \in backlog, AcceptRequest(m) PROVE Fresh'
    <3>1. /\ child' = "accept" /\ child = "accept" /\ command' = m.cmd
          /\ command \in {"none", m.cmd} /\ remaining' = remaining - 1
          /\ slots' = IF m.cmd = "rslt" THEN [slots EXCEPT ![remaining] = m.from] ELSE slots
          /\ remaining \in Nat
      BY <2>2, <1>a DEF AcceptRequest, Accepting, Rejected, childVars, TypeOK
    <3>2. m.cmd = "rslt" => \A s \in Slots : s <= remaining' => slots'[s] = None
      BY <3>1, <1>a DEF Fresh, Empty, Slots, TypeOK, Results
    <3> QED BY <2>1, <3>1, <3>2 DEF Fresh, Empty
  <2>3. ASSUME NEW m \in backlog, RejectRequest(m) PROVE Fresh'
    BY <2>1, <2>3 DEF RejectRequest, Fresh
  <2>4. ASSUME NEW m \in backlog, ReadShortRequest(m) PROVE Fresh'
    BY <2>1, <2>4 DEF ReadShortRequest, ChildExits, Fresh
  <2>5. ASSUME NEW m \in backlog, ReadSilentRequest(m) PROVE Fresh'
    BY <2>1, <2>5 DEF ReadSilentRequest, fileVars, Fresh, Empty
  <2>6. CASE SilentPeerCloses \/ StartReplies
    BY <2>1, <2>6 DEF SilentPeerCloses, StartReplies, fileVars, Fresh, Empty
  <2>7. CASE CompleteRound \/ FinishReplies
    BY <2>1, <2>7 DEF CompleteRound, FinishReplies, ChildExits, fileVars, Fresh, Empty
  <2>8. ASSUME NEW c \in Containers, ReplyTimestamp(c) \/ ReplyRaises(c) PROVE Fresh'
    BY <2>1, <2>8 DEF ReplyTimestamp, ReplyRaises, ChildExits, fileVars, Fresh, Empty
  <2>9. CASE WriteError \/ LinkError \/ LinkErrorFails
    BY <2>1, <2>9 DEF WriteError, LinkError, LinkErrorFails, ChildExits, Fresh
  <2> QED BY <1>3, <2>2, <2>3, <2>4, <2>5, <2>6, <2>7, <2>8, <2>9 DEF ChildStep
<1>4. CASE HelperStep \/ FaultStep
  BY <1>4 DEF HelperStep, GiveTimestamp, ReadFlag, RemoveFlag, FaultStep, NameserverDies,
     WatchdogTimeout, RemoveFlagFails, NotifyError, WorkloadRaises, WorkerKilled, ContainerLost,
     ConnectionReset, NoTimeout, parentVars, childVars, fileVars, Fresh, Empty
<1>5. CASE \/ \E c \in Containers : ContainerStep(c)
           \/ \E w \in Workers : WorkerStep(w)
  BY <1>5 DEF ContainerStep, InitializeTiming, PatWatchdog, ForkWorkers, clientVars,
     MainReapsWorkers, WorkerStep, SyncToController, ReportResults, FailTimesOut, parentVars,
     childVars, fileVars, Fresh, Empty
<1> QED BY <1>1, <1>2, <1>3, <1>4, <1>5 DEF Next

\* Only an accepted RSLT request stores a result.
LEMMA SlotCases ==
  ASSUME [Next]_vars
  PROVE  \/ slots' = slots
         \/ \E m \in backlog : AcceptRequest(m) /\ m.cmd = "rslt"
<1>1. CASE UNCHANGED vars
  BY <1>1 DEF vars, fileVars
<1>2. CASE ParentStep
  BY <1>2 DEF ParentStep, GetControllerTiming, StartRound, Reap, Fatal, GatherResults,
     PublishResults, FinishExit, ParentExits, fileVars
<1>3. CASE ChildStep
  BY <1>3 DEF ChildStep, AcceptRequest, RejectRequest, ReadShortRequest,
     ReadSilentRequest, SilentPeerCloses, StartReplies, CompleteRound, ReplyTimestamp, ReplyRaises,
     FinishReplies, WriteError, LinkError, LinkErrorFails, fileVars
<1>4. CASE HelperStep \/ FaultStep
  BY <1>4 DEF HelperStep, GiveTimestamp, ReadFlag, RemoveFlag, FaultStep, NameserverDies,
     WatchdogTimeout, RemoveFlagFails, NotifyError, WorkloadRaises, WorkerKilled, ContainerLost,
     ConnectionReset, fileVars
<1>5. CASE \/ \E c \in Containers : ContainerStep(c)
           \/ \E w \in Workers : WorkerStep(w)
  BY <1>5 DEF ContainerStep, InitializeTiming, PatWatchdog, ForkWorkers, clientVars,
     MainReapsWorkers, WorkerStep, SyncToController, ReportResults, FailTimesOut, fileVars
<1> QED BY <1>1, <1>2, <1>3, <1>4, <1>5 DEF Next

LEMMA StoredSettledPreserved ==
  ASSUME IInv, StoredSettled, [Next]_vars
  PROVE  StoredSettled'
<1>a. TypeOK /\ NetInv BY DEF IInv
<1>1. CASE slots' = slots
  <2> SUFFICES ASSUME NEW s \in Slots, slots[s] # None
               PROVE  wstate'[slots[s]] \in Settled
    BY <1>1 DEF StoredSettled
  <2>1. slots[s] \in Workers /\ wstate[slots[s]] \in Settled
    BY <1>a DEF StoredSettled, TypeOK, Results
  <2> QED BY <2>1, SettledStays
<1>2. ASSUME NEW m \in backlog, AcceptRequest(m), m.cmd = "rslt"
      PROVE  StoredSettled'
  <2>1. slots' = [slots EXCEPT ![remaining] = m.from] /\ wstate' = wstate
    BY <1>2 DEF AcceptRequest, clientVars
  <2>2. m.from \in Workers /\ wstate[m.from] \in Settled
    BY <1>2, <1>a DEF NetInv, RequestsMatch, RequestMatches, Settled
  <2> QED BY <2>1, <2>2, <1>a DEF StoredSettled, TypeOK, Results
<1> QED BY <1>1, <1>2, SlotCases

---------------------------------------------------------------------------
(***************************************************************************)
(* Every step is a step of the barrier or leaves it alone.                 *)
(***************************************************************************)
Same == UNCHANGED <<called, passed, slots, flag, fetched>> /\ Failed' = Failed

LEMMA SameRefines ==
  ASSUME Same
  PROVE  UNCHANGED Barrier!bvars
<1>1. Stored' = Stored BY DEF Same, Stored
<1>2. Outcome' = Outcome BY DEF Same, Outcome
<1> QED BY <1>1, <1>2 DEF Same, Barrier!bvars

\* A step by which the run fails, or a step of a failed run.
LEMMA FailRefines ==
  ASSUME TypeOK, flag = None, fetched = None, UNCHANGED <<called, slots, flag, fetched>>, Failed',
         passed' \in [Workers -> Nat], \A w \in Workers : passed'[w] \in {passed[w], called[w]}
  PROVE  Barrier!Fail
<1>1. Outcome # "published" /\ Outcome' = "failed"
  BY DEF Outcome
<1>2. Stored' = Stored BY DEF Stored
<1> QED BY <1>1, <1>2 DEF Barrier!Fail

\* What closing connections does to the barrier.
LEMMA ClosePasses ==
  ASSUME TypeOK, CloseConnections
  PROVE  /\ called' = called /\ passed' \in [Workers -> Nat]
         /\ \A w \in Workers : passed'[w] \in {passed[w], called[w]}
BY DEF CloseConnections, TypeOK

\* Once results are published, nothing that the barrier is about changes.
LEMMA PublishedIsOver ==
  ASSUME RInv, flag # None \/ fetched # None
  PROVE  parent \in {"flagwait", "exit0"} /\ child = "none" /\ status = 2
BY DEF RInv, IInv, NoTimeout, Published, Processes

LEMMA ParentRefines ==
  ASSUME RInv, ParentStep
  PROVE  [Barrier!Next]_(Barrier!bvars)
<1>a. TypeOK /\ Processes /\ Collected /\ Published /\ Fetches /\ NoTimeout
  BY DEF RInv, IInv
<1>1. CASE GetControllerTiming \/ StartRound \/ Reap \/ GatherResults
  <2>1. UNCHANGED <<called, passed, slots, flag, fetched, tmpError>>
    BY <1>1 DEF GetControllerTiming, StartRound, Reap, GatherResults, clientVars, fileVars,
       helperVars
  <2>2. CASE GetControllerTiming \/ StartRound
    <3>1. Failed = tmpError /\ Failed' = tmpError
      BY <2>1, <2>2, <1>a DEF GetControllerTiming, StartRound, childVars, Processes, Failed, TypeOK
    <3> QED BY <3>1, <2>1, SameRefines DEF Same
  <2>3. CASE Reap
    <3>1. Failed' = Failed
      BY <2>1, <2>3, <1>a DEF Reap, AfterRound, Failed, TypeOK
    <3> QED BY <3>1, <2>1, SameRefines DEF Same
  <2>4. CASE GatherResults
    <3>1. Failed' = Failed
      BY <2>1, <2>4, <1>a DEF GatherResults, childVars, Failed, TypeOK
    <3> QED BY <3>1, <2>1, SameRefines DEF Same
  <2> QED BY <1>1, <2>2, <2>3, <2>4
<1>2. CASE Fatal
  <2>1. UNCHANGED <<called, passed, slots, flag, fetched>>
    BY <1>2 DEF Fatal, ParentExits, fileVars, clientVars, helperVars
  <2>2. Failed' = Failed
    BY <1>2 DEF Fatal, ParentExits, Failed
  <2> QED BY <2>1, <2>2, SameRefines DEF Same
<1>3. CASE PublishResults
  <2>1. parent = "publish" /\ status = 2 /\ child = "none" /\ ~tmpError /\ gathered \in Results
    BY <1>3, <1>a DEF PublishResults, Processes, Published, NoTimeout, TypeOK
  <2>2. flag = None /\ fetched = None
    BY <2>1, PublishedIsOver
  <2>3. Outcome = "running"
    BY <2>1, <2>2 DEF Outcome, Failed
  <2>4. Outcome' = "published"
    BY <2>1, <1>3, NoneAssumption DEF PublishResults, Outcome
  <2>5. Stored = Workers
    BY <2>1, <1>a, NoneAssumption DEF Collected, CompleteResults, Stored, TypeOK, Results, Clients
  <2>6. \A v, w \in Workers : passed[v] = called[w]
    BY <2>1, <1>a DEF Collected
  <2>7. UNCHANGED <<called, passed>> /\ Stored' = Stored
    BY <1>3 DEF PublishResults, clientVars, Stored
  <2>8. Barrier!Publish
    BY <2>3, <2>4, <2>5, <2>6, <2>7 DEF Barrier!Publish
  <2> QED BY <2>8 DEF Barrier!Next
<1>4. CASE FinishExit
  <2>1. UNCHANGED <<called, passed, slots, flag, fetched>>
    BY <1>4 DEF FinishExit, ParentExits, fileVars, clientVars, helperVars
  <2>2. Failed' = Failed
    BY <1>4 DEF FinishExit, FlagRemoved, ParentExits, childVars, fileVars, Failed
  <2> QED BY <2>1, <2>2, SameRefines DEF Same
<1> QED BY <1>1, <1>2, <1>3, <1>4 DEF ParentStep

LEMMA CompleteRefines ==
  ASSUME RInv, CompleteRound
  PROVE  [Barrier!Next]_(Barrier!bvars)
<1>a. TypeOK /\ Processes /\ IInv BY DEF RInv, IInv
<1>1. /\ accepted = Workers /\ child = "accept" /\ status = 0 /\ parent' = parent
      /\ UNCHANGED <<slots, flag, fetched, tmpError>>
      /\ CloseConnections /\ status' \in {0, 2}
  BY <1>a, FullRound DEF CompleteRound, ChildExits, Processes, parentVars, fileVars, helperVars
<1>2. flag = None /\ fetched = None
  BY <1>1, PublishedIsOver
<1>3. Failed' = Failed
  BY <1>1 DEF Failed
<1>4. called' = called /\ passed' = called
  BY <1>1, <1>a DEF CloseConnections, TypeOK
<1>5. CASE command = "rslt"
  <2>1. passed' = passed
    BY <1>4, <1>5, <1>a, FullRound DEF TypeOK
  <2> QED BY <2>1, <1>1, <1>3, <1>4, SameRefines DEF Same
<1>6. CASE command = "sync" /\ Failed
  <2> QED BY <1>1, <1>2, <1>3, <1>6, <1>a, ClosePasses, FailRefines DEF Barrier!Next
<1>7. CASE command = "sync" /\ ~Failed
  <2>1. \A w \in Workers : called[w] = passed[w] + 1
    BY <1>7, <1>a, FullRound
  <2>2. Intact
    BY <1>1 DEF Intact
  <2>3. \A v, w \in Workers : called[v] = called[w]
    BY <2>1, <2>2 DEF RInv, IInv, SameRounds
  <2>4. Outcome = "running" /\ Outcome' = Outcome /\ Stored' = Stored
    BY <1>1, <1>2, <1>3, <1>7 DEF Outcome, Stored
  <2>5. Barrier!Release
    BY <2>1, <2>3, <2>4, <1>4 DEF Barrier!Release
  <2> QED BY <2>5 DEF Barrier!Next
<1> QED BY <1>5, <1>6, <1>7, <1>a, FullRound

LEMMA AcceptRefines ==
  ASSUME RInv, NEW m \in backlog, AcceptRequest(m)
  PROVE  [Barrier!Next]_(Barrier!bvars)
<1>a. TypeOK /\ NetInv /\ Processes /\ RoundMatches /\ FirstRound /\ IInv
  BY DEF RInv, IInv
<1>1. /\ child = "accept" /\ remaining > 0 /\ command \in {"none", m.cmd}
      /\ slots' = IF m.cmd = "rslt" THEN [slots EXCEPT ![remaining] = m.from] ELSE slots
      /\ UNCHANGED <<called, passed, flag, fetched, tmpError, status, parent>>
  BY DEF AcceptRequest, Accepting, Rejected, clientVars, helperVars, parentVars
<1>2. Failed' = Failed BY <1>1 DEF Failed
<1>3. CASE m.cmd # "rslt"
  BY <1>1, <1>2, <1>3, SameRefines DEF Same
<1>4. CASE m.cmd = "rslt"
  <2>1. m.from \in Workers /\ called[m.from] = passed[m.from] /\ wstate[m.from] # "off"
    BY <1>4, <1>a DEF NetInv, RequestsMatch, RequestMatches
  <2>2. ~firstPass
    BY <2>1, <1>1, <1>a DEF FirstRound
  <2>3. IsFiniteSet(accepted)
    <3>1. IsFiniteSet(Clients) BY FS_Union, PopulationAssumption DEF Clients
    <3> QED BY <3>1, <1>a, FS_Subset DEF TypeOK
  <2>4. remaining \in Slots /\ slots \in [Slots -> Workers \cup {None}]
    BY <2>2, <2>3, <1>1, <1>a, Counts, FS_CardinalityType DEF RoundMatches, RoundSize, Slots,
       TypeOK, Results
  <2>5. slots[remaining] = None
    BY <2>4, <1>1, <1>4 DEF RInv, Fresh, Empty, Slots
  <2>6. None \notin Workers
    BY NoneAssumption DEF Clients
  <2>7. Stored' = Stored \cup {m.from}
    <3>1. slots' = [slots EXCEPT ![remaining] = m.from]
      BY <1>1, <1>4
    <3>2. \A x : x \in Stored' <=> x \in Stored \/ x = m.from
      BY <3>1, <2>1, <2>4, <2>5, <2>6 DEF Stored
    <3> QED BY <3>2
  <2>8. flag = None /\ fetched = None
    BY <1>1, PublishedIsOver
  <2>9. Outcome # "published" /\ Outcome' = Outcome
    BY <2>8, <1>1, <1>2 DEF Outcome
  <2>10. Barrier!Store(m.from)
    BY <2>1, <2>7, <2>9, <1>1 DEF Barrier!Store
  <2> QED BY <2>10, <2>1 DEF Barrier!Next
<1> QED BY <1>3, <1>4

LEMMA ChildRefines ==
  ASSUME RInv, ChildStep
  PROVE  [Barrier!Next]_(Barrier!bvars)
<1>a. TypeOK /\ Processes /\ NoTimeout /\ Fresh BY DEF RInv, IInv
<1>b. child # "none"
  BY DEF ChildStep, AcceptRequest, Accepting, RejectRequest, ReadShortRequest, ReadSilentRequest,
     SilentPeerCloses, StartReplies, CompleteRound, ReplyTimestamp, ReplyRaises, FinishReplies,
     WriteError, LinkError, LinkErrorFails
<1>c. flag = None /\ fetched = None
  BY <1>b, PublishedIsOver
<1>1. CASE \E m \in backlog : AcceptRequest(m)
  BY <1>1, AcceptRefines
<1>2. CASE CompleteRound
  BY <1>2, CompleteRefines
<1>3. CASE \/ \E m \in backlog : RejectRequest(m) \/ ReadSilentRequest(m)
           \/ SilentPeerCloses \/ StartReplies \/ LinkError
           \/ \E c \in Containers : ReplyTimestamp(c)
  <2>1. UNCHANGED <<called, passed, slots, flag, fetched, tmpError, status, parent>>
    BY <1>3 DEF RejectRequest, ReadSilentRequest, SilentPeerCloses, StartReplies, LinkError,
       ReplyTimestamp, clientVars, helperVars, parentVars, fileVars
  <2>2. Failed' = Failed BY <2>1 DEF Failed
  <2> QED BY <2>1, <2>2, SameRefines DEF Same
<1>4. CASE \/ \E m \in backlog : ReadShortRequest(m)
           \/ \E c \in Containers : ReplyRaises(c)
           \/ LinkErrorFails
  <2>1. /\ CloseConnections /\ status' = 1
        /\ UNCHANGED <<slots, flag, fetched>>
    BY <1>4 DEF ReadShortRequest, ReplyRaises, LinkErrorFails, ChildExits, helperVars, fileVars
  <2>2. Failed' BY <2>1 DEF Failed
  <2> QED BY <2>1, <2>2, <1>a, <1>c, ClosePasses, FailRefines DEF Barrier!Next
<1>5. CASE WriteError
  <2>1. tmpError' = TRUE /\ UNCHANGED <<called, passed, slots, flag, fetched>>
    BY <1>5 DEF WriteError, clientVars, helperVars
  <2>2. Failed' BY <2>1 DEF Failed
  <2> QED BY <2>1, <2>2, <1>a, <1>c, FailRefines DEF Barrier!Next, TypeOK
<1>6. CASE FinishReplies
  <2>1. child = "reply" /\ accepted = {} /\ peer = None /\ status = 0
    BY <1>6, <1>a DEF FinishReplies, Processes
  <2>2. /\ CloseConnections /\ status' = 0
        /\ UNCHANGED <<slots, flag, fetched, tmpError, parent>>
    BY <1>6 DEF FinishReplies, ChildExits, parentVars, helperVars, fileVars
  <2>3. called' = called /\ passed' = passed
    BY <2>1, <2>2, <1>a, QuietClose, ClosePasses
  <2>4. Failed' = Failed BY <2>1, <2>2 DEF Failed
  <2> QED BY <2>2, <2>3, <2>4, SameRefines DEF Same
<1> QED BY <1>1, <1>2, <1>3, <1>4, <1>5, <1>6 DEF ChildStep

LEMMA ClientsRefine ==
  ASSUME RInv, NEW w \in Workers, WorkerStep(w) \/ WorkloadRaises(w) \/ WorkerKilled(w)
  PROVE  [Barrier!Next]_(Barrier!bvars)
<1>a. TypeOK /\ NetInv /\ StoredSettled BY DEF RInv, IInv
<1>1. UNCHANGED <<passed, slots, flag, fetched, tmpError, status, parent>>
  BY DEF WorkerStep, SyncToController, ReportResults, FailTimesOut, WorkloadRaises, WorkerKilled,
     parentVars, childVars, fileVars, helperVars
<1>2. Failed' = Failed BY <1>1 DEF Failed
<1>3. CASE SyncToController(w)
  <2>1. /\ called[w] < SyncCount[w] /\ called' = [called EXCEPT ![w] = @ + 1]
        /\ wstate[w] = "run"
    BY <1>3 DEF SyncToController
  <2>2. called[w] = passed[w]
    BY <2>1, <1>a DEF NetInv, CallsMatch
  <2>3. w \notin Stored
    BY <2>1, <1>a DEF Stored, StoredSettled, Settled
  <2>4. Stored' = Stored /\ Outcome' = Outcome
    BY <1>1, <1>2 DEF Stored, Outcome
  <2>5. Barrier!Call(w)
    BY <2>1, <2>2, <2>3, <2>4, <1>1 DEF Barrier!Call
  <2> QED BY <2>5 DEF Barrier!Next
<1>4. CASE ~SyncToController(w)
  <2>1. called' = called
    BY <1>4 DEF WorkerStep, ReportResults, FailTimesOut, WorkloadRaises, WorkerKilled
  <2> QED BY <2>1, <1>1, <1>2, SameRefines DEF Same
<1> QED BY <1>3, <1>4

LEMMA StepRefines ==
  ASSUME RInv, NoTimeout', [Next]_vars
  PROVE  [Barrier!Next]_(Barrier!bvars)
<1>a. TypeOK /\ Fetches /\ NoTimeout BY DEF RInv, IInv
<1>1. CASE UNCHANGED vars
  <2>1. UNCHANGED <<called, passed, slots, flag, fetched, tmpError, status, parent>>
    BY <1>1 DEF vars, parentVars, childVars, fileVars, clientVars, helperVars
  <2>2. Failed' = Failed BY <2>1 DEF Failed
  <2> QED BY <2>1, <2>2, SameRefines DEF Same
<1>2. CASE ParentStep
  BY <1>2, ParentRefines
<1>3. CASE ChildStep
  BY <1>3, ChildRefines
<1>4. CASE HelperStep
  <2>1. UNCHANGED <<called, passed, slots, tmpError, status, parent>>
    BY <1>4 DEF HelperStep, GiveTimestamp, ReadFlag, RemoveFlag, parentVars, childVars, fileVars,
       clientVars
  <2>2. Stored' = Stored /\ Failed' = Failed
    BY <2>1 DEF Stored, Failed
  <2>3. Outcome' = Outcome
    BY <2>2, <1>4, <1>a DEF HelperStep, GiveTimestamp, ReadFlag, RemoveFlag, Validated, Fetches,
       fileVars, Outcome
  <2> QED BY <2>1, <2>2, <2>3 DEF Barrier!bvars
<1>5. CASE NameserverDies
  <2>1. /\ parent = "wait" /\ Failed'
        /\ UNCHANGED <<called, passed, slots, flag, fetched>>
    BY <1>5 DEF NameserverDies, Failed, fileVars, clientVars, helperVars
  <2>2. flag = None /\ fetched = None
    BY <2>1, PublishedIsOver
  <2> QED BY <2>1, <2>2, <1>a, FailRefines DEF Barrier!Next, TypeOK
<1>6. CASE \/ RemoveFlagFails \/ NotifyError
           \/ \E c \in Containers : ContainerStep(c) \/ ContainerLost(c)
           \/ \E p \in Clients, cmd \in {"tnet", "sync", "rslt"} : ConnectionReset(p, cmd)
  <2>1. UNCHANGED <<called, passed, slots, flag, fetched, tmpError, status, parent>>
    BY <1>6 DEF RemoveFlagFails, NotifyError, ContainerStep, InitializeTiming, PatWatchdog,
       ForkWorkers, MainReapsWorkers, FailTimesOut, ContainerLost, ConnectionReset,
       parentVars, childVars, fileVars, clientVars, helperVars
  <2>2. Failed' = Failed BY <2>1 DEF Failed
  <2> QED BY <2>1, <2>2, SameRefines DEF Same
<1>7. CASE \E w \in Workers : WorkerStep(w) \/ WorkloadRaises(w) \/ WorkerKilled(w)
  BY <1>7, ClientsRefine
<1>8. ~WatchdogTimeout
  BY DEF WatchdogTimeout, NoTimeout
<1> QED BY <1>1, <1>2, <1>3, <1>4, <1>5, <1>6, <1>7, <1>8 DEF Next, FaultStep

(***************************************************************************)
(* Unless the watchdog of the sync pod is on, the sync pod, its clients    *)
(* and the controller's log helper implement the barrier: releases of all  *)
(* workers at once, complete results published once, and failures that are *)
(* final (sync.py, clusterbuster_pod_client.py, driver/sync.py).           *)
(***************************************************************************)
THEOREM Refinement ==
  ASSUME "watchdog" \notin Faults
  PROVE  Spec => ImplementsBarrier
<1>1. Init => NoTimeout /\ Fresh /\ StoredSettled
  BY DEF Init, NoTimeout, Fresh, Empty, StoredSettled
<1>2. NoTimeout /\ [Next]_vars => NoTimeout'
  BY NoTimeoutPreserved
<1>3. IInv /\ NoTimeout' /\ Fresh /\ StoredSettled /\ [Next]_vars => Fresh' /\ StoredSettled'
  BY FreshPreserved, StoredSettledPreserved
<1>4. Spec => [](NoTimeout /\ Fresh /\ StoredSettled)
  BY <1>1, <1>2, <1>3, Invariance, PTL DEF Spec
<1>5. Spec => []RInv
  BY <1>4, Invariance, FetchesInvariant, PTL DEF RInv
<1>6. Init => Barrier!Init
  BY DEF Init, Barrier!Init, Stored, Outcome, Failed
<1>7. RInv /\ RInv' /\ [Next]_vars => [Barrier!Next]_(Barrier!bvars)
  BY StepRefines DEF RInv
<1> QED BY <1>5, <1>6, <1>7, PTL DEF Spec, ImplementsBarrier, Barrier!BarrierSpec
===========================================================================
