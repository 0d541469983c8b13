------------------------- MODULE SyncProtocolProofs -------------------------
(***************************************************************************)
(* Proofs about SyncProtocol, for every population of containers and       *)
(* workers, every number of synchronizations and every set of failures:    *)
(* type correctness, BarrierSafety and PublishedComplete.                  *)
(***************************************************************************)
EXTENDS SyncProtocol, FiniteSetTheorems, TLAPS

(***************************************************************************)
(* The inductive invariant.                                                *)
(***************************************************************************)

\* A client has at most one request (cut short ones apart) on its way.
OneRequest ==
  \A m, n \in backlog : m.from = n.from /\ m.cmd # "short" /\ n.cmd # "short" => m = n

\* A client the child holds a connection of sent nothing else but a silent retry.
HeldRequest ==
  \A m \in backlog : m.cmd # "short" =>
    m.from # peer /\ (m.from \in accepted => m.cmd = "silent")

\* A client that is not waiting has no request anywhere.
Unheard(p) == /\ p \notin accepted /\ p # peer
              /\ \A m \in backlog : m.from = p => m.cmd = "short"

IdleClients ==
  /\ \A w \in Workers : wstate[w] \in {"off", "run"} => Unheard(w)
  /\ \A c \in Containers : cstate[c] \in {"boot", "ready", "run"} => Unheard(c)

\* What a request says of the state of the client that sent it.
RequestMatches(m) ==
  /\ m.cmd = "tnet" => m.from \in Containers /\ cstate[m.from] \in {"tnet", "dead"}
  /\ m.cmd = "sync" => /\ m.from \in Workers
                       /\ wstate[m.from] \in {"sync", "killed"}
                       /\ called[m.from] = passed[m.from] + 1
  /\ m.cmd = "rslt" => /\ m.from \in Workers
                       /\ wstate[m.from] \in {"rslt", "killed"}
                       /\ called[m.from] = passed[m.from]
  /\ m.cmd = "fail" /\ m.from \in Workers => wstate[m.from] \in {"fail", "failed", "killed"}
  /\ m.cmd = "fail" /\ m.from \in Containers => cstate[m.from] \in {"failing", "exited", "dead"}

RequestsMatch == \A m \in backlog : RequestMatches(m)

CallsMatch ==
  \A w \in Workers :
    /\ passed[w] <= called[w] /\ called[w] <= SyncCount[w]
    /\ wstate[w] \notin {"sync", "killed"} => called[w] = passed[w]

\* A worker that has reported its results synchronizes no more.
Settled == {"rslt", "ok", "killed"}

WorkersOff ==
  \A w \in Workers : cstate[ContainerOf[w]] \in {"boot", "tnet", "ready"} => wstate[w] = "off"

\* The connections of the round in progress are those of distinct clients of one kind.
RoundMatches ==
  child = "accept" =>
    /\ remaining + Cardinality(accepted) = RoundSize
    /\ command # "fail" /\ (command = "none" => accepted = {})
    /\ command = "tnet" => accepted \subseteq Containers
    /\ command = "sync" => accepted \subseteq Workers
                           /\ \A w \in accepted : called[w] = passed[w] + 1
    /\ command = "rslt" => accepted \subseteq Workers
                           /\ \A w \in accepted :
                                /\ called[w] = passed[w] /\ wstate[w] \in Settled
                                /\ \E s \in Slots : s > remaining /\ slots[s] = w

\* No container goes on before the first round has been answered.
FirstRound ==
  firstPass /\ child \in {"none", "accept"} =>
    /\ \A w \in Workers : wstate[w] = "off"
    /\ \A c \in Containers : cstate[c] # "ready"

Processes ==
  /\ child \in {"none", "exited"} => accepted = {}
  /\ peer # None => child = "accept" /\ remaining > 0
  /\ child \notin {"none", "exited"} => status = 0
  /\ parent \in {"timing", "loop"} => child = "none" /\ status = 0
  /\ watchdog # "fired" /\ parent \in {"finish", "publish", "flagwait", "exit0"} =>
       child = "none" /\ status = 2

SameRounds == Intact => \A v, w \in Workers : passed[v] = passed[w]

Collected ==
  status = 2 => /\ CompleteResults(slots)
                /\ \A v, w \in Workers : passed[v] = called[w]
                /\ \A w \in Workers : wstate[w] \in Settled

Published ==
  watchdog # "fired" =>
    /\ parent \in {"publish", "flagwait", "exit0"} => CompleteResults(gathered) /\ ~tmpError
    /\ flag # None => CompleteResults(flag) /\ parent \in {"flagwait", "exit0"}
    /\ fetched # None => CompleteResults(fetched) /\ parent \in {"flagwait", "exit0"}

NetInv == OneRequest /\ HeldRequest /\ IdleClients /\ RequestsMatch /\ CallsMatch /\ WorkersOff

IInv ==
  /\ TypeOK /\ NetInv
  /\ RoundMatches /\ FirstRound /\ Processes
  /\ SameRounds /\ Collected /\ Published

---------------------------------------------------------------------------
(***************************************************************************)
(* Type correctness.                                                       *)
(***************************************************************************)
LEMMA Counts ==
  /\ ExpectedClients \in Nat \ {0}
  /\ InitialClients \in Nat \ {0}
  /\ RoundSize \in Nat \ {0}
<1>1. ExpectedClients \in Nat /\ InitialClients \in Nat
  BY FS_CardinalityType, PopulationAssumption, CountAssumption
<1>2. ExpectedClients # 0 /\ InitialClients # 0
  BY FS_EmptySet, PopulationAssumption, CountAssumption
<1> QED BY <1>1, <1>2 DEF RoundSize

LEMMA CloseTypes ==
  ASSUME TypeOK, CloseConnections
  PROVE  /\ accepted' = {} /\ peer' = None
         /\ called' = called
         /\ passed' \in [Workers -> Nat]
         /\ wstate' \in [Workers -> WorkerStates]
         /\ cstate' \in [Containers -> ContainerStates]
<1>1. AfterWorkerReply \in [WorkerStates -> WorkerStates]
  BY DEF AfterWorkerReply, WorkerStates
<1>2. AfterContainerReply \in [ContainerStates -> ContainerStates]
  BY DEF AfterContainerReply, ContainerStates
<1> QED BY <1>1, <1>2 DEF TypeOK, CloseConnections


---------------------------------------------------------------------------
(***************************************************************************)
(* The clients and their requests.  Most steps leave them alone, or close  *)
(* every connection of a round; what the others do is named here once.     *)
(***************************************************************************)
NetQuiet == UNCHANGED <<accepted, peer, backlog, cstate, wstate, called, passed>>
Closing == CloseConnections /\ backlog' \subseteq backlog

LEMMA NetCases ==
  ASSUME [Next]_vars
  PROVE  \/ NetQuiet
         \/ Closing
         \/ StartRound
         \/ \E m \in backlog : AcceptRequest(m) \/ RejectRequest(m) \/ ReadSilentRequest(m)
         \/ SilentPeerCloses
         \/ \E c \in Containers : ReplyTimestamp(c) \/ ContainerStep(c) \/ ContainerLost(c)
         \/ \E w \in Workers : WorkerStep(w) \/ WorkloadRaises(w) \/ WorkerKilled(w)
         \/ \E p \in Clients, cmd \in {"tnet", "sync", "rslt"} : ConnectionReset(p, cmd)
<1>1. CASE UNCHANGED vars
  BY <1>1 DEF NetQuiet, vars, childVars, clientVars
<1>2. CASE ParentStep
  BY <1>2 DEF ParentStep, GetControllerTiming, Reap, Fatal, GatherResults,
     PublishResults, FinishExit, ParentExits, NetQuiet, childVars, clientVars
<1>3. CASE ChildStep
  BY <1>3 DEF ChildStep, ReadShortRequest, StartReplies, CompleteRound, ReplyRaises, FinishReplies,
     WriteError, LinkError, LinkErrorFails, ChildExits, NetQuiet, Closing, childVars, clientVars
<1>4. CASE HelperStep
  BY <1>4 DEF HelperStep, GiveTimestamp, ReadFlag, RemoveFlag, NetQuiet, childVars, clientVars
<1>5. CASE FaultStep
  BY <1>5 DEF FaultStep, NameserverDies, WatchdogTimeout, RemoveFlagFails, NotifyError,
     NetQuiet, childVars, clientVars
<1> QED BY <1>1, <1>2, <1>3, <1>4, <1>5 DEF Next

LEMMA ClosePreserves ==
  ASSUME TypeOK, NetInv, Closing
  PROVE  NetInv'
<1> USE DEF NetInv, Closing
<1>t. /\ accepted' = {} /\ peer' = None /\ called' = called
      /\ None \notin Workers /\ None \notin Containers
  BY CloseTypes, NoneAssumption DEF Clients
<1>w. \A w \in Workers :
        /\ passed'[w] \in {passed[w], called[w]}
        /\ wstate'[w] # wstate[w] =>
             Released(w) /\ \/ wstate[w] = "sync" /\ wstate'[w] = "run"
                            \/ wstate[w] = "rslt" /\ wstate'[w] = "ok"
                            \/ wstate[w] = "fail" /\ wstate'[w] = "failed"
  BY DEF CloseConnections, AfterWorkerReply, TypeOK, WorkerStates
<1>c. \A c \in Containers :
        cstate'[c] # cstate[c] =>
             Released(c) /\ \/ cstate[c] = "tnet" /\ cstate'[c] = "dead"
                            \/ cstate[c] = "failing" /\ cstate'[c] = "exited"
  BY DEF CloseConnections, AfterContainerReply, TypeOK, ContainerStates
\* A released client has no request but one cut short on its way.
<1>r. \A m \in backlog : Released(m.from) => m.cmd = "short"
  BY DEF Released, HeldRequest, TypeOK, Requests, Request
<1>p. \A w \in Workers : passed'[w] # passed[w] => w \in accepted \cup {peer}
  BY DEF CloseConnections, TypeOK
<1>q. \A w \in Workers : Released(w) => passed'[w] = called[w]
  BY DEF CloseConnections, TypeOK, Released
<1>1. OneRequest' BY DEF OneRequest
<1>2. HeldRequest' BY <1>t, NoneAssumption DEF HeldRequest, TypeOK, Requests
<1>3. IdleClients'
  <2>1. \A w \in Workers : wstate'[w] \in {"off", "run"} => Unheard(w)'
    <3> SUFFICES ASSUME NEW w \in Workers, wstate'[w] \in {"off", "run"} PROVE Unheard(w)'
      OBVIOUS
    <3>1. \A m \in backlog : m.from = w => m.cmd = "short"
      BY <1>w, <1>r DEF IdleClients, Unheard
    <3> QED BY <3>1, <1>t DEF Unheard
  <2>2. \A c \in Containers : cstate'[c] \in {"boot", "ready", "run"} => Unheard(c)'
    <3> SUFFICES ASSUME NEW c \in Containers, cstate'[c] \in {"boot", "ready", "run"}
                 PROVE  Unheard(c)'
      OBVIOUS
    <3>1. \A m \in backlog : m.from = c => m.cmd = "short"
      BY <1>c, <1>r DEF IdleClients, Unheard
    <3> QED BY <3>1, <1>t DEF Unheard
  <2> QED BY <2>1, <2>2 DEF IdleClients
<1>4. RequestsMatch'
  <2> SUFFICES ASSUME NEW m \in backlog, m.cmd \notin {"short", "silent"}
               PROVE  RequestMatches(m)'
    BY DEF RequestsMatch, RequestMatches
  <2>1. ~Released(m.from) /\ m.from \notin accepted \cup {peer}
    BY <1>r DEF HeldRequest
  <2>2. m.from \in Workers => /\ wstate'[m.from] = wstate[m.from]
                              /\ passed'[m.from] = passed[m.from]
    BY <2>1, <1>w, <1>p
  <2>3. m.from \in Containers => cstate'[m.from] = cstate[m.from]
    BY <2>1, <1>c
  <2> QED BY <2>2, <2>3, <1>t DEF RequestsMatch, RequestMatches
<1>5. CallsMatch' BY <1>t, <1>w, <1>q DEF CallsMatch, TypeOK
<1>6. WorkersOff' BY <1>w, <1>c, PopulationAssumption DEF WorkersOff, TypeOK
<1> QED BY <1>1, <1>2, <1>3, <1>4, <1>5, <1>6


LEMMA NetPreserved ==
  ASSUME IInv, [Next]_vars
  PROVE  NetInv'
<1> USE DEF NetInv
<1>t. TypeOK /\ NetInv /\ \A m \in backlog : m.from \in Clients /\ m.from # None
  BY NoneAssumption DEF IInv, TypeOK, Requests
<1>d. /\ Containers \cap Workers = {} /\ ContainerOf \in [Workers -> Containers]
      /\ None \notin Workers /\ None \notin Containers
  BY PopulationAssumption, NoneAssumption DEF Clients
<1>1. CASE NetQuiet
  BY <1>1, <1>t DEF NetQuiet, OneRequest, HeldRequest, IdleClients, Unheard, RequestsMatch,
     RequestMatches, CallsMatch, WorkersOff
<1>2. CASE Closing
  BY <1>2, <1>t, ClosePreserves
<1>3. CASE StartRound
  BY <1>3, <1>t, <1>d DEF StartRound, OneRequest, HeldRequest, IdleClients, Unheard, RequestsMatch,
     RequestMatches, CallsMatch, WorkersOff, clientVars
<1>4. ASSUME NEW m \in backlog, AcceptRequest(m) \/ RejectRequest(m) \/ ReadSilentRequest(m)
      PROVE  NetInv'
  <2>1. /\ UNCHANGED clientVars
        /\ backlog' = backlog \ {m}
        /\ \/ accepted' = accepted \cup {m.from} /\ peer' = peer /\ m.cmd \in Commands
           \/ accepted' = accepted /\ peer' = m.from /\ m.cmd = "silent"
    BY <1>4 DEF AcceptRequest, RejectRequest, ReadSilentRequest, childVars
  <2>2. OneRequest' BY <2>1, <1>t DEF OneRequest
  <2>3. HeldRequest' BY <2>1, <1>t DEF HeldRequest, OneRequest, Commands
  <2>4. IdleClients' BY <2>1, <1>t DEF IdleClients, Unheard, Commands, clientVars
  <2>5. RequestsMatch' /\ CallsMatch' /\ WorkersOff'
    BY <2>1, <1>t DEF RequestsMatch, RequestMatches, CallsMatch, WorkersOff, clientVars
  <2> QED BY <2>2, <2>3, <2>4, <2>5
<1>5. CASE SilentPeerCloses
  BY <1>5, <1>t, <1>d DEF SilentPeerCloses, OneRequest, HeldRequest, IdleClients, Unheard,
     RequestsMatch, RequestMatches, CallsMatch, WorkersOff, clientVars
<1>6. ASSUME NEW c \in Containers, ReplyTimestamp(c) PROVE NetInv'
  <2>0. /\ UNCHANGED <<peer, backlog, wstate, called, passed>>
        /\ accepted' = accepted \ {c} /\ c \in accepted
    BY <1>6 DEF ReplyTimestamp
  <2>1. CASE cstate[c] = "tnet" /\ ~Astray(c)
    <3>1. cstate' = [cstate EXCEPT ![c] = "ready"]
      BY <1>6, <2>1 DEF ReplyTimestamp
    <3>2. \A w \in Workers : ContainerOf[w] = c => wstate[w] = "off"
      BY <2>1, <1>t DEF WorkersOff
    <3>3. c # peer /\ \A m \in backlog : m.from = c => m.cmd = "short"
      BY <2>0, <2>1, <1>t DEF HeldRequest, Astray, Request, TypeOK, Requests
    <3>4. OneRequest' /\ HeldRequest' BY <2>0, <1>t DEF OneRequest, HeldRequest
    <3>5. IdleClients'
      BY <2>0, <3>1, <3>3, <1>t, <1>d DEF IdleClients, Unheard, TypeOK
    <3>6. RequestsMatch'
      BY <2>0, <3>1, <3>3, <1>t, <1>d DEF RequestsMatch, RequestMatches, TypeOK
    <3>7. CallsMatch' /\ WorkersOff'
      BY <2>0, <3>1, <3>2, <1>t, <1>d DEF CallsMatch, WorkersOff, TypeOK
    <3> QED BY <3>4, <3>5, <3>6, <3>7
  <2>2. CASE ~(cstate[c] = "tnet" /\ ~Astray(c))
    <3>1. cstate' = cstate BY <1>6, <2>2 DEF ReplyTimestamp
    <3> QED BY <2>0, <3>1, <1>t DEF OneRequest, HeldRequest, IdleClients, Unheard,
            RequestsMatch, RequestMatches, CallsMatch, WorkersOff
  <2> QED BY <2>1, <2>2
\* A client that was idle sends a request, or a main process exits.
<1>7. ASSUME NEW c \in Containers, ContainerStep(c) \/ ContainerLost(c) PROVE NetInv'
  <2> USE <1>t, <1>d
  <2>1. CASE InitializeTiming(c)
    <3>1. /\ UNCHANGED <<accepted, peer, wstate, called, passed>>
          /\ cstate[c] = "boot" /\ cstate' = [cstate EXCEPT ![c] = "tnet"]
          /\ backlog' = backlog \cup {Request(c, "tnet")}
      BY <2>1 DEF InitializeTiming, Send, childVars
    <3> QED BY <3>1 DEF Request, OneRequest, HeldRequest, IdleClients, Unheard, RequestsMatch,
         RequestMatches, CallsMatch, WorkersOff, TypeOK
  <2>5. CASE PatWatchdog(c)
    BY <2>5 DEF PatWatchdog, childVars, clientVars, OneRequest, HeldRequest, IdleClients,
       Unheard, RequestsMatch, RequestMatches, CallsMatch, WorkersOff
  \* Its workers, which were not running, start without a request.
  <2>6. CASE ForkWorkers(c)
    <3>1. /\ UNCHANGED <<accepted, peer, backlog, called, passed>>
          /\ cstate[c] = "ready" /\ cstate' = [cstate EXCEPT ![c] = "run"]
          /\ wstate' = [w \in Workers |-> IF ContainerOf[w] = c THEN "run" ELSE wstate[w]]
      BY <2>6 DEF ForkWorkers, WorkersOf, childVars
    <3>2. \A w \in Workers : ContainerOf[w] = c => wstate[w] = "off"
      BY <3>1 DEF WorkersOff
    <3>3. OneRequest' /\ HeldRequest' BY <3>1 DEF OneRequest, HeldRequest
    <3>4. IdleClients' BY <3>1, <3>2 DEF IdleClients, Unheard, TypeOK
    <3>5. RequestsMatch'
      BY <3>1, <3>2 DEF RequestsMatch, RequestMatches, IdleClients, Unheard, TypeOK
    <3>6. CallsMatch' /\ WorkersOff' BY <3>1, <3>2 DEF CallsMatch, WorkersOff, TypeOK
    <3> QED BY <3>3, <3>4, <3>5, <3>6
  <2>2. CASE MainReapsWorkers(c)
    <3>1. /\ UNCHANGED <<accepted, peer, wstate, called, passed>>
          /\ cstate[c] = "run"
          /\ \/ cstate' = [cstate EXCEPT ![c] = "exited"] /\ backlog' = backlog
             \/ /\ cstate' = [cstate EXCEPT ![c] = "failing"]
                /\ backlog' = backlog \cup {Request(c, "fail")}
      BY <2>2 DEF MainReapsWorkers, Send, childVars
    <3> QED BY <3>1 DEF Request, OneRequest, HeldRequest, IdleClients, Unheard, RequestsMatch,
         RequestMatches, CallsMatch, WorkersOff, TypeOK
  <2>3. CASE FailTimesOut(c)
    BY <2>3 DEF FailTimesOut, childVars, OneRequest, HeldRequest, IdleClients, Unheard,
       RequestsMatch, RequestMatches, CallsMatch, WorkersOff, TypeOK
  <2>4. CASE ContainerLost(c)
    BY <2>4 DEF ContainerLost, WorkersOf, childVars, OneRequest, HeldRequest, IdleClients, Unheard,
       RequestsMatch, RequestMatches, CallsMatch, WorkersOff, TypeOK
  <2> QED BY <1>7, <2>1, <2>2, <2>3, <2>4, <2>5, <2>6 DEF ContainerStep
<1>8. ASSUME NEW w \in Workers, WorkerStep(w) \/ WorkloadRaises(w) \/ WorkerKilled(w)
      PROVE  NetInv'
  <2> USE <1>t, <1>d
  <2>1. CASE SyncToController(w)
    <3>1. /\ UNCHANGED <<accepted, peer, cstate, passed>>
          /\ wstate[w] = "run" /\ wstate' = [wstate EXCEPT ![w] = "sync"]
          /\ called[w] < SyncCount[w] /\ called' = [called EXCEPT ![w] = @ + 1]
          /\ backlog' = backlog \cup {Request(w, "sync")}
      BY <2>1 DEF SyncToController, Send, childVars
    <3>2. /\ Unheard(w) /\ called[w] = passed[w]
          /\ \A m \in backlog : m.from = w => m.cmd = "short"
          /\ called[w] \in Nat /\ SyncCount[w] \in Nat
      BY <3>1, PopulationAssumption DEF IdleClients, Unheard, CallsMatch, TypeOK
    <3>3. OneRequest' /\ HeldRequest'
      BY <3>1, <3>2 DEF OneRequest, HeldRequest, Request, Unheard
    <3>4. IdleClients' BY <3>1 DEF IdleClients, Unheard, Request, TypeOK
    <3>5. RequestsMatch' BY <3>1, <3>2 DEF RequestsMatch, RequestMatches, Request, TypeOK
    <3>6. CallsMatch' /\ WorkersOff' BY <3>1, <3>2 DEF CallsMatch, WorkersOff, TypeOK
    <3> QED BY <3>3, <3>4, <3>5, <3>6
  <2>2. CASE ReportResults(w) \/ WorkloadRaises(w)
    <3>1. /\ UNCHANGED <<accepted, peer, cstate, called, passed>>
          /\ wstate[w] = "run"
          /\ \/ /\ wstate' = [wstate EXCEPT ![w] = "rslt"]
                /\ backlog' = backlog \cup {Request(w, "rslt")}
             \/ /\ wstate' = [wstate EXCEPT ![w] = "fail"]
                /\ backlog' = backlog \cup {Request(w, "fail")}
      BY <2>2 DEF ReportResults, WorkloadRaises, Send, childVars
    <3> QED BY <3>1 DEF Request, OneRequest, HeldRequest, IdleClients, Unheard, RequestsMatch,
         RequestMatches, CallsMatch, WorkersOff, TypeOK
  <2>3. CASE FailTimesOut(w)
    BY <2>3 DEF FailTimesOut, childVars, OneRequest, HeldRequest, IdleClients, Unheard,
       RequestsMatch, RequestMatches, CallsMatch, WorkersOff, TypeOK
  <2>4. CASE WorkerKilled(w)
    <3>1. /\ UNCHANGED <<accepted, peer, cstate, called, passed>>
          /\ wstate[w] \in {"run", "sync", "rslt", "fail"}
          /\ wstate' = [wstate EXCEPT ![w] = "killed"]
          /\ backlog' = backlog \/ backlog' = backlog \cup {Request(w, "short")}
      BY <2>4 DEF WorkerKilled, Send, childVars
    <3> QED BY <3>1 DEF Request, OneRequest, HeldRequest, IdleClients, Unheard, RequestsMatch,
         RequestMatches, CallsMatch, WorkersOff, TypeOK
  <2> QED BY <1>8, <2>1, <2>2, <2>3, <2>4 DEF WorkerStep
<1>9. ASSUME NEW p \in Clients, NEW cmd \in {"tnet", "sync", "rslt"}, ConnectionReset(p, cmd)
      PROVE  NetInv'
  <2>1. /\ UNCHANGED <<accepted, peer, clientVars>>
        /\ p # peer /\ Request(p, "silent") \notin backlog
        /\ (p \in Workers /\ wstate[p] = cmd) \/ (p \in Containers /\ cstate[p] = cmd)
    BY <1>9 DEF ConnectionReset, Astray, Clients, childVars, clientVars
  <2>2. /\ backlog' \subseteq backlog \cup {Request(p, "silent"), Request(p, "short")}
        /\ Request(p, cmd) \notin backlog'
    BY <1>9 DEF ConnectionReset, Retried, Request
  \* The request it waits for an answer to is the only one it can have sent.
  <2>3. \A m \in backlog : m.from = p /\ m.cmd # "short" => m = Request(p, cmd)
    BY <2>1, <1>t, <1>d DEF RequestsMatch, RequestMatches, TypeOK, Requests, Request, Commands,
       Clients
  <2>4. OneRequest' /\ HeldRequest'
    BY <2>1, <2>2, <2>3, <1>t DEF OneRequest, HeldRequest, Request
  <2>5. IdleClients'
    BY <2>1, <2>2, <1>t, <1>d DEF IdleClients, Unheard, Request, clientVars, Clients
  <2>6. RequestsMatch' /\ CallsMatch' /\ WorkersOff'
    BY <2>1, <2>2, <1>t DEF RequestsMatch, RequestMatches, CallsMatch, WorkersOff, Request,
       clientVars
  <2> QED BY <2>4, <2>5, <2>6
<1> QED BY <1>1, <1>2, <1>3, <1>4, <1>5, <1>6, <1>7, <1>8, <1>9, NetCases


---------------------------------------------------------------------------
(***************************************************************************)
(* Types.  A result is stored for a worker because of what NetInv says of  *)
(* the requests.                                                           *)
(***************************************************************************)
LEMMA AfterRoundTypes == \A st \in 0 .. 2 : AfterRound(st) \in {"finish", "loop", "fatal"}
BY DEF AfterRound

LEMMA TypePreserved ==
  ASSUME IInv, [Next]_vars
  PROVE  TypeOK'
<1> USE DEF IInv, TypeOK
<1>1. CASE UNCHANGED vars
  BY <1>1 DEF vars, parentVars, childVars, fileVars, watchdogVars, clientVars, helperVars
<1>2. CASE ParentStep
  <2>1. CASE GetControllerTiming \/ GatherResults \/ PublishResults
    BY <2>1 DEF GetControllerTiming, GatherResults, PublishResults, ParentStates,
       parentVars, childVars, fileVars, watchdogVars, clientVars, helperVars
  <2>2. CASE StartRound
    BY <2>2, Counts DEF StartRound, ParentStates, ChildStates, fileVars, watchdogVars,
       clientVars, helperVars
  <2>3. CASE Reap
    BY <2>3, AfterRoundTypes DEF Reap, ParentStates, ChildStates, fileVars, watchdogVars,
       clientVars, helperVars
  <2>4. CASE Fatal \/ FinishExit
    BY <2>4 DEF Fatal, FinishExit, ParentExits, ParentStates, Exited, childVars, fileVars,
       watchdogVars, clientVars, helperVars
  <2> QED BY <1>2, <2>1, <2>2, <2>3, <2>4 DEF ParentStep
<1>3. CASE ChildStep
  <2>1. ASSUME NEW m \in backlog, AcceptRequest(m) PROVE TypeOK'
    <3>1. m.from \in Clients /\ (m.cmd = "rslt" => m.from \in Workers)
      BY DEF NetInv, RequestsMatch, RequestMatches, Requests
    <3>2. remaining' \in Nat BY <2>1 DEF AcceptRequest, Accepting
    <3>3. slots' \in Results BY <2>1, <3>1 DEF AcceptRequest, Results
    <3>4. peer' = None BY <2>1 DEF AcceptRequest, Accepting
    <3> QED BY <2>1, <3>1, <3>2, <3>3, <3>4 DEF AcceptRequest, Commands, parentVars, watchdogVars,
            clientVars, helperVars
  <2>2. ASSUME NEW m \in backlog, RejectRequest(m) \/ ReadSilentRequest(m) PROVE TypeOK'
    BY <2>2 DEF RejectRequest, ReadSilentRequest, Accepting, Requests, Commands, ChildStates,
       parentVars, fileVars, watchdogVars, clientVars, helperVars
  <2>3. CASE SilentPeerCloses \/ StartReplies \/ WriteError \/ LinkError
    <3>1. CASE SilentPeerCloses
      BY <3>1 DEF SilentPeerCloses, parentVars, fileVars, watchdogVars, clientVars, helperVars
    <3>2. CASE StartReplies
      <4>1. peer = None BY <3>2 DEF StartReplies
      <4> QED BY <3>2, <4>1 DEF StartReplies, ChildStates, parentVars, fileVars, watchdogVars,
              clientVars, helperVars
    <3>3. CASE WriteError \/ LinkError
      <4>1. peer = None BY <3>3 DEF WriteError, LinkError
      <4> QED BY <3>3, <4>1 DEF WriteError, LinkError, ChildStates, parentVars, fileVars,
              watchdogVars, clientVars, helperVars
    <3> QED BY <2>3, <3>1, <3>2, <3>3
  <2>4. ASSUME NEW c \in Containers, ReplyTimestamp(c) PROVE TypeOK'
    BY <2>4 DEF ReplyTimestamp, ContainerStates, WorkerStates, parentVars, fileVars,
       watchdogVars, helperVars
  <2>5. ASSUME NEW st \in 0 .. 2, ChildExits(st), backlog' \subseteq backlog,
               UNCHANGED <<parentVars, command, remaining, fileVars, watchdogVars, helperVars>>
        PROVE  TypeOK'
    BY <2>5, CloseTypes DEF ChildExits, ChildStates, parentVars, fileVars, watchdogVars, helperVars
  <2>6. ASSUME NEW m \in backlog, ReadShortRequest(m) PROVE TypeOK'
    BY <2>6, <2>5 DEF ReadShortRequest
  <2>7. CASE \/ CompleteRound \/ FinishReplies \/ LinkErrorFails
             \/ \E c \in Containers : ReplyRaises(c)
    BY <2>7, <2>5 DEF CompleteRound, FinishReplies, LinkErrorFails, ReplyRaises
  <2> QED BY <1>3, <2>1, <2>2, <2>3, <2>4, <2>6, <2>7 DEF ChildStep
<1>4. CASE HelperStep
  BY <1>4 DEF HelperStep, GiveTimestamp, ReadFlag, RemoveFlag, parentVars, childVars, fileVars,
     watchdogVars, clientVars, helperVars
<1>5. ASSUME NEW c \in Containers, ContainerStep(c) \/ ContainerLost(c) PROVE TypeOK'
  BY <1>5 DEF ContainerStep, InitializeTiming, PatWatchdog, clientVars, ForkWorkers,
     MainReapsWorkers, FailTimesOut, ContainerLost, Send, Request, Requests, Clients, Commands,
     ContainerStates, WorkerStates, parentVars, childVars, fileVars, watchdogVars, helperVars
<1>6. ASSUME NEW w \in Workers, WorkerStep(w) \/ WorkloadRaises(w) \/ WorkerKilled(w) PROVE TypeOK'
  BY <1>6 DEF WorkerStep, SyncToController, ReportResults, FailTimesOut, WorkloadRaises,
     WorkerKilled, Send, Request, Requests, Clients, Commands, ContainerStates, WorkerStates,
     parentVars, childVars, fileVars, watchdogVars, helperVars
<1>7. ASSUME NEW p \in Clients, NEW cmd \in {"tnet", "sync", "rslt"}, ConnectionReset(p, cmd)
      PROVE  TypeOK'
  BY <1>7 DEF ConnectionReset, Retried, Request, Requests, Commands, parentVars, childVars,
     fileVars, watchdogVars, clientVars, helperVars
<1>8. CASE NameserverDies \/ WatchdogTimeout \/ RemoveFlagFails \/ NotifyError
  BY <1>8 DEF NameserverDies, WatchdogTimeout, WatchdogHandler, RemoveFlagFails, NotifyError,
     ParentStates, parentVars, childVars, fileVars, watchdogVars, clientVars, helperVars
<1> QED BY <1>1, <1>2, <1>3, <1>4, <1>5, <1>6, <1>7, <1>8 DEF Next, FaultStep


---------------------------------------------------------------------------
(***************************************************************************)
(* The rounds.                                                             *)
(***************************************************************************)

LEMMA SettledStays ==
  ASSUME IInv, [Next]_vars, NEW w \in Workers, wstate[w] \in Settled
  PROVE  wstate'[w] \in Settled /\ called'[w] = called[w]
<1>a. TypeOK /\ NetInv BY DEF IInv
<1>1. CASE NetQuiet \/ StartRound \/ SilentPeerCloses
  BY <1>1 DEF NetQuiet, StartRound, SilentPeerCloses, clientVars
<1>2. CASE Closing
  BY <1>2, <1>a DEF Closing, CloseConnections, AfterWorkerReply, WorkerStates, Settled, TypeOK
<1>3. CASE \E m \in backlog : AcceptRequest(m) \/ RejectRequest(m) \/ ReadSilentRequest(m)
  BY <1>3 DEF AcceptRequest, RejectRequest, ReadSilentRequest, clientVars
<1>4. ASSUME NEW c \in Containers, ReplyTimestamp(c) \/ ContainerStep(c) \/ ContainerLost(c)
      PROVE  wstate'[w] \in Settled /\ called'[w] = called[w]
  <2>1. CASE ForkWorkers(c)
    BY <2>1, <1>a DEF ForkWorkers, NetInv, WorkersOff, WorkersOf, Settled, TypeOK
  <2>2. CASE ReplyTimestamp(c) \/ (ContainerStep(c) /\ ~ForkWorkers(c)) \/ ContainerLost(c)
    BY <2>2, <1>a DEF ReplyTimestamp, ContainerStep, InitializeTiming, PatWatchdog,
       MainReapsWorkers, FailTimesOut, ContainerLost, clientVars, Settled, TypeOK
  <2> QED BY <1>4, <2>1, <2>2
<1>5. CASE \E v \in Workers : WorkerStep(v) \/ WorkloadRaises(v) \/ WorkerKilled(v)
  BY <1>5, <1>a DEF WorkerStep, SyncToController, ReportResults, FailTimesOut, WorkloadRaises,
     WorkerKilled, Settled, TypeOK
<1>6. CASE \E p \in Clients, cmd \in {"tnet", "sync", "rslt"} : ConnectionReset(p, cmd)
  BY <1>6 DEF ConnectionReset, clientVars
<1> QED BY <1>1, <1>2, <1>3, <1>4, <1>5, <1>6, NetCases

\* What can happen while a child accepts requests.
LEMMA RoundCases ==
  ASSUME IInv, [Next]_vars, child' = "accept"
  PROVE  \/ StartRound
         \/ \E m \in backlog : AcceptRequest(m)
         \/ /\ child = "accept"
            /\ UNCHANGED <<remaining, accepted, command, slots, firstPass, passed>>
            /\ \A w \in Workers : w \in accepted => called'[w] = called[w]
<1>1. CASE UNCHANGED vars
  BY <1>1 DEF vars, parentVars, childVars, fileVars, clientVars
<1>2. CASE ParentStep
  BY <1>2 DEF ParentStep, GetControllerTiming, Reap, Fatal, GatherResults,
     PublishResults, FinishExit, ParentExits, parentVars, childVars, fileVars, clientVars
<1>3. CASE ChildStep
  BY <1>3 DEF ChildStep, RejectRequest, ReadShortRequest, ReadSilentRequest, SilentPeerCloses,
     StartReplies, CompleteRound, ReplyTimestamp, ReplyRaises, FinishReplies, WriteError, LinkError,
     LinkErrorFails, ChildExits, parentVars, childVars, fileVars, clientVars
<1>4. CASE HelperStep \/ NameserverDies \/ WatchdogTimeout \/ RemoveFlagFails \/ NotifyError
  BY <1>4 DEF HelperStep, GiveTimestamp, ReadFlag, RemoveFlag, NameserverDies, WatchdogTimeout,
     RemoveFlagFails, NotifyError, parentVars, childVars, fileVars, clientVars
<1>5. ASSUME NEW c \in Containers, ContainerStep(c) \/ ContainerLost(c)
      PROVE  /\ UNCHANGED <<child, remaining, accepted, command, slots, firstPass, passed, called>>
  BY <1>5 DEF ContainerStep, InitializeTiming, PatWatchdog, clientVars, ForkWorkers,
     MainReapsWorkers, FailTimesOut, ContainerLost, parentVars, childVars, fileVars
<1>6. ASSUME NEW w \in Workers, WorkerStep(w) \/ WorkloadRaises(w) \/ WorkerKilled(w)
      PROVE  /\ UNCHANGED <<child, remaining, accepted, command, slots, firstPass, passed>>
             /\ \A v \in Workers : v \in accepted => called'[v] = called[v]
  <2>1. CASE SyncToController(w)
    <3>1. w \notin accepted
      BY <2>1 DEF SyncToController, IInv, NetInv, IdleClients, Unheard
    <3> QED BY <2>1, <3>1 DEF SyncToController, IInv, TypeOK, parentVars, childVars, fileVars
  <2> QED BY <1>6, <2>1 DEF WorkerStep, ReportResults, FailTimesOut, WorkloadRaises, WorkerKilled,
       parentVars, childVars, fileVars
<1>7. ASSUME NEW p \in Clients, NEW cmd \in {"tnet", "sync", "rslt"}, ConnectionReset(p, cmd)
      PROVE  UNCHANGED <<child, remaining, accepted, command, slots, firstPass, passed, called>>
  BY <1>7 DEF ConnectionReset, parentVars, childVars, fileVars, clientVars
<1> QED BY <1>1, <1>2, <1>3, <1>4, <1>5, <1>6, <1>7 DEF Next, FaultStep

LEMMA RoundPreserved ==
  ASSUME IInv, [Next]_vars
  PROVE  RoundMatches'
<1> SUFFICES ASSUME child' = "accept" PROVE RoundMatches'
  BY DEF RoundMatches
<1>a. TypeOK /\ NetInv /\ RoundMatches /\ FirstRound /\ Processes
  BY DEF IInv
<1>1. CASE StartRound
  BY <1>1, Counts, FS_EmptySet DEF StartRound, RoundMatches, RoundSize
<1>2. ASSUME NEW m \in backlog, AcceptRequest(m) PROVE RoundMatches'
  <2>1. /\ child = "accept" /\ remaining > 0 /\ peer = None
        /\ m.cmd \in {"tnet", "sync", "rslt"} /\ command \in {"none", m.cmd}
        /\ accepted' = accepted \cup {m.from} /\ command' = m.cmd
        /\ remaining' = remaining - 1
        /\ slots' = IF m.cmd = "rslt" THEN [slots EXCEPT ![remaining] = m.from] ELSE slots
        /\ UNCHANGED <<firstPass, clientVars>>
    BY <1>2 DEF AcceptRequest, Accepting, Rejected, Commands, parentVars
  <2>2. m.from \notin accepted /\ m.from \in Clients
    BY <2>1, <1>a DEF NetInv, HeldRequest, TypeOK, Requests
  <2>3. IsFiniteSet(accepted) /\ IsFiniteSet(accepted')
        /\ Cardinality(accepted') = Cardinality(accepted) + 1
    <3>1. IsFiniteSet(Clients)
      BY FS_Union, PopulationAssumption DEF Clients
    <3>2. IsFiniteSet(accepted)
      BY <3>1, <1>a, FS_Subset DEF TypeOK
    <3> QED BY <3>2, <2>1, <2>2, FS_AddElement
  <2>4. remaining' + Cardinality(accepted') = RoundSize'
    BY <2>1, <2>3, <1>a, FS_CardinalityType, Counts DEF RoundMatches, RoundSize, TypeOK
  <2>5. m.cmd = "tnet" => accepted' \subseteq Containers
    BY <2>1, <1>a DEF RoundMatches, NetInv, RequestsMatch, RequestMatches
  <2>6. m.cmd = "sync" => accepted' \subseteq Workers
                         /\ \A w \in accepted' : called'[w] = passed'[w] + 1
    BY <2>1, <1>a DEF RoundMatches, NetInv, RequestsMatch, RequestMatches, clientVars
  <2>7. m.cmd = "rslt" => accepted' \subseteq Workers
                         /\ \A w \in accepted' : /\ called'[w] = passed'[w]
                                                 /\ wstate'[w] \in Settled
    BY <2>1, <1>a DEF RoundMatches, NetInv, RequestsMatch, RequestMatches, clientVars, Settled
  <2>8. m.cmd = "rslt" => \A w \in accepted' : \E s \in Slots : s > remaining' /\ slots'[s] = w
    <3> SUFFICES ASSUME m.cmd = "rslt"
                 PROVE  \A w \in accepted' : \E s \in Slots : s > remaining' /\ slots'[s] = w
      OBVIOUS
    <3>1. m.from \in Workers /\ wstate[m.from] # "off"
      BY <1>a DEF NetInv, RequestsMatch, RequestMatches
    <3>2. ~firstPass
      BY <3>1, <2>1, <1>a DEF FirstRound
    <3>3. remaining \in Slots
      BY <3>2, <2>1, <2>3, <1>a, Counts, FS_CardinalityType DEF RoundMatches, RoundSize, Slots,
         TypeOK
    <3>4. /\ slots \in [Slots -> Workers \cup {None}]
          /\ slots' = [slots EXCEPT ![remaining] = m.from]
      BY <2>1, <1>a DEF TypeOK, Results
    <3>5. slots'[remaining] = m.from /\ remaining > remaining'
      BY <3>3, <3>4, <2>1, <1>a DEF TypeOK
    <3>6. ASSUME NEW w \in accepted PROVE \E s \in Slots : s > remaining' /\ slots'[s] = w
      <4>1. command = "rslt" BY <2>1, <1>a DEF RoundMatches
      <4>2. PICK s \in Slots : s > remaining /\ slots[s] = w
        BY <4>1, <2>1, <1>a DEF RoundMatches
      <4>3. s > remaining' /\ slots'[s] = w
        BY <4>2, <3>3, <3>4, <2>1, <1>a, Counts DEF TypeOK, Slots
      <4> QED BY <4>3
    <3> QED BY <3>3, <3>5, <3>6, <2>1
  <2> QED BY <2>1, <2>4, <2>5, <2>6, <2>7, <2>8 DEF RoundMatches
<1>3. CASE /\ child = "accept"
           /\ UNCHANGED <<remaining, accepted, command, slots, firstPass, passed>>
           /\ \A w \in Workers : w \in accepted => called'[w] = called[w]
  BY <1>3, <1>a, SettledStays DEF RoundMatches, RoundSize
<1> QED BY <1>1, <1>2, <1>3, RoundCases

LEMMA FirstRoundPreserved ==
  ASSUME IInv, [Next]_vars
  PROVE  FirstRound'
<1> SUFFICES ASSUME firstPass', child' \in {"none", "accept"}
             PROVE  /\ \A w \in Workers : wstate'[w] = "off"
                    /\ \A c \in Containers : cstate'[c] # "ready"
  BY DEF FirstRound
<1>a. TypeOK /\ FirstRound /\ Processes BY DEF IInv
<1>1. CASE UNCHANGED vars
  BY <1>1, <1>a DEF vars, parentVars, childVars, clientVars, FirstRound
<1>2. CASE ParentStep
  BY <1>2, <1>a DEF ParentStep, GetControllerTiming, StartRound, Reap, Fatal,
     GatherResults, PublishResults, FinishExit, ParentExits, parentVars, childVars, clientVars,
     FirstRound, Processes, Exited
<1>3. CASE ChildStep
  BY <1>3, <1>a DEF ChildStep, AcceptRequest, RejectRequest, ReadShortRequest,
     ReadSilentRequest, SilentPeerCloses, StartReplies, CompleteRound, ReplyTimestamp,
     ReplyRaises, FinishReplies, WriteError, LinkError, LinkErrorFails, ChildExits, Accepting,
     parentVars, childVars, clientVars, FirstRound
<1>4. CASE HelperStep \/ NameserverDies \/ WatchdogTimeout \/ RemoveFlagFails \/ NotifyError
  BY <1>4, <1>a DEF HelperStep, GiveTimestamp, ReadFlag, RemoveFlag, NameserverDies,
     WatchdogTimeout, RemoveFlagFails, NotifyError, parentVars, childVars, clientVars,
     FirstRound, Exited
<1>5. CASE \E c \in Containers : ContainerStep(c) \/ ContainerLost(c)
  BY <1>5, <1>a DEF ContainerStep, InitializeTiming, PatWatchdog, clientVars, ForkWorkers,
     MainReapsWorkers, FailTimesOut, ContainerLost, parentVars, childVars, FirstRound, TypeOK
<1>6. CASE \E w \in Workers : WorkerStep(w) \/ WorkloadRaises(w) \/ WorkerKilled(w)
  BY <1>6, <1>a DEF WorkerStep, SyncToController, ReportResults, FailTimesOut, WorkloadRaises,
     WorkerKilled, parentVars, childVars, FirstRound, TypeOK
<1>7. CASE \E p \in Clients, cmd \in {"tnet", "sync", "rslt"} : ConnectionReset(p, cmd)
  BY <1>7, <1>a DEF ConnectionReset, parentVars, childVars, clientVars, FirstRound
<1> QED BY <1>1, <1>2, <1>3, <1>4, <1>5, <1>6, <1>7 DEF Next, FaultStep


LEMMA ProcessesPreserved ==
  ASSUME IInv, [Next]_vars
  PROVE  Processes'
<1>a. TypeOK /\ Processes BY DEF IInv
<1>1. CASE UNCHANGED vars
  BY <1>1, <1>a DEF vars, parentVars, watchdogVars, childVars, Processes
<1>2. CASE ParentStep
  <2>1. CASE GetControllerTiming \/ StartRound \/ GatherResults \/ PublishResults
    BY <2>1, <1>a, Counts DEF GetControllerTiming, StartRound, GatherResults,
       PublishResults, parentVars, watchdogVars, childVars, Processes, Exited
  <2>2. CASE Reap
    BY <2>2, <1>a DEF Reap, AfterRound, Processes, Exited, TypeOK
  <2>3. CASE Fatal \/ FinishExit
    BY <2>3, <1>a DEF Fatal, FinishExit, FlagRemoved, ParentExits, childVars, watchdogVars,
       Processes, Exited
  <2> QED BY <1>2, <2>1, <2>2, <2>3 DEF ParentStep
<1>3. CASE ChildStep
  <2>1. /\ child \notin {"none", "exited"}
        /\ parent' = parent /\ watchdog' = watchdog
    BY <1>3, <1>a DEF ChildStep, AcceptRequest, RejectRequest, ReadShortRequest, ReadSilentRequest,
     SilentPeerCloses, StartReplies, CompleteRound, ReplyTimestamp, ReplyRaises, FinishReplies,
     WriteError, LinkError, LinkErrorFails, Accepting, parentVars, watchdogVars
  <2>2. /\ parent \notin {"timing", "loop"} /\ status = 0
        /\ ~(watchdog # "fired" /\ parent \in {"finish", "publish", "flagwait", "exit0"})
    BY <2>1, <1>a DEF Processes
  <2>3. /\ child' \in {"none", "exited"} => accepted' = {}
        /\ peer' # None => child' = "accept" /\ remaining' > 0
        /\ child' \notin {"none", "exited"} => status' = 0
    BY <1>3, <1>a, <2>2, CloseTypes DEF ChildStep, AcceptRequest, RejectRequest, ReadShortRequest,
     ReadSilentRequest, SilentPeerCloses, StartReplies, CompleteRound, ReplyTimestamp, ReplyRaises,
     FinishReplies, WriteError, LinkError, LinkErrorFails, ChildExits, Accepting, Processes
  <2> QED BY <2>1, <2>2, <2>3 DEF Processes
<1>4. CASE HelperStep \/ NameserverDies \/ WatchdogTimeout \/ RemoveFlagFails \/ NotifyError
  BY <1>4, <1>a DEF HelperStep, GiveTimestamp, ReadFlag, RemoveFlag, NameserverDies,
     WatchdogTimeout, WatchdogHandler, RemoveFlagFails, NotifyError, parentVars, watchdogVars,
     childVars, Processes, Exited
<1>5. CASE \E c \in Containers : ContainerStep(c) \/ ContainerLost(c)
  BY <1>5, <1>a DEF ContainerStep, InitializeTiming, PatWatchdog, clientVars, ForkWorkers,
     MainReapsWorkers, FailTimesOut, ContainerLost, parentVars, watchdogVars, childVars,
     Processes
<1>6. CASE \E w \in Workers : WorkerStep(w) \/ WorkloadRaises(w) \/ WorkerKilled(w)
  BY <1>6, <1>a DEF WorkerStep, SyncToController, ReportResults, FailTimesOut, WorkloadRaises,
     WorkerKilled, parentVars, watchdogVars, childVars, Processes
<1>7. CASE \E p \in Clients, cmd \in {"tnet", "sync", "rslt"} : ConnectionReset(p, cmd)
  BY <1>7, <1>a DEF ConnectionReset, parentVars, watchdogVars, childVars, clientVars, Processes
<1> QED BY <1>1, <1>2, <1>3, <1>4, <1>5, <1>6, <1>7 DEF Next, FaultStep

---------------------------------------------------------------------------
(***************************************************************************)
(* What the end of a round means: it takes a request from every worker,    *)
(* because the rounds after the first accept that many distinct workers.   *)
(***************************************************************************)
LEMMA FullRound ==
  ASSUME IInv, CompleteRound
  PROVE  /\ accepted = Workers /\ peer = None
         /\ \/ /\ command = "sync" /\ status' = 0
               /\ \A w \in Workers : called[w] = passed[w] + 1
            \/ /\ command = "rslt" /\ status' = 2 /\ CompleteResults(slots)
               /\ \A w \in Workers : called[w] = passed[w] /\ wstate[w] \in Settled
<1>a. /\ TypeOK /\ NetInv /\ RoundMatches /\ FirstRound /\ Processes
      /\ child = "accept" /\ remaining = 0 /\ command # "tnet"
  BY DEF IInv, CompleteRound
<1>1. Cardinality(accepted) = RoundSize /\ IsFiniteSet(accepted)
  <2>1. IsFiniteSet(Clients)
    BY FS_Union, PopulationAssumption DEF Clients
  <2>2. IsFiniteSet(accepted)
    BY <2>1, <1>a, FS_Subset DEF TypeOK
  <2> QED BY <2>2, <1>a, FS_CardinalityType, Counts DEF RoundMatches
<1>2. accepted # {}
  BY <1>1, Counts, FS_EmptySet
<1>3. command \in {"sync", "rslt"} /\ accepted \subseteq Workers
  BY <1>2, <1>a DEF RoundMatches, TypeOK, Commands
<1>4. ~firstPass
  <2> SUFFICES ASSUME firstPass PROVE FALSE
    OBVIOUS
  <2>1. PICK w \in accepted : w \in Workers
    BY <1>2, <1>3
  <2>2. wstate[w] = "off"
    BY <2>1, <1>a DEF FirstRound, Processes
  <2> QED BY <2>1, <2>2, <1>a DEF NetInv, IdleClients, Unheard
<1>5. accepted = Workers
  BY <1>1, <1>3, <1>4, FS_Subset, PopulationAssumption, CountAssumption DEF RoundSize
<1>6. peer = None
  BY <1>a DEF Processes
<1>7. status' = IF command = "rslt" THEN 2 ELSE 0
  BY DEF CompleteRound, ChildExits
<1> QED BY <1>a, <1>3, <1>5, <1>6, <1>7 DEF RoundMatches, CompleteResults

\* Closing the connections of no client releases nobody.
LEMMA QuietClose ==
  ASSUME TypeOK, CloseConnections, accepted = {}, peer = None
  PROVE  passed' = passed
<1>1. None \notin Workers
  BY NoneAssumption DEF Clients
<1>2. passed' = [w \in Workers |-> passed[w]]
  BY <1>1 DEF CloseConnections
<1> QED BY <1>2 DEF TypeOK

LEMMA SameRoundsPreserved ==
  ASSUME IInv, [Next]_vars
  PROVE  SameRounds'
<1> SUFFICES ASSUME Intact' PROVE \A v, w \in Workers : passed'[v] = passed'[w]
  BY DEF SameRounds
<1>a. TypeOK /\ Processes /\ SameRounds BY DEF IInv
<1>1. CASE StartRound
  BY <1>1, <1>a DEF StartRound, Processes, SameRounds, Intact, clientVars
<1>2. CASE CompleteRound
  BY <1>2, <1>a, FullRound DEF CompleteRound, ChildExits, CloseConnections, SameRounds, Intact,
     parentVars, Processes, TypeOK
<1>3. CASE FinishReplies
  <2>1. passed' = passed
    BY <1>3, <1>a, QuietClose DEF FinishReplies, ChildExits, Processes
  <2>2. Intact
    BY <1>3, <1>a DEF FinishReplies, Intact, parentVars, Processes
  <2> QED BY <2>1, <2>2, <1>a DEF SameRounds
<1>4. CASE Intact /\ passed' = passed
  BY <1>4, <1>a DEF SameRounds
\* The other steps that close connections are failures.
<1>5. \/ StartRound \/ CompleteRound \/ FinishReplies
      \/ Intact /\ passed' = passed
  <2>1. CASE UNCHANGED vars
    BY <2>1 DEF vars, parentVars, childVars, clientVars, Intact
  <2>2. CASE ParentStep
    BY <2>2 DEF ParentStep, GetControllerTiming, Reap, Fatal, GatherResults,
       PublishResults, FinishExit, ParentExits, parentVars, childVars, clientVars, Intact
  <2>3. CASE ChildStep
    BY <2>3, <1>a DEF ChildStep, AcceptRequest, RejectRequest, ReadShortRequest, ReadSilentRequest,
       SilentPeerCloses, StartReplies, ReplyTimestamp, ReplyRaises, WriteError, LinkError,
       LinkErrorFails, ChildExits, parentVars, childVars, clientVars, Intact
  <2>4. CASE HelperStep \/ NameserverDies \/ WatchdogTimeout \/ RemoveFlagFails \/ NotifyError
    BY <2>4 DEF HelperStep, GiveTimestamp, ReadFlag, RemoveFlag, NameserverDies,
       WatchdogTimeout, WatchdogHandler, RemoveFlagFails, NotifyError, parentVars, childVars,
       clientVars, Intact, Exited
  <2>5. CASE \E c \in Containers : ContainerStep(c) \/ ContainerLost(c)
    BY <2>5 DEF ContainerStep, InitializeTiming, PatWatchdog, clientVars, ForkWorkers,
       MainReapsWorkers, FailTimesOut, ContainerLost, parentVars, childVars, Intact
  <2>6. CASE \E w \in Workers : WorkerStep(w) \/ WorkloadRaises(w) \/ WorkerKilled(w)
    BY <2>6 DEF WorkerStep, SyncToController, ReportResults, FailTimesOut, WorkloadRaises,
       WorkerKilled, parentVars, childVars, Intact
  <2>7. CASE \E p \in Clients, cmd \in {"tnet", "sync", "rslt"} : ConnectionReset(p, cmd)
    BY <2>7 DEF ConnectionReset, parentVars, childVars, clientVars, Intact
  <2> QED BY <2>1, <2>2, <2>3, <2>4, <2>5, <2>6, <2>7 DEF Next, FaultStep
<1> QED BY <1>1, <1>2, <1>3, <1>4, <1>5

\* Only closed connections let a worker pass a synchronization.
LEMMA PassedCases ==
  ASSUME [Next]_vars
  PROVE  passed' = passed \/ CloseConnections
<1>1. CASE NetQuiet \/ Closing \/ StartRound \/ SilentPeerCloses
  BY <1>1 DEF NetQuiet, Closing, StartRound, SilentPeerCloses, clientVars
<1>2. CASE \E m \in backlog : AcceptRequest(m) \/ RejectRequest(m) \/ ReadSilentRequest(m)
  BY <1>2 DEF AcceptRequest, RejectRequest, ReadSilentRequest, clientVars
<1>3. CASE \E c \in Containers : ReplyTimestamp(c) \/ ContainerStep(c) \/ ContainerLost(c)
  BY <1>3 DEF ReplyTimestamp, ContainerStep, InitializeTiming, PatWatchdog, clientVars,
     ForkWorkers, MainReapsWorkers, FailTimesOut, ContainerLost
<1>4. CASE \E w \in Workers : WorkerStep(w) \/ WorkloadRaises(w) \/ WorkerKilled(w)
  BY <1>4 DEF WorkerStep, SyncToController, ReportResults, FailTimesOut, WorkloadRaises,
     WorkerKilled
<1>5. CASE \E p \in Clients, cmd \in {"tnet", "sync", "rslt"} : ConnectionReset(p, cmd)
  BY <1>5 DEF ConnectionReset, clientVars
<1> QED BY <1>1, <1>2, <1>3, <1>4, <1>5, NetCases

\* Results are stored only by a child that accepts requests.
LEMMA RoundSlots ==
  ASSUME [Next]_vars, child # "accept"
  PROVE  slots' = slots
<1>1. CASE UNCHANGED vars
  BY <1>1 DEF vars, fileVars
<1>2. CASE ParentStep
  BY <1>2 DEF ParentStep, GetControllerTiming, StartRound, Reap, Fatal,
     GatherResults, PublishResults, FinishExit, ParentExits, fileVars
<1>3. CASE ChildStep
  BY <1>3 DEF ChildStep, AcceptRequest, Accepting, RejectRequest, ReadShortRequest,
     ReadSilentRequest, SilentPeerCloses, StartReplies, CompleteRound, ReplyTimestamp, ReplyRaises,
     FinishReplies, WriteError, LinkError, LinkErrorFails, fileVars
<1>4. CASE HelperStep \/ FaultStep
  BY <1>4 DEF HelperStep, GiveTimestamp, ReadFlag, RemoveFlag, FaultStep, NameserverDies,
     WatchdogTimeout, RemoveFlagFails, NotifyError, WorkloadRaises, WorkerKilled, ContainerLost,
     ConnectionReset, fileVars
<1>5. CASE \/ \E c \in Containers : ContainerStep(c)
           \/ \E w \in Workers : WorkerStep(w)
  BY <1>5 DEF ContainerStep, InitializeTiming, PatWatchdog, clientVars, ForkWorkers,
     MainReapsWorkers, WorkerStep, SyncToController, ReportResults, FailTimesOut, fileVars
<1> QED BY <1>1, <1>2, <1>3, <1>4, <1>5 DEF Next

LEMMA CollectedPreserved ==
  ASSUME IInv, [Next]_vars
  PROVE  Collected'
<1>a. TypeOK /\ NetInv /\ Processes /\ Collected BY DEF IInv
<1> SUFFICES ASSUME status' = 2
             PROVE  /\ CompleteResults(slots)'
                    /\ \A v, w \in Workers : passed'[v] = called'[w]
                    /\ \A w \in Workers : wstate'[w] \in Settled
  BY DEF Collected
\* The barriers were intact up to the round of results: everyone passed as many.
<1>1. CASE CompleteRound
  <2>1. /\ accepted = Workers /\ CompleteResults(slots)
        /\ \A w \in Workers : called[w] = passed[w] /\ wstate[w] \in Settled
    BY <1>1, FullRound
  <2>2. Intact
    BY <1>1, <1>a DEF CompleteRound, Processes, Exited, Intact
  <2>3. \A v, w \in Workers : passed[v] = passed[w]
    BY <2>2 DEF IInv, SameRounds
  <2>4. passed' = passed /\ called' = called
    BY <1>1, <2>1, <1>a DEF CompleteRound, ChildExits, CloseConnections, TypeOK
  <2>5. \A w \in Workers : wstate'[w] \in Settled
    BY <2>1, SettledStays
  <2>6. CompleteResults(slots)'
    BY <1>1, <2>1 DEF CompleteRound, CompleteResults, fileVars
  <2> QED BY <2>1, <2>3, <2>4, <2>5, <2>6
\* Later on the child is gone, so that nothing is stored and nobody released.
<1>2. CASE status = 2
  <2>1. child \in {"none", "exited"} /\ accepted = {} /\ peer = None
    BY <1>2, <1>a DEF Processes
  <2>2. slots' = slots
    BY <1>2, <2>1, RoundSlots
  <2>3. passed' = passed
    BY <2>1, <1>a, QuietClose, PassedCases
  <2>4. \A w \in Workers : wstate'[w] \in Settled /\ called'[w] = called[w]
    BY <1>2, <1>a, SettledStays DEF Collected
  <2> QED BY <1>2, <2>2, <2>3, <2>4, <1>a DEF Collected, CompleteResults
<1>3. CompleteRound \/ status = 2
  <2>1. CASE UNCHANGED vars
    BY <2>1 DEF vars, childVars
  <2>2. CASE ParentStep
    BY <2>2 DEF ParentStep, GetControllerTiming, StartRound, Reap, Fatal,
       GatherResults, PublishResults, FinishExit, ParentExits, childVars
  <2>3. CASE ChildStep
    BY <2>3 DEF ChildStep, AcceptRequest, RejectRequest, ReadShortRequest, ReadSilentRequest,
       SilentPeerCloses, StartReplies, ReplyTimestamp, ReplyRaises, FinishReplies, WriteError,
       LinkError, LinkErrorFails, ChildExits
  <2>4. CASE HelperStep \/ FaultStep
    BY <2>4 DEF HelperStep, GiveTimestamp, ReadFlag, RemoveFlag, FaultStep, NameserverDies,
       WatchdogTimeout, RemoveFlagFails, NotifyError, WorkloadRaises, WorkerKilled, ContainerLost,
       ConnectionReset, childVars
  <2>5. CASE \/ \E c \in Containers : ContainerStep(c)
             \/ \E w \in Workers : WorkerStep(w)
    BY <2>5 DEF ContainerStep, InitializeTiming, PatWatchdog, clientVars, ForkWorkers,
       MainReapsWorkers, WorkerStep, SyncToController, ReportResults, FailTimesOut, childVars
  <2> QED BY <2>1, <2>2, <2>3, <2>4, <2>5 DEF Next
<1> QED BY <1>1, <1>2, <1>3

LEMMA PublishedPreserved ==
  ASSUME IInv, [Next]_vars
  PROVE  Published'
<1>a. TypeOK /\ Processes /\ Collected /\ Published BY DEF IInv
<1> SUFFICES ASSUME watchdog' # "fired" PROVE Published'
  BY DEF Published
<1>1. CASE UNCHANGED vars
  BY <1>1, <1>a DEF vars, parentVars, fileVars, watchdogVars, helperVars, Published, CompleteResults
<1>2. CASE ParentStep
  <2>1. CASE GetControllerTiming \/ StartRound
    BY <2>1, <1>a DEF GetControllerTiming, StartRound, fileVars, watchdogVars, helperVars,
       Published, CompleteResults
  <2>2. CASE Reap
    BY <2>2, <1>a DEF Reap, AfterRound, fileVars, watchdogVars, helperVars, Published,
       CompleteResults
  <2>3. CASE GatherResults
    BY <2>3, <1>a DEF GatherResults, childVars, watchdogVars, Processes, Collected, helperVars,
       Published, CompleteResults
  <2>4. CASE PublishResults
    BY <2>4, <1>a DEF PublishResults, watchdogVars, helperVars, Published, CompleteResults
  <2>5. CASE Fatal \/ FinishExit
    BY <2>5, <1>a DEF Fatal, FinishExit, FlagRemoved, ParentExits, fileVars, watchdogVars,
       helperVars, Published, CompleteResults
  <2> QED BY <1>2, <2>1, <2>2, <2>3, <2>4, <2>5 DEF ParentStep
\* A child is at work only before there are results to publish.
<1>3. CASE ChildStep
  <2>1. /\ child \notin {"none", "exited"}
        /\ parent' = parent /\ watchdog' = watchdog
        /\ UNCHANGED <<gathered, flag, fetched>>
    BY <1>3, <1>a DEF ChildStep, AcceptRequest, RejectRequest, ReadShortRequest,
       ReadSilentRequest, SilentPeerCloses, StartReplies, CompleteRound, ReplyTimestamp,
       ReplyRaises, FinishReplies, WriteError, LinkError, LinkErrorFails, Accepting, parentVars,
       fileVars, watchdogVars, helperVars
  <2>2. parent \notin {"publish", "flagwait", "exit0"}
    BY <2>1, <1>a DEF Processes
  <2> QED BY <2>1, <2>2, <1>a DEF Published, CompleteResults
<1>4. CASE HelperStep
  BY <1>4, <1>a DEF HelperStep, GiveTimestamp, ReadFlag, RemoveFlag, parentVars, fileVars,
     watchdogVars, Published, CompleteResults
<1>5. CASE FaultStep
  BY <1>5, <1>a DEF FaultStep, NameserverDies, WatchdogTimeout, RemoveFlagFails, NotifyError,
     WorkloadRaises, WorkerKilled, ContainerLost, ConnectionReset, parentVars, fileVars,
     watchdogVars, helperVars, Published, CompleteResults
<1>6. CASE \/ \E c \in Containers : ContainerStep(c)
           \/ \E w \in Workers : WorkerStep(w)
  BY <1>6, <1>a DEF ContainerStep, InitializeTiming, PatWatchdog, clientVars, ForkWorkers,
     MainReapsWorkers, WorkerStep, SyncToController, ReportResults, FailTimesOut, parentVars,
     fileVars, watchdogVars, helperVars, Published, CompleteResults
<1> QED BY <1>1, <1>2, <1>3, <1>4, <1>5, <1>6 DEF Next

---------------------------------------------------------------------------
(***************************************************************************)
(* The invariant holds initially and every step of the code preserves it.  *)
(***************************************************************************)
LEMMA InitIInv == Init => IInv
<1> SUFFICES ASSUME Init PROVE IInv
  OBVIOUS
<1>1. TypeOK
  <2>1. slots \in Results /\ gathered \in Results
    BY DEF Init, Results
  <2>2. cstate \in [Containers -> ContainerStates] /\ wstate \in [Workers -> WorkerStates]
    BY DEF Init, ContainerStates, WorkerStates
  <2>3. called \in [Workers -> Nat] /\ passed \in [Workers -> Nat]
    BY DEF Init
  <2>4. /\ accepted \subseteq Clients /\ backlog \subseteq Requests
        /\ peer \in Clients \cup {None} /\ (peer # None => child = "accept" /\ remaining > 0)
        /\ flag \in Results \cup {None}
        /\ fetched \in Results \cup {None} /\ command \in Commands \cup {"none"}
    BY DEF Init
  <2>5. /\ parent \in ParentStates /\ child \in ChildStates /\ status \in 0 .. 2
        /\ remaining \in Nat /\ watchdog \in {"armed", "fired"} /\ watched \subseteq Containers
        /\ helper \in {"timing", "lost", "poll", "read", "done"}
    BY DEF Init, ParentStates, ChildStates
  <2>6. firstPass \in BOOLEAN /\ tmpError \in BOOLEAN /\ error \in BOOLEAN
    BY Zenon DEF Init
  <2> QED BY <2>1, <2>2, <2>3, <2>4, <2>5, <2>6 DEF TypeOK
<1>2. NetInv
  BY PopulationAssumption, NoneAssumption DEF Init, NetInv, OneRequest, HeldRequest, IdleClients,
     Unheard, RequestsMatch, CallsMatch, WorkersOff, Clients
<1>3. RoundMatches /\ FirstRound /\ Processes
  BY DEF Init, RoundMatches, FirstRound, Processes, Exited
<1>4. SameRounds /\ Collected /\ Published
  BY DEF Init, SameRounds, Collected, Published
<1> QED BY <1>1, <1>2, <1>3, <1>4 DEF IInv

(***************************************************************************)
(* The inductive invariant: what the requests on their way and the         *)
(* connections the child holds say about the clients that sent them, and   *)
(* where the rounds, the collected and the published results stand.        *)
(***************************************************************************)
THEOREM Invariance == Spec => []IInv
<1>1. IInv /\ [Next]_vars => IInv'
  <2> SUFFICES ASSUME IInv, [Next]_vars PROVE IInv'
    OBVIOUS
  <2> QED BY TypePreserved, NetPreserved, RoundPreserved, FirstRoundPreserved, ProcessesPreserved,
          SameRoundsPreserved, CollectedPreserved, PublishedPreserved DEF IInv
<1> QED BY <1>1, InitIInv, PTL DEF Spec

(***************************************************************************)
(* The variables of the sync pod, its clients and the controller's helper  *)
(* keep to the states the code gives them (sync.py, cb_util.py,            *)
(* clusterbuster_pod_client.py, driver/sync.py).                           *)
(***************************************************************************)
THEOREM TypeCorrect == Spec => []TypeOK
<1>1. IInv => TypeOK
  BY DEF IInv
<1> QED BY <1>1, Invariance, PTL

(***************************************************************************)
(* The barrier: in a sync pod that is intact no worker is released from    *)
(* its k-th synchronization before every worker has asked for its own k-th *)
(* (sync_one, sync.py:382-462), whatever the failures.                     *)
(***************************************************************************)
THEOREM BarrierSafe == Spec => []BarrierSafety
<1>1. IInv => BarrierSafety
  <2> SUFFICES ASSUME IInv, Intact, NEW v \in Workers, NEW w \in Workers
               PROVE  passed[v] <= called[w]
    BY DEF BarrierSafety
  <2>1. passed[v] = passed[w] BY DEF IInv, SameRounds
  <2>2. passed[w] <= called[w] BY DEF IInv, NetInv, CallsMatch
  <2> QED BY <2>1, <2>2
<1> QED BY <1>1, Invariance, PTL

(***************************************************************************)
(* Without a watchdog timeout, results the controller can read or has read *)
(* are those of every worker, all have passed the same number of           *)
(* synchronizations, and no failure was recorded (finish, sync.py:476).    *)
(***************************************************************************)
THEOREM ResultsComplete == Spec => []PublishedComplete
<1>1. IInv => PublishedComplete
  <2> SUFFICES ASSUME IInv, watchdog # "fired", NEW data \in {flag, fetched} \ {None}
               PROVE  /\ CompleteResults(data)
                      /\ \A v, w \in Workers : passed[v] = called[w]
                      /\ ~tmpError
    BY DEF PublishedComplete
  <2>1. CompleteResults(data) /\ parent \in {"flagwait", "exit0"}
    BY DEF IInv, Published
  <2>2. ~tmpError BY <2>1 DEF IInv, Published
  <2>3. status = 2 BY <2>1 DEF IInv, Processes
  <2> QED BY <2>1, <2>2, <2>3 DEF IInv, Collected
<1> QED BY <1>1, Invariance, PTL

(***************************************************************************)
(* What the controller's helper has read, and what the sync pod still      *)
(* holds.                                                                  *)
(***************************************************************************)
Fetches ==
  /\ helper \in {"read", "done"} => fetched # None
  /\ parent = "flagwait" /\ flag = None => fetched # None
  /\ parent = "exit0" => fetched # None
  /\ watchdog # "fired" /\ helper = "read" => fetched = flag

LEMMA FetchesPreserved ==
  ASSUME IInv, Fetches, [Next]_vars
  PROVE  Fetches'
<1>a. TypeOK /\ Published BY DEF IInv
<1>1. CASE UNCHANGED vars
  BY <1>1 DEF vars, parentVars, fileVars, watchdogVars, helperVars, Fetches
<1>2. CASE ParentStep
  <2>1. CASE GetControllerTiming \/ StartRound \/ GatherResults
    BY <2>1 DEF GetControllerTiming, StartRound, GatherResults, fileVars, watchdogVars, helperVars,
       Fetches
  <2>2. CASE Reap
    BY <2>2 DEF Reap, AfterRound, fileVars, watchdogVars, helperVars, Fetches
  <2>3. CASE PublishResults
    <3>1. flag' # None
      BY <2>3, <1>a, NoneAssumption DEF PublishResults, TypeOK
    <3>2. watchdog # "fired" => helper # "read"
      BY <2>3, <1>a DEF PublishResults, Published, Fetches
    <3> QED BY <2>3, <3>1, <3>2 DEF PublishResults, watchdogVars, helperVars, Fetches
  <2>4. CASE Fatal \/ FinishExit
    BY <2>4 DEF Fatal, FinishExit, FlagRemoved, ParentExits, fileVars, watchdogVars, helperVars,
       Fetches
  <2> QED BY <1>2, <2>1, <2>2, <2>3, <2>4 DEF ParentStep
<1>3. CASE ChildStep
  BY <1>3 DEF ChildStep, AcceptRequest, RejectRequest, ReadShortRequest, ReadSilentRequest,
     SilentPeerCloses, StartReplies, CompleteRound, ReplyTimestamp, ReplyRaises, FinishReplies,
     WriteError, LinkError, LinkErrorFails, parentVars, fileVars, watchdogVars, helperVars, Fetches
<1>4. CASE HelperStep
  BY <1>4 DEF HelperStep, GiveTimestamp, ReadFlag, RemoveFlag, Validated, parentVars, fileVars,
     watchdogVars, Fetches, Exited
<1>5. CASE FaultStep
  BY <1>5 DEF FaultStep, NameserverDies, WatchdogTimeout, WatchdogHandler, RemoveFlagFails,
     NotifyError, WorkloadRaises, WorkerKilled, ContainerLost, ConnectionReset, parentVars,
     fileVars, watchdogVars, helperVars, Fetches
<1>6. CASE \/ \E c \in Containers : ContainerStep(c)
           \/ \E w \in Workers : WorkerStep(w)
  BY <1>6 DEF ContainerStep, InitializeTiming, PatWatchdog, clientVars, ForkWorkers,
     MainReapsWorkers, WorkerStep, SyncToController, ReportResults, FailTimesOut, parentVars,
     fileVars, watchdogVars, helperVars, Fetches
<1> QED BY <1>1, <1>2, <1>3, <1>4, <1>5, <1>6 DEF Next

LEMMA FetchesInvariant == Spec => []Fetches
<1>1. Init => Fetches
  BY DEF Init, Fetches
<1>2. IInv /\ Fetches /\ [Next]_vars => Fetches'
  BY FetchesPreserved
<1> QED BY <1>1, <1>2, Invariance, PTL DEF Spec

(***************************************************************************)
(* The sync pod's parent exits with success only once the controller holds *)
(* results, even when a watchdog timeout makes it publish them again       *)
(* (log_helper reads, validates, then removes the flag file:               *)
(* driver/sync.py:131-138).                                                *)
(***************************************************************************)
THEOREM ExitAfterRead == Spec => []ReadBeforeExit
<1>1. Fetches => ReadBeforeExit
  BY DEF Fetches, ReadBeforeExit
<1> QED BY <1>1, FetchesInvariant, PTL

(***************************************************************************)
(* Without a watchdog timeout the results that disappear from the sync pod *)
(* are exactly those the controller has read: the helper validates what it *)
(* read before it removes the flag file, and nothing rewrites the file in  *)
(* between (log_helper, driver/sync.py:131-138).                           *)
(***************************************************************************)
THEOREM RemovalAfterRead == Spec => RemovesOnlyRead
<1>1. IInv /\ Fetches /\ [Next]_vars =>
        [flag # None /\ flag' = None /\ watchdog # "fired" => fetched = flag]_vars
  <2> SUFFICES ASSUME IInv, Fetches, Next, flag # None, flag' = None, watchdog # "fired"
               PROVE  fetched = flag
    BY DEF vars, fileVars
  <2>1. CASE RemoveFlag
    BY <2>1 DEF RemoveFlag, Validated, Fetches
  <2>2. CASE PublishResults
    BY <2>2, NoneAssumption DEF PublishResults, IInv, TypeOK
  <2>3. RemoveFlag \/ PublishResults
    BY DEF Next, ParentStep, GetControllerTiming, StartRound, Reap, Fatal, GatherResults,
       FinishExit, ParentExits, ChildStep, AcceptRequest, RejectRequest, ReadShortRequest,
       ReadSilentRequest, SilentPeerCloses, StartReplies, CompleteRound, ReplyTimestamp,
       ReplyRaises, FinishReplies, WriteError, LinkError, LinkErrorFails, HelperStep,
       GiveTimestamp, ReadFlag, FaultStep, NameserverDies, WatchdogTimeout, RemoveFlagFails,
       NotifyError, WorkloadRaises, WorkerKilled, ContainerLost, ConnectionReset, ContainerStep,
       InitializeTiming, PatWatchdog, clientVars, ForkWorkers, MainReapsWorkers, WorkerStep,
       SyncToController, ReportResults, FailTimesOut, fileVars
  <2> QED BY <2>1, <2>2, <2>3
<1> QED BY <1>1, Invariance, FetchesInvariant, PTL DEF Spec, RemovesOnlyRead

=============================================================================
