--------------------------- MODULE CiSuiteProofs ---------------------------
(***************************************************************************)
(* The invariants of CiSuite and its theorems, for every plan, any number  *)
(* of invocations, and any number of drivers that fail or are orphaned.    *)
(***************************************************************************)
EXTENDS CiSuite, SequenceTheorems, FiniteSetTheorems, TLAPS

---------------------------------------------------------------------------

(* Types. *)

\* Directories are known by their names and suffixes.
LEMMA Places ==
  ASSUME NEW n \in Names, NEW k \in Nat
  PROVE  /\ Of(n) \in Directories /\ Tmp(n) \in Directories /\ Fail(n, k) \in Directories
         /\ Of(n).suffix = "" /\ Tmp(n).suffix = ".tmp" /\ Fail(n, k).suffix = ".FAIL"
         /\ Of(n).name = n /\ Tmp(n).name = n /\ Fail(n, k).name = n
BY DEF Of, Tmp, Fail, Directories

LEMMA CurrentName == ASSUME CallOK, at.plugin \in Plugins PROVE Current \in Names
BY DEF CallOK, Current, Names

LEMMA PlanJobs == ASSUME NEW p \in Plugins PROVE Plan[p].jobs \in Nat \ {0}
<1>1. Plan[p] \in [workload : Workloads, jobs : Nat \ {0}]
  BY PlanAssumption, ElementOfSeq DEF Plugins
<1> QED BY <1>1

LEMMA PluginsNat == Len(Plan) \in Nat /\ Plugins \subseteq Nat \ {0}
BY PlanAssumption DEF Plugins

LEMMA NextJob ==
  ASSUME CallOK, at.plugin \in Plugins, NEW st
  PROVE  /\ After(st) \in [plugin : Nat \ {0}, job : Nat \ {0}]
         /\ After(st).plugin \in Plugins => After(st).job <= Plan[After(st).plugin].jobs
<1>1. at.plugin \in Nat \ {0} /\ at.job \in Nat \ {0} /\ at.job <= Plan[at.plugin].jobs
  BY DEF CallOK
<1>2. Plan[at.plugin].jobs \in Nat \ {0}
  BY PlanJobs
<1>3. CASE Stops(st) \/ at.job = Plan[at.plugin].jobs
  <2>1. After(st) = [plugin |-> at.plugin + 1, job |-> 1]
    BY <1>3 DEF After
  <2>2. at.plugin + 1 \in Plugins => 1 <= Plan[at.plugin + 1].jobs
    BY PlanJobs
  <2> QED BY <1>1, <2>1, <2>2
<1>4. CASE ~(Stops(st) \/ at.job = Plan[at.plugin].jobs)
  <2>1. After(st) = [at EXCEPT !.job = @ + 1]
    BY <1>4 DEF After
  <2>2. at \in [plugin : Nat \ {0}, job : Nat \ {0}]
    BY DEF CallOK
  <2> QED BY <1>1, <1>2, <1>4, <2>1, <2>2
<1> QED BY <1>3, <1>4

LEMMA TreeWith ==
  ASSUME TreeOK, NEW d \in Directories, NEW content \in Contents,
         dirs' = With(d, content), UNCHANGED results
  PROVE  TreeOK'
BY DEF TreeOK, With

LEMMA TreeMinus == ASSUME TreeOK, NEW d, dirs' = Minus(d), UNCHANGED results PROVE TreeOK'
BY DEF TreeOK, Minus

LEMMA TreeMoved ==
  ASSUME TreeOK, NEW d \in DOMAIN dirs, NEW to \in Directories, dirs' = Moved(d, to), UNCHANGED results
  PROVE  TreeOK'
BY DEF TreeOK, Moved

LEMMA TreeSame == ASSUME TreeOK, UNCHANGED treeVars PROVE TreeOK'
BY DEF TreeOK, treeVars

LEMMA SuiteType == ASSUME TypeOK, Suite PROVE TypeOK'
<1> USE DEF TypeOK
<1>0. at.plugin \in Plugins => Current \in Names
  BY CurrentName
<1>1. CASE Abort
  <2>1. CallOK'
    BY <1>1, NextJob DEF Abort, AtJob, CallOK, callVars
  <2> QED BY <1>1, <2>1, TreeSame DEF Abort, AtJob, DriverOK, HistoryOK, historyVars, CallOK
<1>2. CASE Skip
  BY <1>2, TreeSame DEF Skip, AtJob, CallOK, callVars, Phases, DriverOK, HistoryOK, historyVars
<1>3. CASE BeginRemoval
  <2>1. TreeOK'
    <3> DEFINE d == Of(Current)
    <3>1. PICK left \in {"none", dirs[d].report} :
            dirs' = [dirs EXCEPT ![d].whole = FALSE, ![d].report = left]
      BY <1>3 DEF BeginRemoval
    <3>2. d \in DOMAIN dirs
      BY <1>3 DEF BeginRemoval, Finished, IsReportDir, Exists
    <3>3. dirs[d] \in Contents /\ left \in {"none", "broken", "Success", "Failure"}
      BY <3>2 DEF TreeOK, Contents
    <3>4. DOMAIN dirs' = DOMAIN dirs /\ \A e \in DOMAIN dirs : e # d => dirs'[e] = dirs[e]
      BY <3>1
    <3>5. dirs'[d] = [dirs[d] EXCEPT !.whole = FALSE, !.report = left]
      BY <3>1, <3>2
    <3>6. dirs'[d] \in Contents
      BY <3>3, <3>5 DEF Contents
    <3>7. results' = results
      BY <1>3 DEF BeginRemoval
    <3> HIDE DEF d
    <3> QED BY <3>4, <3>6, <3>7 DEF TreeOK
  <2> QED BY <1>3, <2>1 DEF BeginRemoval, AtJob, CallOK, callVars, jobVars, Phases, DriverOK,
          HistoryOK, historyVars
<1>4. CASE EndRemoval
  <2>1. TreeOK'
    BY <1>4, TreeMinus DEF EndRemoval
  <2> QED BY <1>4, <2>1 DEF EndRemoval, CallOK, callVars, jobVars, Phases, DriverOK, HistoryOK,
          historyVars
<1>5. CASE Unfinished
  BY <1>5, TreeSame DEF Unfinished, AtJob, CallOK, callVars, jobVars, Phases, DriverOK,
     HistoryOK, historyVars
<1>6. CASE Launch
  <2>1. at.plugin \in Plugins
    BY <1>6 DEF Launch, CallOK
  <2>2. CallOK'
    BY <1>6, <2>1 DEF Launch, CallOK, callVars, jobVars, Phases
  <2>3. DriverOK'
    BY <1>6, <1>0, <2>1 DEF Launch, DriverOK, Drivers, Stages, CallOK
  <2> QED BY <1>6, <2>2, <2>3, TreeSame DEF Launch, HistoryOK, historyVars
<1>7. CASE Replace
  <2>1. TreeOK'
    BY <1>7, TreeMinus DEF Replace
  <2>2. Tmp(Current) \in DOMAIN dirs' /\ Current' = Current
    <3>1. Tmp(Current) \in DOMAIN dirs BY <1>7 DEF Replace, DriverOK, Exists
    <3>2. Tmp(Current) # Of(Current) BY DEF Tmp, Of
    <3>3. Current' = Current BY <1>7 DEF Replace, jobVars, Current
    <3> QED BY <1>7, <3>1, <3>2, <3>3 DEF Replace, Minus
  <2> QED BY <1>7, <2>1, <2>2
          DEF Replace, CallOK, callVars, jobVars, DriverOK, HistoryOK, historyVars, Exists, Tmp
<1>8. CASE Save
  <2>1. at.plugin \in Plugins /\ Tmp(Current) \in DOMAIN dirs
    BY <1>8 DEF Save, CallOK, DriverOK, Exists
  <2>2. TreeOK'
    BY <1>8, <1>0, <2>1, Places, TreeMoved DEF Save
  <2> QED BY <1>8, <2>1, <2>2
          DEF Save, CallOK, callVars, jobVars, DriverOK, HistoryOK, historyVars, Phases
<1>9. CASE KeepFailed
  <2>1. at.plugin \in Plugins
    BY <1>9 DEF KeepFailed, CallOK
  <2>2. TreeOK'
    <3>1. CASE Exists(Tmp(Current))
      <4>1. PICK k \in 0 .. invocations : dirs' = Moved(Tmp(Current), Fail(Current, k))
        BY <1>9, <3>1 DEF KeepFailed
      <4>2. k \in Nat
        BY DEF HistoryOK
      <4> QED BY <1>9, <1>0, <2>1, <3>1, <4>1, <4>2, Places, TreeMoved DEF KeepFailed, Exists
    <3>2. CASE ~Exists(Tmp(Current))
      BY <1>9, <3>2, TreeSame DEF KeepFailed, treeVars
    <3> QED BY <3>1, <3>2
  <2> QED BY <1>9, <2>1, <2>2
          DEF KeepFailed, CallOK, callVars, jobVars, DriverOK, HistoryOK, historyVars, Phases
<1>10. CASE Record
  <2>1. at.plugin \in Plugins
    BY <1>10 DEF Record, CallOK
  <2>2. CallOK'
    <3>1. jobs' \subseteq Names /\ failures' \subseteq Names
      BY <1>10, <1>0, <2>1 DEF Record, CallOK
    <3>2. abort' \in BOOLEAN /\ counter' \in Nat
      BY <1>10 DEF Record, CallOK
    <3> QED BY <1>10, <2>1, <3>1, <3>2 DEF Record, CallOK, callVars, Phases
  <2> QED BY <1>10, <2>2, TreeSame DEF Record, DriverOK, HistoryOK, historyVars
<1>11. CASE Hook
  <2>1. at.plugin \in Plugins
    BY <1>11 DEF Hook, CallOK
  <2>2. TreeOK'
    BY <1>11 DEF Hook, TreeOK, Written, CallOK
  <2>3. CallOK'
    BY <1>11, <2>1, NextJob DEF Hook, CallOK, callVars, Phases
  <2> QED BY <1>11, <2>1, <2>2, <2>3 DEF Hook, DriverOK, HistoryOK
<1>12. CASE Finish
  <2>2. TreeOK'
    BY <1>12 DEF Finish, TreeOK, Written, CallOK
  <2> QED BY <1>12, <2>2 DEF Finish, CallOK, callVars, jobVars, Phases, DriverOK, HistoryOK,
          historyVars
<1>13. CASE RemovalFails
  <2>1. at.plugin \in Plugins BY <1>13 DEF RemovalFails, CallOK
  <2>2. HistoryOK' BY <1>0, <1>13, <2>1, BoundAssumption DEF RemovalFails, Faulty, HistoryOK,
          historyVars
  <2> QED BY <1>13, <2>2, TreeSame DEF RemovalFails, CallOK, callVars, jobVars, Phases, DriverOK
<1> QED BY <1>1, <1>2, <1>3, <1>4, <1>5, <1>6, <1>7, <1>8, <1>9, <1>10, <1>11, <1>12, <1>13
        DEF Suite


LEMMA RunningDrivers ==
  ASSUME DriverOK, NEW p \in Running
  PROVE  p \in Drivers /\ p # None /\ p.name \in Names /\ p.uuid \in Nat /\ p.stage \in Stages
<1>1. p \in Drivers BY DEF DriverOK, Running
<1> QED BY <1>1, NoneAssumption DEF Drivers

LEMMA TurnType ==
  ASSUME DriverOK, NEW p \in Running, NEW q \in Drivers, Turn(p, q), UNCHANGED driverRest,
         DOMAIN dirs \subseteq DOMAIN dirs'
  PROVE  DriverOK'
<1>1. pc' = pc /\ Current' = Current
  BY DEF driverRest, jobVars, Current
<1>2. IF pc' = "wait" THEN driver' \in Drivers ELSE driver' = None
  BY <1>1, RunningDrivers DEF DriverOK, Turn
<1>3. orphans' \subseteq Drivers
  BY DEF DriverOK, Turn
<1>4. pc' = "save" => Exists(Tmp(Current))'
  BY <1>1 DEF DriverOK, Exists, Tmp
<1> QED BY <1>2, <1>3, <1>4 DEF DriverOK

LEMMA StageDrivers ==
  ASSUME NEW p \in Drivers, NEW st \in Stages
  PROVE  [p EXCEPT !.stage = st] \in Drivers /\ [p EXCEPT !.stage = st].name = p.name
         /\ [p EXCEPT !.stage = st].uuid = p.uuid /\ [p EXCEPT !.stage = st].stage = st
BY DEF Drivers

\* What writing a report does to the artifact directory.
LEMMA ReportSteps ==
  ASSUME TypeOK, NEW p \in Running, Report(p)
  PROVE  \E outcome \in {"Success", "Failure"}, written \in {"all", "part", "none"} :
           /\ Turn(p, [p EXCEPT !.stage = outcome])
           /\ DOMAIN dirs' = DOMAIN dirs
           /\ \A d \in DOMAIN dirs : d # Tmp(p.name) => dirs'[d] = dirs[d]
           /\ Exists(Tmp(p.name)) =>
                /\ dirs'[Tmp(p.name)] \in Contents
                /\ dirs'[Tmp(p.name)].whole = dirs[Tmp(p.name)].whole
                /\ written # "none" =>
                     /\ dirs'[Tmp(p.name)].report = (IF written = "all" THEN outcome ELSE "broken")
                     /\ dirs'[Tmp(p.name)].uuid = p.uuid
                /\ written = "none" => dirs'[Tmp(p.name)] = dirs[Tmp(p.name)]
           /\ doubtful' = IF written = "all" THEN doubtful ELSE doubtful \cup {p.name}
           /\ outcome = "Success" /\ written = "all" => faults' = faults
           /\ faults' \in {faults, faults + 1} /\ (faults' = faults \/ faults < MaxFaults)
<1> DEFINE d == Tmp(p.name)
<1>1. PICK outcome \in {"Success", "Failure"}, written \in {"all", "part", "none"} :
       /\ Turn(p, [p EXCEPT !.stage = outcome])
       /\ IF outcome = "Success" /\ written = "all" THEN Faultless ELSE Faulty
       /\ dirs' = IF Exists(d) /\ written # "none"
                  THEN [dirs EXCEPT ![d].report = IF written = "all" THEN outcome ELSE "broken",
                                    ![d].uuid = p.uuid]
                  ELSE dirs
       /\ doubtful' = IF written = "all" THEN doubtful ELSE doubtful \cup {p.name}
  BY DEF Report
<1>2. outcome = "Success" /\ written = "all" => faults' = faults
  BY <1>1 DEF Faultless
<1>3. faults' \in {faults, faults + 1} /\ (faults' = faults \/ faults < MaxFaults)
  BY <1>1 DEF Faultless, Faulty
<1> DEFINE word == IF written = "all" THEN outcome ELSE "broken"
<1>4. CASE Exists(d) /\ written # "none"
  <2>1. dirs' = [dirs EXCEPT ![d].report = word, ![d].uuid = p.uuid]
    BY <1>1, <1>4
  <2>2. d \in DOMAIN dirs /\ dirs[d] \in Contents
    BY <1>4 DEF Exists, TypeOK, TreeOK
  <2>3. dirs'[d] = [dirs[d] EXCEPT !.report = word, !.uuid = p.uuid]
    BY <2>1, <2>2
  <2>4. word \in {"broken", "Success", "Failure"}
    OBVIOUS
  <2>5. p.uuid \in Nat
    BY RunningDrivers DEF TypeOK
  <2>6. DOMAIN dirs' = DOMAIN dirs /\ \A e \in DOMAIN dirs : e # d => dirs'[e] = dirs[e]
    BY <2>1
  <2> HIDE DEF d, word
  <2>7. /\ dirs'[d] \in Contents /\ dirs'[d].whole = dirs[d].whole
        /\ dirs'[d].report = word /\ dirs'[d].uuid = p.uuid
    BY <2>2, <2>3, <2>4, <2>5 DEF Contents
  <2> QED BY <1>1, <1>2, <1>3, <1>4, <2>6, <2>7 DEF d, word
<1>5. CASE ~(Exists(d) /\ written # "none")
  <2>1. dirs' = dirs
    BY <1>1, <1>5
  <2>2. Exists(d) => dirs'[d] \in Contents /\ written = "none"
    BY <1>5, <2>1 DEF TypeOK, TreeOK, Exists
  <2> QED BY <1>1, <1>2, <1>3, <1>5, <2>1, <2>2
<1> QED BY <1>4, <1>5

LEMMA RunningType ==
  ASSUME TypeOK, NEW p \in Running, MakeDirectory(p) \/ Report(p) \/ OrphanEnds(p)
  PROVE  TypeOK'
<1> USE DEF TypeOK
<1>0. p \in Drivers /\ p.name \in Names
  BY RunningDrivers
<1>1. UNCHANGED driverRest /\ CallOK'
  <2>1. UNCHANGED driverRest BY DEF MakeDirectory, Report, OrphanEnds
  <2> QED BY <2>1 DEF driverRest, CallOK, callVars, jobVars
<1>2. CASE MakeDirectory(p)
  <2>1. TreeOK' /\ DOMAIN dirs \subseteq DOMAIN dirs'
    <3>1. CASE Exists(Tmp(p.name))
      BY <1>1, <1>2, <3>1, TreeSame DEF MakeDirectory, driverRest, treeVars
    <3>2. CASE ~Exists(Tmp(p.name))
      <4>1. dirs' = With(Tmp(p.name), [report |-> "none", uuid |-> p.uuid, whole |-> TRUE])
        BY <1>2, <3>2 DEF MakeDirectory
      <4>2. [report |-> "none", uuid |-> p.uuid, whole |-> TRUE] \in Contents
        BY RunningDrivers DEF Contents
      <4>3. Tmp(p.name) \in Directories
        BY <1>0 DEF Tmp, Directories
      <4>4. results' = results
        BY <1>1 DEF driverRest
      <4>5. TreeOK'
        BY <4>1, <4>2, <4>3, <4>4, TreeWith
      <4>6. DOMAIN dirs \subseteq DOMAIN dirs'
        BY <4>1 DEF With
      <4> QED BY <4>5, <4>6
    <3> QED BY <3>1, <3>2
  <2>2. DriverOK'
    BY <1>0, <1>1, <1>2, <2>1, StageDrivers, TurnType DEF MakeDirectory, Stages
  <2> QED BY <1>1, <1>2, <2>1, <2>2 DEF MakeDirectory, driverRest, HistoryOK, historyVars
<1>3. CASE Report(p)
  <2>1. PICK outcome \in {"Success", "Failure"} :
          /\ Turn(p, [p EXCEPT !.stage = outcome])
          /\ DOMAIN dirs' = DOMAIN dirs
          /\ \A d \in DOMAIN dirs : d # Tmp(p.name) => dirs'[d] = dirs[d]
          /\ Exists(Tmp(p.name)) => dirs'[Tmp(p.name)] \in Contents
          /\ doubtful' \in {doubtful, doubtful \cup {p.name}}
          /\ faults' \in {faults, faults + 1} /\ (faults' = faults \/ faults < MaxFaults)
    BY <1>3, ReportSteps
  <2>2. TreeOK'
    BY <1>1, <2>1 DEF TreeOK, driverRest, Exists
  <2>3. DriverOK'
    BY <1>0, <1>1, <2>1, StageDrivers, TurnType DEF Stages
  <2>4. HistoryOK'
    BY <1>0, <1>1, <2>1, BoundAssumption DEF HistoryOK, driverRest, historyVars
  <2> QED BY <1>1, <2>2, <2>3, <2>4
<1>4. CASE OrphanEnds(p)
  <2>1. TreeOK'
    BY <1>1, <1>4, TreeSame DEF OrphanEnds, treeVars, driverRest
  <2>2. [p EXCEPT !.stage = "ended"] \in Drivers
    BY <1>0, StageDrivers DEF Stages
  <2>3. DriverOK'
    BY <1>1, <1>4, <2>2 DEF OrphanEnds, DriverOK, driverRest, jobVars, Current, Exists, Tmp
  <2> QED BY <1>1, <1>4, <2>1, <2>3 DEF OrphanEnds, driverRest, HistoryOK, historyVars
<1> QED BY <1>2, <1>3, <1>4

\* The suite waits for the driver of the job it is at, which has a directory once it runs.
Waits ==
  pc = "wait" => /\ driver.name = Current /\ driver.uuid = uuid
                 /\ driver.stage # "started" => Exists(Tmp(Current))

LEMMA ReturnType == ASSUME TypeOK, Waits, DriverReturns \/ DriverDies PROVE TypeOK'
<1> USE DEF TypeOK
<1>1. TreeOK' BY TreeSame DEF DriverReturns, DriverDies
<1>2. CallOK' BY DEF DriverReturns, DriverDies, CallOK, callVars, Phases
<1>3. DriverOK'
  <2>1. driver' = None /\ orphans' = orphans /\ pc' \in {"save", "keep"}
    BY DEF DriverReturns, DriverDies
  <2>2. pc' = "save" => Exists(Tmp(Current))'
    <3>1. pc' = "save" => pc = "wait" /\ driver.stage = "Success"
      BY DEF DriverReturns, DriverDies, Succeeded
    <3>2. dirs' = dirs /\ Current' = Current
      BY DEF DriverReturns, DriverDies, treeVars, Current
    <3> QED BY <3>1, <3>2 DEF Waits, Exists, Tmp
  <2> QED BY <2>1, <2>2 DEF DriverOK
<1>4. HistoryOK' BY BoundAssumption DEF DriverReturns, DriverDies, HistoryOK, historyVars, Faulty
<1> QED BY <1>1, <1>2, <1>3, <1>4

LEMMA OutsideType == ASSUME TypeOK, Invoke \/ Kill PROVE TypeOK'
<1> USE DEF TypeOK
<1>1. CASE Invoke
  <2>1. uuid' \in Nat
    <3>1. Recoverable \subseteq Nat
      BY DEF Recoverable, TreeOK, Contents, Readable, IsReportDir, Exists
    <3> QED BY <1>1, <3>1 DEF Invoke, Uuids, HistoryOK
  <2>2. CallOK'
    <3>1. 1 \in Plugins => 1 <= Plan[1].jobs
      BY PlanJobs
    <3>2. at' = [plugin |-> 1, job |-> 1] BY <1>1 DEF Invoke
    <3>3. at' \in [plugin : Nat \ {0}, job : Nat \ {0}] /\ at'.plugin = 1 /\ at'.job = 1 BY <3>2
    <3>4. at'.plugin \in Plugins => at'.job <= Plan[at'.plugin].jobs BY <3>1, <3>3
    <3>5. cfg' \in Configurations /\ pc' = "next" /\ counter' = 0 /\ jobs' = {} /\ failures' = {}
          /\ abort' = FALSE /\ status' = 0
      BY <1>1 DEF Invoke
    <3> QED BY <2>1, <3>3, <3>4, <3>5 DEF CallOK, Phases
  <2>3. DriverOK'
    BY <1>1 DEF Invoke, DriverOK
  <2>4. HistoryOK'
    <3>1. cfg'.restart \in BOOLEAN
      BY <2>2, ConfigurationAssumption DEF CallOK
    <3> QED BY <1>1, <3>1, BoundAssumption DEF Invoke, HistoryOK
  <2> QED BY <1>1, <2>2, <2>3, <2>4, TreeSame DEF Invoke
<1>2. CASE Kill
  <2>1. CallOK'
    BY <1>2 DEF Kill, CallOK, callVars, jobVars, Phases
  <2>2. DriverOK'
    BY <1>2 DEF Kill, DriverOK
  <2>3. doubtful' \subseteq Names
    <3>1. pc = "remove" => Current \in Names
      BY CurrentName DEF CallOK
    <3> QED BY <1>2, <3>1 DEF Kill, HistoryOK
  <2>4. HistoryOK'
    BY <1>2, <2>3, BoundAssumption DEF Kill, Faulty, HistoryOK, historyVars
  <2> QED BY <1>2, <2>1, <2>2, <2>4, TreeSame DEF Kill
<1> QED BY <1>1, <1>2

LEMMA NextType == ASSUME TypeOK, Waits, [Next]_vars PROVE TypeOK'
<1>1. CASE UNCHANGED vars
  BY <1>1 DEF vars, treeVars, callVars, jobVars, historyVars, TypeOK, TreeOK, CallOK, DriverOK,
     HistoryOK, Current, Exists, Tmp
<1> QED BY <1>1, SuiteType, RunningType, ReturnType, OutsideType DEF Next, Driver

\* A step of a running driver, as the one the suite waits for or not.
LEMMA TurnOrStay ==
  ASSUME NEW p \in Running, MakeDirectory(p) \/ Report(p) \/ OrphanEnds(p), TypeOK
  PROVE  /\ UNCHANGED driverRest /\ Current' = Current
         /\ DOMAIN dirs \subseteq DOMAIN dirs'
         /\ \/ driver' = driver
            \/ /\ pc = "wait" /\ driver = p
               /\ driver'.name = p.name /\ driver'.uuid = p.uuid
               /\ Exists(Tmp(p.name))' \/ p.stage = "running"
<1>0. p \in Drivers /\ p # None BY RunningDrivers DEF TypeOK
<1>1. UNCHANGED driverRest BY DEF MakeDirectory, Report, OrphanEnds
<1>2. Current' = Current BY <1>1 DEF driverRest, jobVars, Current
<1>3. driver = p => pc = "wait" BY <1>0 DEF TypeOK, DriverOK
<1>4. CASE MakeDirectory(p)
  <2>1. DOMAIN dirs \subseteq DOMAIN dirs' /\ Exists(Tmp(p.name))'
    BY <1>4 DEF MakeDirectory, With, Exists, Tmp
  <2>2. Turn(p, [p EXCEPT !.stage = "running"]) BY <1>4 DEF MakeDirectory
  <2>3. [p EXCEPT !.stage = "running"].name = p.name /\ [p EXCEPT !.stage = "running"].uuid = p.uuid
    BY <1>0, StageDrivers DEF Stages
  <2> QED BY <1>1, <1>2, <1>3, <2>1, <2>2, <2>3 DEF Turn
<1>5. CASE Report(p)
  <2>1. PICK outcome \in {"Success", "Failure"} :
          Turn(p, [p EXCEPT !.stage = outcome]) /\ DOMAIN dirs' = DOMAIN dirs
    BY <1>5, ReportSteps
  <2>2. p.stage = "running" BY <1>5 DEF Report
  <2>3. [p EXCEPT !.stage = outcome].name = p.name /\ [p EXCEPT !.stage = outcome].uuid = p.uuid
    BY <1>0, StageDrivers DEF Stages
  <2> QED BY <1>1, <1>2, <1>3, <2>1, <2>2, <2>3 DEF Turn
<1>6. CASE OrphanEnds(p)
  BY <1>1, <1>2, <1>6 DEF OrphanEnds
<1> QED BY <1>4, <1>5, <1>6

LEMMA NextWaits == ASSUME TypeOK, Waits, [Next]_vars PROVE Waits'
<1>1. CASE Launch
  BY <1>1 DEF Launch, Waits, Current, callVars, jobVars
<1>2. ASSUME NEW p \in Running, MakeDirectory(p) \/ Report(p) \/ OrphanEnds(p) PROVE Waits'
  <2>1. pc' = pc /\ uuid' = uuid
    BY <1>2, TurnOrStay DEF driverRest, callVars
  <2>2. CASE driver' = driver
    BY <1>2, <2>1, <2>2, TurnOrStay DEF Waits, Exists, Tmp
  <2>3. CASE driver' # driver
    <3>1. pc = "wait" /\ p = driver /\ p.name = Current /\ p.uuid = uuid
      BY <1>2, <2>3, TurnOrStay DEF Waits
    <3>2. driver'.name = Current' /\ driver'.uuid = uuid' /\ Tmp(p.name)' = Tmp(Current)'
      BY <1>2, <2>1, <2>3, <3>1, TurnOrStay DEF Tmp
    <3>3. Exists(Tmp(Current))'
      <4>1. CASE p.stage = "running"
        <5>1. Exists(Tmp(Current)) BY <3>1, <4>1 DEF Waits
        <5> QED BY <1>2, <5>1, TurnOrStay DEF Exists, Tmp
      <4>2. CASE Exists(Tmp(p.name))'
        BY <1>2, <3>1, <4>2, TurnOrStay DEF Exists, Tmp
      <4> QED BY <1>2, <2>3, <4>1, <4>2, TurnOrStay
    <3> QED BY <3>2, <3>3 DEF Waits
  <2> QED BY <2>2, <2>3
<1>3. CASE UNCHANGED vars
  BY <1>3 DEF vars, treeVars, callVars, jobVars, Waits, Current, Exists, Tmp
<1>4. CASE pc' # "wait"
  BY <1>4 DEF Waits
<1> QED
  BY <1>1, <1>2, <1>3, <1>4 DEF Next, Suite, Abort, Skip, BeginRemoval, EndRemoval,
     RemovalFails, Unfinished, Replace, Save, KeepFailed, Record, Hook, Finish, Driver,
     DriverReturns, DriverDies, Invoke, Kill, AtJob, Succeeded

LEMMA InitType == Init => TypeOK /\ Waits
<1> SUFFICES ASSUME Init PROVE TypeOK /\ Waits
  OBVIOUS
<1>1. TreeOK BY DEF Init, TreeOK
<1>2. CallOK
  <2>1. 1 \in Plugins => 1 <= Plan[1].jobs BY PlanJobs
  <2>2. at = [plugin |-> 1, job |-> 1] BY DEF Init
  <2>3. at \in [plugin : Nat \ {0}, job : Nat \ {0}] /\ at.plugin = 1 /\ at.job = 1 BY <2>2
  <2>4. at.plugin \in Plugins => at.job <= Plan[at.plugin].jobs BY <2>1, <2>3
  <2> QED BY <2>3, <2>4 DEF Init, CallOK, Phases
<1>3. DriverOK /\ Waits BY DEF Init, DriverOK, Waits
<1>4. HistoryOK BY BoundAssumption DEF Init, HistoryOK
<1> QED BY <1>1, <1>2, <1>3, <1>4 DEF TypeOK

\* Every variable keeps to its states, for any plan and any number of invocations and faults; the
\* suite has a driver exactly while it waits for one, and what it renames exists.
THEOREM TypeCorrect == Spec => []TypeOK
<1>1. TypeOK /\ Waits /\ [Next]_vars => TypeOK' /\ Waits'
  BY NextType, NextWaits
<1> QED BY InitType, <1>1, PTL DEF Spec
---------------------------------------------------------------------------
(* What is on the disk, and what the suite counts. *)

\* The directory that is being removed.
Removing(n) == pc = "remove" /\ n = Current

\* A report that nobody else has touched is one of success, in a whole directory.
ReportsSound ==
  \A n \in Names : Sound(n) /\ IsReportDir(Of(n)) /\ ~Removing(n) =>
    dirs[Of(n)].report = "Success" /\ dirs[Of(n)].whole

TmpWhole == \A n \in Names : Exists(Tmp(n)) => dirs[Tmp(n)].whole

Numbered == \A n \in jobs : n.counter < counter

JobsReported == \A n \in jobs : Sound(n) => IsReportDir(Of(n))

\* What the suite knows at each point about the job it is at.
AtStep ==
  /\ pc = "remove" => ~cfg.restart
  /\ pc \in {"launch", "wait", "save"} /\ IsReportDir(Of(Current)) =>
        ~cfg.restart /\ Current \in doubtful
  /\ pc = "wait" /\ driver.stage = "Success" /\ Sound(Current) => dirs[Tmp(Current)].report = "Success"
  /\ pc = "save" /\ Sound(Current) => dirs[Tmp(Current)].report = "Success"
  /\ pc = "keep" => status = 1
  /\ pc = "record" /\ status = 0 /\ Sound(Current) => IsReportDir(Of(Current))

JInv == TypeOK /\ Waits /\ ReportsSound /\ TmpWhole /\ Numbered /\ JobsReported /\ AtStep

\* A step that does not touch directory d.
Untouched(d) == (d \in DOMAIN dirs' <=> d \in DOMAIN dirs) /\ (d \in DOMAIN dirs => dirs'[d] = dirs[d])

Moves(p) == MakeDirectory(p) \/ Report(p) \/ OrphanEnds(p)

\* Steps of the suite that change no directory.
Still ==
  Abort \/ Skip \/ RemovalFails \/ Unfinished \/ Launch \/ Record \/ Hook \/ Finish
  \/ DriverReturns \/ DriverDies \/ Invoke \/ Kill \/ UNCHANGED vars

LEMMA AllSteps ==
  ASSUME [Next]_vars
  PROVE  Still \/ BeginRemoval \/ EndRemoval \/ Replace \/ Save \/ KeepFailed \/ \E p \in Running : Moves(p)
BY DEF Next, Suite, Driver, Still, Moves

LEMMA StillTree == ASSUME Still PROVE dirs' = dirs
BY DEF Still, Abort, Skip, RemovalFails, Unfinished, Launch, Record, Hook, Finish,
   DriverReturns, DriverDies, Invoke, Kill, vars, treeVars

LEMMA SuiteStill ==
  ASSUME BeginRemoval \/ EndRemoval \/ Replace \/ Save \/ KeepFailed
  PROVE  /\ UNCHANGED <<cfg, uuid, results, at, counter, jobs, failures, abort, status, invocations, chain>>
         /\ UNCHANGED <<driver, orphans, doubtful>> /\ Current' = Current
BY DEF BeginRemoval, EndRemoval, Replace, Save, KeepFailed, callVars, jobVars, historyVars, Current

LEMMA DriverDirs ==
  ASSUME TypeOK, NEW p \in Running, Moves(p)
  PROVE  /\ \A d : d # Tmp(p.name) => Untouched(d)
         /\ Exists(Tmp(p.name)) => Exists(Tmp(p.name))' /\ dirs'[Tmp(p.name)].whole = dirs[Tmp(p.name)].whole
         /\ Exists(Tmp(p.name)) /\ ~Report(p) => Untouched(Tmp(p.name))
         /\ ~Exists(Tmp(p.name)) /\ Exists(Tmp(p.name))' =>
              dirs'[Tmp(p.name)].whole /\ dirs'[Tmp(p.name)].report = "none"
<1> DEFINE d == Tmp(p.name)
<1>1. CASE MakeDirectory(p)
  <2>1. CASE Exists(d)
    BY <1>1, <2>1 DEF MakeDirectory, Untouched, Exists, Tmp
  <2>2. CASE ~Exists(d)
    <3>1. dirs' = With(d, [report |-> "none", uuid |-> p.uuid, whole |-> TRUE])
      BY <1>1, <2>2 DEF MakeDirectory
    <3>2. \A e : e # d => Untouched(e)
      BY <3>1 DEF With, Untouched
    <3>3. dirs'[d].whole /\ dirs'[d].report = "none"
      BY <3>1 DEF With
    <3> QED BY <2>2, <3>2, <3>3
  <2> QED BY <2>1, <2>2
<1>2. CASE Report(p)
  <2>1. /\ DOMAIN dirs' = DOMAIN dirs /\ \A e \in DOMAIN dirs : e # d => dirs'[e] = dirs[e]
        /\ Exists(d) => dirs'[d].whole = dirs[d].whole
    BY <1>2, ReportSteps
  <2> QED BY <1>2, <2>1 DEF Untouched, Exists, Tmp
<1>3. CASE OrphanEnds(p)
  BY <1>3 DEF OrphanEnds, Untouched, Exists, Tmp
<1> QED BY <1>1, <1>2, <1>3 DEF Moves

LEMMA DifferentPlaces ==
  ASSUME NEW m, NEW n, NEW k
  PROVE  /\ Of(m) # Tmp(n) /\ Of(m) # Fail(n, k) /\ Tmp(m) # Fail(n, k)
         /\ Of(m) = Of(n) => m = n
         /\ Tmp(m) = Tmp(n) => m = n
BY DEF Of, Tmp, Fail

\* Only the suite touches a final directory, and only that of its current job.
LEMMA FinalDirs ==
  ASSUME TypeOK, [Next]_vars, NEW n
  PROVE  Untouched(Of(n)) \/ (n = Current /\ (BeginRemoval \/ EndRemoval \/ Replace \/ Save))
<1>1. CASE Still BY <1>1, StillTree DEF Untouched
<1>2. ASSUME NEW p \in Running, Moves(p) PROVE Untouched(Of(n))
  BY <1>2, DriverDirs, DifferentPlaces
<1>3. CASE KeepFailed
  <2>1. Of(n) # Tmp(Current) /\ \A k : Of(n) # Fail(Current, k)
    BY DifferentPlaces
  <2>2. dirs' = dirs \/ \E to : Of(n) # to /\ dirs' = Moved(Tmp(Current), to)
    BY <1>3, <2>1 DEF KeepFailed
  <2> QED BY <2>1, <2>2 DEF Moved, Untouched
<1>4. ASSUME n # Current, BeginRemoval \/ EndRemoval \/ Replace \/ Save PROVE Untouched(Of(n))
  <2>1. Of(n) # Of(Current) /\ Of(n) # Tmp(Current)
    BY <1>4, DifferentPlaces
  <2> QED BY <1>4, <2>1 DEF BeginRemoval, EndRemoval, Replace, Save, Minus, Moved, Untouched
<1> QED BY <1>1, <1>2, <1>3, <1>4, AllSteps

\* A driver's directory is touched by drivers of that job, until the suite renames it.
LEMMA TmpDirs ==
  ASSUME TypeOK, [Next]_vars, NEW n
  PROVE  \/ Untouched(Tmp(n))
         \/ n = Current /\ (Save \/ KeepFailed) /\ ~Exists(Tmp(n))'
         \/ \E p \in Running : p.name = n /\ Moves(p)
<1>1. CASE Still BY <1>1, StillTree DEF Untouched
<1>2. ASSUME NEW p \in Running, Moves(p) PROVE Untouched(Tmp(n)) \/ p.name = n
  BY <1>2, DriverDirs, DifferentPlaces
<1>3. CASE BeginRemoval \/ EndRemoval \/ Replace
  <2>1. Tmp(n) # Of(Current) BY DifferentPlaces
  <2> QED BY <1>3, <2>1 DEF BeginRemoval, EndRemoval, Replace, Minus, Untouched
<1>4. CASE Save \/ KeepFailed
  <2>1. Tmp(n) # Of(Current) /\ \A k : Tmp(n) # Fail(Current, k)
    BY DifferentPlaces
  <2>2. dirs' = dirs \/ \E to : Tmp(n) # to /\ dirs' = Moved(Tmp(Current), to)
    BY <1>4, <2>1 DEF Save, KeepFailed
  <2>3. CASE dirs' = dirs
    BY <2>3 DEF Untouched
  <2>4. CASE \E to : Tmp(n) # to /\ dirs' = Moved(Tmp(Current), to)
    <3>1. CASE n = Current
      BY <1>4, <2>4, <3>1 DEF Moved, Exists, Tmp
    <3>2. CASE n # Current
      <4>1. Tmp(n) # Tmp(Current) BY <3>2, DifferentPlaces
      <4> QED BY <2>4, <4>1 DEF Moved, Untouched
    <3> QED BY <3>1, <3>2
  <2> QED BY <2>2, <2>3, <2>4
<1> QED BY <1>1, <1>2, <1>3, <1>4, AllSteps

\* A name that a driver was orphaned with stays one.
LEMMA OrphansStay ==
  ASSUME TypeOK, [Next]_vars, NEW p \in orphans
  PROVE  \E q \in orphans' : q.name = p.name
<1>1. ASSUME NEW r \in Running, NEW st \in Stages,
             Turn(r, [r EXCEPT !.stage = st]) \/ orphans' = (orphans \ {r}) \cup {[r EXCEPT !.stage = st]}
      PROVE  \E q \in orphans' : q.name = p.name
  <2>1. r \in Drivers BY RunningDrivers DEF TypeOK
  <2>2. [r EXCEPT !.stage = st].name = r.name BY <2>1, StageDrivers
  <2>3. orphans' = orphans \/ orphans' = (orphans \ {r}) \cup {[r EXCEPT !.stage = st]}
    BY <1>1 DEF Turn
  <2>4. CASE p = r BY <2>2, <2>3, <2>4
  <2>5. CASE p # r BY <2>3, <2>5
  <2> QED BY <2>4, <2>5
<1>2. ASSUME NEW r \in Running, Moves(r) PROVE \E q \in orphans' : q.name = p.name
  <2>1. CASE MakeDirectory(r) BY <1>1, <2>1 DEF MakeDirectory, Stages
  <2>2. CASE Report(r) BY <1>1, <2>2, ReportSteps DEF Stages
  <2>3. CASE OrphanEnds(r) BY <1>1, <2>3 DEF OrphanEnds, Stages
  <2> QED BY <1>2, <2>1, <2>2, <2>3 DEF Moves
<1>3. CASE Still
  <2>1. orphans \subseteq orphans'
    BY <1>3 DEF Still, Abort, Skip, RemovalFails, Unfinished, Launch, Record, Hook, Finish,
       DriverReturns, DriverDies, Invoke, Kill, vars
  <2> QED BY <2>1
<1> QED BY <1>2, <1>3, AllSteps, SuiteStill

\* Once somebody else may have written under a name, that stays so.
LEMMA SoundBefore == ASSUME TypeOK, [Next]_vars, NEW n, Sound(n)' PROVE Sound(n)
<1>1. doubtful \subseteq doubtful'
  BY DEF Next, Suite, Driver, Abort, Skip, BeginRemoval, EndRemoval, RemovalFails, Unfinished,
     Launch, Replace, Save, KeepFailed, Record, Hook, Finish, MakeDirectory, Report, OrphanEnds,
     DriverReturns, DriverDies, Invoke, Kill, vars
<1> QED BY <1>1, OrphansStay DEF Sound, Shared

LEMMA RemovalEnds ==
  ASSUME [Next]_vars, TypeOK, NEW n, Removing(n)
  PROVE  Removing(n)' \/ (EndRemoval /\ n = Current) \/ n \in doubtful'
<1>1. ASSUME NEW p \in Running, Moves(p) PROVE Removing(n)'
  BY <1>1, TurnOrStay DEF Moves, Removing, driverRest
<1>2. CASE UNCHANGED vars
  BY <1>2 DEF vars, jobVars, Removing, Current
<1> QED BY <1>1, <1>2 DEF Next, Suite, Driver, Moves, Removing, Abort, Skip, BeginRemoval,
        EndRemoval, RemovalFails, Unfinished, Launch, Replace, Save, KeepFailed, Record, Hook,
        Finish, DriverReturns, DriverDies, Invoke, Kill, AtJob

LEMMA NextReportsSound == ASSUME JInv, [Next]_vars PROVE ReportsSound'
<1> USE DEF JInv
<1> SUFFICES ASSUME NEW n \in Names, Sound(n)', IsReportDir(Of(n))', ~Removing(n)'
             PROVE  dirs'[Of(n)].report = "Success" /\ dirs'[Of(n)].whole
  BY DEF ReportsSound, Of
<1>1. Sound(n)
  BY SoundBefore
<1>2. Exists(Of(n))'
  BY DEF IsReportDir, Of
<1>3. CASE Untouched(Of(n))
  <2>1. IsReportDir(Of(n)) /\ dirs'[Of(n)] = dirs[Of(n)]
    BY <1>2, <1>3 DEF Untouched, IsReportDir, Exists, Of
  <2>2. ~Removing(n)
    <3>1. n \notin doubtful' BY DEF Sound
    <3>2. ASSUME EndRemoval, n = Current PROVE FALSE
      BY <1>2, <3>2 DEF EndRemoval, Minus, Exists, Of
    <3> QED BY <3>1, <3>2, RemovalEnds
  <2> QED BY <1>1, <2>1, <2>2 DEF ReportsSound
<1>4. CASE n = Current /\ (EndRemoval \/ Replace)
  BY <1>2, <1>4 DEF EndRemoval, Replace, Minus, Exists, Of
<1>5. CASE n = Current /\ BeginRemoval
  BY <1>5, SuiteStill DEF BeginRemoval, Removing
<1>6. CASE n = Current /\ Save
  <2>1. dirs'[Of(n)] = dirs[Tmp(n)]
    BY <1>6 DEF Save, Moved
  <2> QED BY <1>1, <1>6, <2>1 DEF Save, AtStep, TmpWhole, TypeOK, DriverOK
<1> QED BY <1>3, <1>4, <1>5, <1>6, FinalDirs

LEMMA NextTmpWhole == ASSUME JInv, [Next]_vars PROVE TmpWhole'
<1> USE DEF JInv
<1> SUFFICES ASSUME NEW n \in Names, Exists(Tmp(n))' PROVE dirs'[Tmp(n)].whole
  BY DEF TmpWhole, Tmp
<1>1. CASE Untouched(Tmp(n))
  BY <1>1 DEF TmpWhole, Untouched, Exists, Tmp
<1>2. ASSUME NEW p \in Running, p.name = n, Moves(p) PROVE dirs'[Tmp(n)].whole
  BY <1>2, DriverDirs DEF TmpWhole
<1> QED BY <1>1, <1>2, TmpDirs

LEMMA NextNumbered == ASSUME JInv, [Next]_vars PROVE Numbered'
<1> USE DEF JInv
<1>1. CASE Record
  BY <1>1 DEF Record, Numbered, TypeOK, CallOK, Names, Current
<1>2. CASE Invoke
  BY <1>2 DEF Invoke, Numbered
<1>3. CASE UNCHANGED <<jobs, counter>>
  BY <1>3 DEF Numbered
<1> QED BY <1>1, <1>2, <1>3 DEF Next, Suite, Driver, Abort, Skip, BeginRemoval, EndRemoval,
        RemovalFails, Unfinished, Launch, Replace, Save, KeepFailed, Hook, Finish,
        DriverReturns, DriverDies, MakeDirectory, Report, OrphanEnds, Kill, driverRest, vars,
        jobVars

LEMMA CurrentNotCounted == ASSUME Numbered, TypeOK PROVE Current \notin jobs
BY DEF Numbered, TypeOK, CallOK, Current

LEMMA NextJobsReported == ASSUME JInv, [Next]_vars PROVE JobsReported'
<1> USE DEF JInv
<1> SUFFICES ASSUME NEW n \in jobs', Sound(n)' PROVE IsReportDir(Of(n))'
  BY DEF JobsReported, Of
<1>1. Sound(n)
  BY SoundBefore
<1>2. CASE n \in jobs
  <2>1. n # Current BY <1>2, CurrentNotCounted
  <2>2. IsReportDir(Of(n)) BY <1>1, <1>2 DEF JobsReported
  <2>3. Untouched(Of(n)) BY <2>1, FinalDirs
  <2> QED BY <2>2, <2>3 DEF Untouched, IsReportDir, Exists, Of
<1>3. CASE n \notin jobs
  <2>1. Record /\ n = Current /\ status = 0
    BY <1>3 DEF Next, Suite, Driver, Abort, Skip, BeginRemoval, EndRemoval, RemovalFails,
       Unfinished, Launch, Replace, Save, KeepFailed, Record, Hook, Finish, DriverReturns,
       DriverDies, MakeDirectory, Report, OrphanEnds, Kill, Invoke, driverRest, vars, jobVars
  <2>2. IsReportDir(Of(n))
    BY <1>1, <2>1 DEF AtStep, Record
  <2> QED BY <2>1, <2>2 DEF Record, treeVars, IsReportDir, Exists, Of
<1> QED BY <1>2, <1>3

\* A driver that is not the one the suite waits for leaves its name behind.
LEMMA OthersShare ==
  ASSUME TypeOK, NEW p \in Running, Report(p), driver' = driver
  PROVE  Shared(p.name)'
<1>1. PICK outcome \in {"Success", "Failure"} : Turn(p, [p EXCEPT !.stage = outcome])
  BY ReportSteps
<1>2. /\ [p EXCEPT !.stage = outcome].name = p.name
      /\ [p EXCEPT !.stage = outcome].stage = outcome
  BY RunningDrivers, StageDrivers DEF TypeOK, Stages
<1>3. [p EXCEPT !.stage = outcome] # p
  BY <1>2 DEF Report
<1>4. [p EXCEPT !.stage = outcome] \in orphans'
  BY <1>1, <1>3 DEF Turn
<1> QED BY <1>2, <1>4 DEF Shared

\* The driver's own report is the one the suite finds, unless it was not written whole.
LEMMA OwnReport ==
  ASSUME TypeOK, NEW p \in Running, Report(p), driver' # driver, driver'.stage = "Success",
         Exists(Tmp(p.name)), p.name \notin doubtful'
  PROVE  dirs'[Tmp(p.name)].report = "Success"
<1>1. PICK outcome \in {"Success", "Failure"}, written \in {"all", "part", "none"} :
        /\ Turn(p, [p EXCEPT !.stage = outcome])
        /\ written = "all" => dirs'[Tmp(p.name)].report = outcome
        /\ doubtful' = IF written = "all" THEN doubtful ELSE doubtful \cup {p.name}
  BY ReportSteps
<1>2. [p EXCEPT !.stage = outcome].stage = outcome
  BY RunningDrivers, StageDrivers DEF TypeOK, Stages
<1>3. driver' = [p EXCEPT !.stage = outcome]
  BY <1>1 DEF Turn
<1> QED BY <1>1, <1>2, <1>3

LEMMA RunningAtStep == ASSUME JInv, NEW p \in Running, Moves(p) PROVE AtStep'
<1> USE DEF JInv
<1>1. /\ pc' = pc /\ cfg' = cfg /\ status' = status /\ Current' = Current
      /\ Of(Current)' = Of(Current) /\ Tmp(Current)' = Tmp(Current)
  BY TurnOrStay DEF Moves, driverRest, callVars, jobVars, Of, Tmp
<1>2. IsReportDir(Of(Current))' <=> IsReportDir(Of(Current))
  <2>1. Untouched(Of(Current)) BY DriverDirs, DifferentPlaces
  <2> QED BY <1>1, <2>1 DEF Untouched, IsReportDir, Exists, Of, Tmp
<1>3. Sound(Current)' => Sound(Current)
  BY <1>1, SoundBefore DEF Next, Driver, Moves, Sound, Shared
<1>4. ASSUME Exists(Tmp(Current)), Sound(Current)', driver' = driver
      PROVE  dirs'[Tmp(Current)] = dirs[Tmp(Current)]
  <2>1. CASE p.name = Current /\ Report(p)
    BY <1>1, <1>4, <2>1, OthersShare DEF Sound, Shared
  <2>2. CASE p.name # Current \/ ~Report(p)
    <3>1. Untouched(Tmp(Current))
      BY <1>4, <2>2, DriverDirs, DifferentPlaces
    <3> QED BY <1>4, <3>1 DEF Untouched, Exists, Tmp
  <2> QED BY <2>1, <2>2
<1>5. ASSUME pc = "wait", driver'.stage = "Success", Sound(Current)'
      PROVE  dirs'[Tmp(Current)].report = "Success"
  <2>1. CASE driver' = driver
    <3>1. Exists(Tmp(Current)) /\ dirs[Tmp(Current)].report = "Success"
      BY <1>3, <1>5, <2>1 DEF Waits, AtStep
    <3> QED BY <1>4, <1>5, <2>1, <3>1
  <2>2. CASE driver' # driver
    <3>1. driver = p /\ p.name = Current
      BY <1>5, <2>2, TurnOrStay DEF Moves, Waits
    <3>2. CASE Report(p)
      <4>1. Exists(Tmp(p.name)) BY <1>5, <3>1, <3>2 DEF Report, Waits
      <4>2. p.name \notin doubtful' BY <1>1, <1>5, <3>1 DEF Sound
      <4> QED BY <1>5, <2>2, <3>1, <3>2, <4>1, <4>2, OwnReport
    <3>3. CASE MakeDirectory(p)
      <4>1. p \in Drivers BY RunningDrivers DEF TypeOK
      <4>2. driver' = [p EXCEPT !.stage = "running"] BY <2>2, <3>3 DEF MakeDirectory, Turn
      <4> QED BY <1>5, <4>1, <4>2, StageDrivers DEF Stages
    <3>4. CASE OrphanEnds(p)
      BY <2>2, <3>4 DEF OrphanEnds
    <3> QED BY <3>2, <3>3, <3>4 DEF Moves
  <2> QED BY <2>1, <2>2
<1>6. ASSUME pc = "save", Sound(Current)' PROVE dirs'[Tmp(Current)].report = "Success"
  <2>1. driver' = driver BY <1>6, TurnOrStay DEF Moves
  <2>2. Exists(Tmp(Current)) BY <1>6 DEF TypeOK, DriverOK
  <2> QED BY <1>3, <1>4, <1>6, <2>1, <2>2 DEF AtStep
<1>7. doubtful \subseteq doubtful'
  BY DEF Moves, MakeDirectory, Report, OrphanEnds
<1> QED BY <1>1, <1>2, <1>3, <1>5, <1>6, <1>7 DEF AtStep

LEMMA NextAtStep == ASSUME JInv, [Next]_vars PROVE AtStep'
<1> USE DEF JInv
<1>0. Current' = Current => Of(Current)' = Of(Current) /\ Tmp(Current)' = Tmp(Current)
  BY DEF Of, Tmp
<1>1. CASE Skip
  BY <1>1 DEF Skip, AtStep, Finished, treeVars, Current, IsReportDir, Exists, Of
<1>2. CASE BeginRemoval
  BY <1>2 DEF BeginRemoval, AtStep, callVars
<1>3. CASE EndRemoval
  <2>1. ~IsReportDir(Of(Current))'
    BY <1>3, <1>0, SuiteStill DEF EndRemoval, Minus, IsReportDir, Exists
  <2> QED BY <1>3, <2>1 DEF EndRemoval, AtStep
<1>13. CASE RemovalFails
  BY <1>13 DEF RemovalFails, AtStep, treeVars, callVars, jobVars, Current
<1>4. CASE Unfinished
  BY <1>4 DEF Unfinished, AtStep, Finished, treeVars, jobVars, Current, IsReportDir, Exists, Of
<1>5. CASE Launch
  BY <1>5 DEF Launch, AtStep, treeVars, callVars, jobVars, Current, IsReportDir, Exists, Of
<1>6. CASE Replace
  <2>1. ~IsReportDir(Of(Current))'
    BY <1>6, <1>0, SuiteStill DEF Replace, Minus, IsReportDir, Exists
  <2>2. dirs'[Tmp(Current)] = dirs[Tmp(Current)]
    BY <1>6, DifferentPlaces DEF Replace, Minus, TypeOK, DriverOK, Exists
  <2>3. Tmp(Current)' = Tmp(Current) /\ Sound(Current)' = Sound(Current)
    BY <1>0, <1>6, SuiteStill DEF Sound, Shared
  <2> QED BY <1>6, <2>1, <2>2, <2>3 DEF Replace, AtStep
<1>7. CASE Save
  <2>1. Sound(Current)' => dirs'[Of(Current)].report = "Success" /\ Of(Current) \in DOMAIN dirs'
    BY <1>7, SuiteStill DEF Save, Moved, AtStep, Sound, Shared
  <2>2. Sound(Current)' => IsReportDir(Of(Current))'
    BY <1>0, <1>7, <2>1, SuiteStill DEF IsReportDir, Exists
  <2> QED BY <1>7, <2>2 DEF Save, AtStep
<1>8. CASE KeepFailed
  BY <1>8, SuiteStill DEF KeepFailed, AtStep
<1>9. CASE DriverReturns
  BY <1>9 DEF DriverReturns, AtStep, treeVars, callVars, Current, IsReportDir, Exists, Of, Tmp,
     Sound, Shared, Succeeded
<1>10. CASE DriverDies
  BY <1>10 DEF DriverDies, AtStep
<1>11. CASE UNCHANGED vars
  BY <1>11 DEF vars, treeVars, callVars, jobVars, AtStep, Current, IsReportDir, Exists, Of, Tmp,
     Sound, Shared
<1>12. CASE Abort \/ Record \/ Hook \/ Finish \/ Invoke \/ Kill
  <2>1. pc' \in {"next", "hook", "off"}
    BY <1>12 DEF Abort, AtJob, Record, Hook, Finish, Invoke, Kill
  <2> QED BY <2>1 DEF AtStep
<1> QED
  BY <1>1, <1>2, <1>3, <1>4, <1>5, <1>6, <1>7, <1>8, <1>9, <1>10, <1>11, <1>12, <1>13, AllSteps,
     RunningAtStep DEF Still

LEMMA InitJInv == Init => JInv
<1>1. Init => ReportsSound /\ TmpWhole
  BY DEF Init, ReportsSound, TmpWhole, IsReportDir, Exists
<1>2. Init => Numbered /\ JobsReported /\ AtStep
  BY DEF Init, Numbered, JobsReported, AtStep
<1> QED BY <1>1, <1>2, InitType DEF JInv

LEMMA NextJInv == JInv /\ [Next]_vars => JInv'
<1> SUFFICES ASSUME JInv, [Next]_vars PROVE JInv'
  OBVIOUS
<1>1. TypeOK' /\ Waits'
  BY NextType, NextWaits DEF JInv
<1> QED BY <1>1, NextReportsSound, NextTmpWhole, NextNumbered, NextJobsReported, NextAtStep DEF JInv

\* A job that the suite counts as run has a whole directory with the report of a run that succeeded,
\* for any plan, any number of invocations, restarts and kills, and any failures of the drivers,
\* but where a report could not be written, a driver was orphaned, or a removal was cut short
\* (run_clusterbuster_job).
THEOREM CountedJobs == Spec => []CountedJobsSucceeded
<1>1. JInv => CountedJobsSucceeded
  <2> SUFFICES ASSUME JInv, NEW n \in jobs, Sound(n)
               PROVE  Exists(Of(n)) /\ dirs[Of(n)].report = "Success" /\ dirs[Of(n)].whole
    BY DEF CountedJobsSucceeded
  <2>1. n \in Names /\ n # Current
    BY CurrentNotCounted DEF JInv, TypeOK, CallOK
  <2>2. IsReportDir(Of(n))
    BY DEF JInv, JobsReported
  <2> QED BY <2>1, <2>2 DEF JInv, ReportsSound, Removing, IsReportDir
<1> QED BY <1>1, InitJInv, NextJInv, PTL DEF Spec

\* What a restart, or any invocation, keeps.
Kept(d) == d.suffix = ".FAIL" \/ (d.suffix = "" /\ cfg.restart /\ IsReportDir(d))

LEMMA StepKeeps ==
  ASSUME JInv, [Next]_vars, NEW d \in DOMAIN dirs, Kept(d)
  PROVE  d \in DOMAIN dirs' /\ dirs'[d] = dirs[d]
<1> USE DEF JInv
<1>1. d # Tmp(Current) /\ \A p \in Running : d # Tmp(p.name)
  <2>1. d.suffix \in {"", ".FAIL"} BY DEF Kept
  <2>2. \A n : Tmp(n).suffix = ".tmp" BY DEF Tmp
  <2> QED BY <2>1, <2>2
<1>2. CASE Still
  BY <1>2, StillTree
<1>3. ASSUME NEW p \in Running, Moves(p) PROVE d \in DOMAIN dirs' /\ dirs'[d] = dirs[d]
  <2>1. Untouched(d) BY <1>1, <1>3, DriverDirs
  <2> QED BY <2>1 DEF Untouched
<1>4. CASE BeginRemoval \/ EndRemoval \/ Replace
  <2>1. d # Of(Current)
    <3>1. SUFFICES ASSUME d = Of(Current) PROVE FALSE
      OBVIOUS
    <3>2. Of(Current).suffix = "" BY DEF Of
    <3>3. cfg.restart /\ IsReportDir(Of(Current)) BY <3>1, <3>2 DEF Kept
    <3>4. BeginRemoval => ~cfg.restart BY DEF BeginRemoval
    <3>5. EndRemoval => ~cfg.restart BY DEF EndRemoval, AtStep
    <3>6. Replace => ~IsReportDir(Of(Current)) BY <3>3 DEF Replace, AtStep
    <3> QED BY <1>4, <3>3, <3>4, <3>5, <3>6
  <2> QED BY <1>4, <2>1 DEF BeginRemoval, EndRemoval, Replace, Minus
<1>5. CASE Save
  <2>1. d # Of(Current)
    BY <1>5 DEF Save, Exists
  <2> QED BY <1>1, <1>5, <2>1 DEF Save, Moved
<1>6. CASE KeepFailed
  <2>1. dirs' = dirs \/ \E to : to \notin DOMAIN dirs /\ dirs' = Moved(Tmp(Current), to)
    BY <1>6 DEF KeepFailed, FreeSuffix, Exists
  <2> QED BY <1>1, <2>1 DEF Moved
<1> QED BY <1>2, <1>3, <1>4, <1>5, <1>6, AllSteps

\* A restart neither changes nor removes a directory with a report, and no invocation touches what
\* a failed job left, for any plan and whatever fails or is killed (run_clusterbuster_job).
THEOREM ReportsKept == Spec => KeepsReports
<1>1. JInv /\ [Next]_vars => [\A d \in DOMAIN dirs : Kept(d) => d \in DOMAIN dirs' /\ dirs'[d] = dirs[d]]_vars
  BY StepKeeps
<1> QED BY <1>1, InitJInv, NextJInv, PTL DEF Spec, KeepsReports, Kept
---------------------------------------------------------------------------
(* The results file. *)

\* The jobs that the suite has behind it.
Behind(p, j) == p < at.plugin \/ (p = at.plugin /\ (j < at.job \/ (pc = "hook" /\ j = at.job)))

Has(p, j) == \E n \in jobs : n.plugin = p /\ n.job = j

\* Without a failure, all of them ran, but for those whose failure does not count.
Ran ==
  pc # "off" /\ failures = {} =>
    \A p \in Plugins : ErrorIsFailure(p) => \A j \in 1 .. Plan[p].jobs : Behind(p, j) => Has(p, j)

\* What is listed stays on the disk: a removal needs an invocation that is not a restart.
Chained ==
  /\ invocations = 0 => results = None
  /\ pc # "off" => invocations # 0
  /\ chain /\ pc # "off" /\ ~cfg.restart => invocations = 1
  /\ chain /\ invocations = 1 /\ results # None => results.ran \subseteq jobs

Failing ==
  /\ abort => failures # {}
  /\ pc = "hook" /\ Fails => failures # {}

ListedNow == results # None /\ chain => Listed
PassNow == results # None /\ results.status = "PASS" => AllRan

RInv == JInv /\ Chained /\ Failing /\ Ran /\ ListedNow /\ PassNow

\* Steps that leave alone all that the suite knows of its jobs.
Idles ==
  UNCHANGED <<results, cfg, at, counter, jobs, failures, abort, status, invocations, chain>>

LEMMA QuietSteps ==
  ASSUME [Next]_vars
  PROVE  Abort \/ Record \/ Hook \/ Finish \/ Invoke
         \/ (Idles /\ pc \notin {"off", "hook"} /\ pc' \notin {"off", "hook"})
         \/ (Idles /\ pc' = pc) \/ (Idles /\ Kill)
         \/ (Skip /\ UNCHANGED <<results, cfg, at, counter, jobs, failures, abort, invocations, chain>>)
         \/ ((DriverReturns \/ DriverDies)
             /\ UNCHANGED <<results, cfg, at, counter, jobs, failures, abort, invocations, chain>>)
<1>1. ASSUME NEW p \in Running, Moves(p) PROVE Idles /\ pc' = pc
  BY <1>1 DEF Moves, MakeDirectory, Report, OrphanEnds, driverRest, callVars, jobVars,
     historyVars, Idles
<1>2. CASE UNCHANGED vars
  BY <1>2 DEF vars, treeVars, callVars, jobVars, historyVars, Idles
<1> QED BY <1>1, <1>2 DEF Next, Suite, Driver, Moves, Idles, Skip, BeginRemoval, EndRemoval,
        RemovalFails, Unfinished, Launch, Replace, Save, KeepFailed, DriverReturns, DriverDies,
        Kill, AtJob, treeVars, callVars, jobVars, historyVars

LEMMA NextChained == ASSUME RInv, [Next]_vars PROVE Chained'
<1> USE DEF RInv, JInv
<1>1. CASE Invoke
  <2>1. invocations \in Nat /\ invocations' = invocations + 1
    BY <1>1 DEF Invoke, TypeOK, HistoryOK
  <2>2. chain' /\ ~cfg'.restart => invocations = 0
    BY <1>1 DEF Invoke
  <2>3. results' = results
    BY <1>1 DEF Invoke, treeVars
  <2> QED BY <2>1, <2>2, <2>3 DEF Chained
<1>2. CASE Record
  BY <1>2 DEF Record, Chained, treeVars, callVars, historyVars
<1>3. CASE Hook \/ Finish
  <2>1. invocations # 0
    <3>1. pc # "off" BY <1>3 DEF Hook, Finish
    <3> QED BY <3>1 DEF Chained
  <2>2. results'.ran = jobs /\ jobs' = jobs
    BY <1>3 DEF Hook, Finish, Written, jobVars
  <2> QED BY <1>3, <2>1, <2>2 DEF Hook, Finish, Chained, callVars, historyVars, jobVars
<1>4. CASE Abort
  BY <1>4 DEF Abort, Chained, treeVars, callVars, historyVars
<1>5. ASSUME UNCHANGED <<results, cfg, jobs, invocations, chain>>, pc = "off" => pc' = "off"
      PROVE  Chained'
  BY <1>5 DEF Chained
<1> QED BY <1>1, <1>2, <1>3, <1>4, <1>5, QuietSteps
        DEF Idles, Skip, AtJob, DriverReturns, DriverDies, Kill

LEMMA NextFailing == ASSUME RInv, [Next]_vars PROVE Failing'
<1> USE DEF RInv, JInv
<1>1. CASE Record
  BY <1>1 DEF Record, Failing, Fails
<1>2. CASE Abort \/ Hook \/ Finish \/ Invoke
  BY <1>2 DEF Abort, AtJob, Hook, Finish, Invoke, Failing, callVars, jobVars
<1>3. ASSUME UNCHANGED <<failures, abort>>, pc' # "hook" PROVE Failing'
  BY <1>3 DEF Failing
<1>4. CASE Idles /\ pc' = pc
  BY <1>4 DEF Idles, Failing, Fails
<1> QED BY <1>1, <1>2, <1>3, <1>4, QuietSteps DEF Idles, Skip, DriverReturns, DriverDies, Kill

\* Going on means that the job the suite was at is behind it, and all before it.
LEMMA GoesOn ==
  ASSUME TypeOK, at.plugin \in Plugins, NEW st, at' = After(st), pc' # "hook",
         NEW p \in Plugins, NEW j \in 1 .. Plan[p].jobs, Behind(p, j)'
  PROVE  \/ p < at.plugin
         \/ p = at.plugin /\ j <= at.job
         \/ p = at.plugin /\ Stops(st)
<1>1. at.plugin \in Nat /\ at.job \in Nat /\ p \in Nat /\ j \in Nat /\ j <= Plan[p].jobs
  BY PlanJobs DEF TypeOK, CallOK, Plugins
<1>2. CASE Stops(st) \/ at.job = Plan[at.plugin].jobs
  <2>1. at' = [plugin |-> at.plugin + 1, job |-> 1] BY <1>2 DEF After
  <2> QED BY <1>1, <1>2, <2>1 DEF Behind
<1>3. CASE ~(Stops(st) \/ at.job = Plan[at.plugin].jobs)
  <2>1. at' = [at EXCEPT !.job = @ + 1] BY <1>3 DEF After
  <2>2. at'.plugin = at.plugin /\ at'.job = at.job + 1
    BY <2>1 DEF TypeOK, CallOK
  <2> QED BY <1>1, <2>2 DEF Behind
<1> QED BY <1>2, <1>3

LEMMA NextRan == ASSUME RInv, [Next]_vars PROVE Ran'
<1> USE DEF RInv, JInv
<1> SUFFICES ASSUME pc' # "off", failures' = {}, NEW p \in Plugins, ErrorIsFailure(p),
                    NEW j \in 1 .. Plan[p].jobs, Behind(p, j)'
             PROVE  Has(p, j)'
  BY DEF Ran
<1>1. CASE Abort
  BY <1>1 DEF Abort, Failing
<1>2. CASE Hook
  <2>1. at.plugin \in Plugins /\ at' = After(status) /\ pc' # "hook" /\ jobs' = jobs /\ failures = {}
    BY <1>2 DEF Hook, TypeOK, CallOK
  <2>2. p = at.plugin => ~Stops(status)
    BY <1>2, <2>1 DEF Failing, Fails, Stops, Hook
  <2>3. p < at.plugin \/ (p = at.plugin /\ j <= at.job)
    BY <2>1, <2>2, GoesOn
  <2>4. Behind(p, j)
    BY <1>2, <2>3 DEF Behind, Hook, TypeOK, CallOK
  <2> QED BY <1>2, <2>1, <2>4 DEF Ran, Has, Hook
<1>3. CASE Record
  <2>1. at' = at /\ pc = "record" /\ failures = {} /\ jobs \subseteq jobs'
    BY <1>3 DEF Record
  <2>2. CASE Behind(p, j)
    BY <2>1, <2>2 DEF Ran, Has
  <2>3. CASE ~Behind(p, j)
    <3>1. p = at.plugin /\ j = at.job
      BY <2>1, <2>3 DEF Behind
    <3>2. status = 0
      BY <1>3, <3>1 DEF Record, Fails
    <3>3. Current \in jobs'
      BY <1>3, <3>2 DEF Record
    <3> QED BY <3>1, <3>3 DEF Has, Current
  <2> QED BY <2>2, <2>3
<1>4. CASE Invoke
  <2>1. at'.plugin = 1 /\ at'.job = 1 /\ pc' = "next" BY <1>4 DEF Invoke
  <2> QED BY <2>1, PluginsNat, PlanJobs DEF Behind
<1>5. CASE Finish
  BY <1>5 DEF Finish
<1>6. ASSUME UNCHANGED <<at, jobs, failures>>, pc # "off", pc' # "hook" \/ pc' = pc PROVE Has(p, j)'
  <2>1. Behind(p, j) BY <1>6 DEF Behind
  <2> QED BY <1>6, <2>1 DEF Ran, Has
<1> QED BY <1>1, <1>2, <1>3, <1>4, <1>5, <1>6, QuietSteps DEF Idles, Skip, AtJob, DriverReturns,
        DriverDies, Kill

LEMMA NextListed == ASSUME RInv, [Next]_vars PROVE ListedNow'
<1> USE DEF RInv, JInv
<1>1. CASE Hook \/ Finish
  <2>1. results'.ran = jobs /\ dirs' = dirs /\ doubtful' = doubtful /\ orphans' = orphans
    BY <1>1 DEF Hook, Finish, Written
  <2> QED BY <2>1 DEF ListedNow, Listed, JobsReported, Sound, Shared, IsReportDir, Exists, Of
<1>2. ASSUME results' = results, results # None, chain'
      PROVE  Listed'
  <2> SUFFICES ASSUME NEW n \in results.ran, Sound(n)' PROVE IsReportDir(Of(n))'
    BY <1>2 DEF Listed, Of
  <2>1. chain /\ Sound(n)
    <3>1. chain
      BY <1>2, QuietSteps DEF Abort, Record, Hook, Finish, Idles, Skip, DriverReturns,
         DriverDies, Invoke, Chained, historyVars
    <3> QED BY <3>1, SoundBefore
  <2>2. IsReportDir(Of(n))
    BY <1>2, <2>1 DEF ListedNow, Listed
  <2>3. CASE Untouched(Of(n))
    BY <2>2, <2>3 DEF Untouched, IsReportDir, Exists, Of
  <2>4. CASE n = Current /\ (BeginRemoval \/ EndRemoval)
    <3>1. ~cfg.restart /\ pc # "off"
      BY <2>4 DEF BeginRemoval, EndRemoval, AtJob, AtStep
    <3>2. n \in jobs
      BY <1>2, <2>1, <3>1 DEF Chained
    <3> QED BY <2>4, <3>2, CurrentNotCounted
  <2>5. CASE n = Current /\ (Replace \/ Save)
    BY <2>1, <2>2, <2>5 DEF Replace, Save, AtStep, Sound
  <2> QED BY <2>3, <2>4, <2>5, FinalDirs
<1> QED BY <1>1, <1>2, QuietSteps
        DEF ListedNow, Abort, Record, Invoke, Idles, Skip, DriverReturns, DriverDies, treeVars

LEMMA NextPass == ASSUME RInv, [Next]_vars PROVE PassNow'
<1> USE DEF RInv, JInv
<1>1. CASE Hook
  <2>1. results'.status # "PASS" BY <1>1 DEF Hook, Written
  <2> QED BY <2>1 DEF PassNow
<1>2. CASE Finish
  <2> SUFFICES ASSUME results'.status = "PASS" PROVE AllRan'
    BY DEF PassNow
  <2>1. failures = {} /\ results'.ran = jobs /\ at.plugin \notin Plugins /\ pc # "off"
    BY <1>2 DEF Finish, Written
  <2>2. \A p \in Plugins : p < at.plugin
    <3>1. at.plugin \in Nat \ {0} BY DEF TypeOK, CallOK
    <3> QED BY <2>1, <3>1, PluginsNat DEF Plugins
  <2>3. \A p \in Plugins : ErrorIsFailure(p) => \A j \in 1 .. Plan[p].jobs : Has(p, j)
    BY <2>1, <2>2 DEF Ran, Behind
  <2> QED BY <2>1, <2>3 DEF AllRan, Has
<1>3. ASSUME results' = results PROVE PassNow'
  BY <1>3 DEF PassNow, AllRan
<1> QED BY <1>1, <1>2, <1>3, QuietSteps
        DEF Abort, Record, Invoke, Idles, Skip, DriverReturns, DriverDies, treeVars

\* What the results file lists as run has its report, as long as every invocation but the first is
\* a restart, and PASS means that every job ran whose failure counts, for any plan, any number of
\* invocations and faults (write_ci_results_json, run_suite_with_orchestration).
THEOREM ResultsHold == Spec => []ResultsTrue
<1>1. Init => RInv
  <2>1. Init => Chained /\ Failing /\ Ran /\ ListedNow /\ PassNow
    BY DEF Init, Chained, Failing, Ran, ListedNow, PassNow
  <2> QED BY <2>1, InitJInv DEF RInv
<1>2. RInv /\ [Next]_vars => RInv'
  <2> SUFFICES ASSUME RInv, [Next]_vars PROVE RInv'
    OBVIOUS
  <2>1. JInv' BY NextJInv DEF RInv
  <2> QED BY <2>1, NextChained, NextFailing, NextRan, NextListed, NextPass DEF RInv
<1>3. RInv => ResultsTrue
  BY DEF RInv, ListedNow, PassNow, ResultsTrue
<1> QED BY <1>1, <1>2, <1>3, PTL DEF Spec
---------------------------------------------------------------------------
(* The uuid of the reports. *)

UInv ==
  /\ JInv
  /\ invocations = 0 => pc = "off" /\ DOMAIN dirs = {} /\ orphans = {}
  /\ chain /\ orphans = {} => \A d \in DOMAIN dirs : Readable(d) => dirs[d].uuid = uuid

\* A step keeps the reports, or is one of a driver, which writes its own uuid.
LEMMA StepReadable ==
  ASSUME JInv, [Next]_vars, orphans' = {}, NEW d \in DOMAIN dirs', Readable(d)'
  PROVE  \/ \E e \in DOMAIN dirs : Readable(e) /\ dirs'[d].uuid = dirs[e].uuid
         \/ pc = "wait" /\ dirs'[d].uuid = uuid
<1> USE DEF JInv
<1>1. ASSUME d \in DOMAIN dirs, dirs'[d] = dirs[d]
      PROVE  Readable(d) /\ dirs'[d].uuid = dirs[d].uuid
  BY <1>1 DEF Readable, IsReportDir, Exists
<1>2. CASE Still
  BY <1>1, <1>2, StillTree
<1>3. CASE EndRemoval \/ Replace
  BY <1>1, <1>3 DEF EndRemoval, Replace, Minus
<1>4. CASE BeginRemoval
  <2> DEFINE c == Of(Current)
  <2>1. PICK left \in {"none", dirs[c].report} :
          dirs' = [dirs EXCEPT ![c].whole = FALSE, ![c].report = left]
    BY <1>4 DEF BeginRemoval
  <2>2. d \in DOMAIN dirs /\ dirs[d] \in Contents
    BY <2>1 DEF TypeOK, TreeOK
  <2>3. CASE d # c
    BY <1>1, <2>1, <2>2, <2>3
  <2>4. CASE d = c
    <3>1. dirs'[d] = [dirs[d] EXCEPT !.whole = FALSE, !.report = left]
      BY <2>1, <2>2, <2>4
    <3> HIDE DEF c
    <3>2. dirs'[d].report = left /\ dirs'[d].uuid = dirs[d].uuid
      BY <2>2, <3>1 DEF Contents
    <3>3. Readable(d)
      BY <2>1, <2>2, <2>4, <3>2 DEF Readable, IsReportDir, Exists
    <3> QED BY <2>2, <3>2, <3>3
  <2> QED BY <2>3, <2>4
<1>5. CASE Save \/ KeepFailed
  <2>1. dirs' = dirs \/ \E to : Tmp(Current) \in DOMAIN dirs /\ dirs' = Moved(Tmp(Current), to)
    BY <1>5 DEF Save, KeepFailed, TypeOK, DriverOK, Exists
  <2>2. CASE dirs' = dirs
    BY <1>1, <2>2
  <2>3. ASSUME NEW to, Tmp(Current) \in DOMAIN dirs, dirs' = Moved(Tmp(Current), to)
        PROVE  \E e \in DOMAIN dirs : Readable(e) /\ dirs'[d].uuid = dirs[e].uuid
    <3>1. CASE d = to
      <4>1. dirs'[d] = dirs[Tmp(Current)] BY <2>3, <3>1 DEF Moved
      <4>2. Readable(Tmp(Current)) BY <2>3, <4>1 DEF Readable, IsReportDir, Exists
      <4> QED BY <2>3, <4>1, <4>2
    <3>2. CASE d # to
      BY <1>1, <2>3, <3>2 DEF Moved
    <3> QED BY <3>1, <3>2
  <2> QED BY <2>1, <2>2, <2>3
<1>6. ASSUME NEW p \in Running, Moves(p)
      PROVE  \/ \E e \in DOMAIN dirs : Readable(e) /\ dirs'[d].uuid = dirs[e].uuid
             \/ pc = "wait" /\ dirs'[d].uuid = uuid
  <2>1. CASE Untouched(d)
    BY <1>1, <2>1 DEF Untouched
  <2>2. CASE ~Untouched(d)
    <3>1. d = Tmp(p.name) /\ dirs'[d].report # "none"
      BY <1>6, <2>2, DriverDirs DEF Readable, IsReportDir
    <3>2. Exists(d) /\ Report(p)
      BY <1>6, <2>2, <3>1, DriverDirs DEF Exists, Tmp
    <3>3. dirs'[d].uuid = p.uuid
      BY <2>2, <3>1, <3>2, ReportSteps DEF Untouched, Exists
    <3>4. driver' # driver
      BY <1>6, <3>2, OthersShare DEF Shared
    <3>5. pc = "wait" /\ p.uuid = uuid
      BY <1>6, <3>4, TurnOrStay DEF Moves, Waits
    <3> QED BY <3>3, <3>5
  <2> QED BY <2>1, <2>2
<1> QED BY <1>2, <1>3, <1>4, <1>5, <1>6, AllSteps

LEMMA NextUInv == UInv /\ [Next]_vars => UInv'
<1> SUFFICES ASSUME UInv, [Next]_vars PROVE UInv'
  OBVIOUS
<1>0. JInv /\ JInv' /\ invocations \in Nat
  BY NextJInv DEF UInv, JInv, TypeOK, HistoryOK
<1>1. CASE Invoke
  <2>1. invocations' # 0 /\ dirs' = dirs /\ orphans' = orphans
    BY <1>0, <1>1 DEF Invoke, treeVars
  <2>2. ASSUME chain', orphans = {}, NEW d \in DOMAIN dirs, Readable(d) PROVE dirs[d].uuid = uuid'
    <3>1. chain /\ cfg'.restart
      BY <1>1, <2>2 DEF Invoke, UInv
    <3>2. \A e \in DOMAIN dirs : Readable(e) => dirs[e].uuid = uuid
      BY <2>2, <3>1 DEF UInv
    <3>3. uuid' \in Recoverable
      BY <1>1, <2>2, <3>1 DEF Invoke, Uuids, Recoverable
    <3> QED BY <2>2, <3>2, <3>3 DEF Recoverable
  <2> QED BY <1>0, <2>1, <2>2 DEF UInv, Readable, IsReportDir, Exists
<1>2. CASE ~Invoke
  <2>1. chain' = chain /\ uuid' = uuid /\ invocations' = invocations
    BY <1>2 DEF Next, Suite, Driver, Abort, Skip, BeginRemoval, EndRemoval, RemovalFails,
       Unfinished, Launch, Replace, Save, KeepFailed, Record, Hook, Finish, MakeDirectory,
       Report, OrphanEnds, DriverReturns, DriverDies, Kill, driverRest, vars, callVars,
       historyVars
  <2>2. invocations = 0 => UNCHANGED vars
    <3> SUFFICES ASSUME pc = "off", orphans = {} PROVE UNCHANGED vars
      BY DEF UInv
    <3>1. Running = {} BY DEF Running
    <3> QED BY <1>2, <3>1 DEF Next, Suite, Driver, Abort, AtJob, Skip, BeginRemoval, EndRemoval,
            RemovalFails, Unfinished, Launch, Replace, Save, KeepFailed, Record, Hook, Finish,
            DriverReturns, DriverDies, Kill
  <2>3. invocations' = 0 => pc' = "off" /\ DOMAIN dirs' = {} /\ orphans' = {}
    BY <2>1, <2>2 DEF UInv, vars, treeVars
  <2>4. ASSUME chain', orphans' = {}, NEW d \in DOMAIN dirs', Readable(d)' PROVE dirs'[d].uuid = uuid'
    <3>1. chain /\ orphans = {}
      BY <1>0, <2>1, <2>4, OrphansStay DEF JInv
    <3> QED BY <1>0, <2>1, <2>4, <3>1, StepReadable DEF UInv
  <2> QED BY <1>0, <2>3, <2>4 DEF UInv, Readable, IsReportDir, Exists
<1> QED BY <1>1, <1>2

\* The reports of a suite carry one uuid as long as every invocation but the first is a restart and
\* no driver outlives its invocation, for any plan and number of invocations and whatever else fails
\* (recover_uuid_from_artifact_root).
THEOREM UuidKept == Spec => []OneUuid
<1>1. Init => UInv
  <2>1. Init => pc = "off" /\ DOMAIN dirs = {} /\ orphans = {}
    BY DEF Init
  <2> QED BY <2>1, InitJInv DEF UInv
<1>2. UInv => OneUuid
  BY DEF UInv, OneUuid
<1> QED BY <1>1, <1>2, NextUInv, PTL DEF Spec
---------------------------------------------------------------------------
(* The numbers of the jobs. *)

\* The jobs of the plan before the plugin's j-th, each a pair of a plugin and a number.
Earlier(p, j) ==
  (UNION {{<<q, k>> : k \in 1 .. Plan[q].jobs} : q \in 1 .. (p - 1)}) \cup {<<p, k>> : k \in 1 .. (j - 1)}

\* No plugin before this one has stopped early.
Ordered(p) == \A q \in halted : ~(q < p)

\* Until a failure ends it, the suite has counted the jobs before the one it is at.
CountNow ==
  pc # "off" /\ ~(pc = "next" /\ abort) /\ Ordered(at.plugin) =>
    /\ IsFiniteSet(Earlier(at.plugin, at.job))
    /\ counter = Cardinality(Earlier(at.plugin, at.job)) + (IF pc = "hook" THEN 1 ELSE 0)

\* So the number in a directory's name is that of its job, whichever invocation made it.
CountKept ==
  \A d \in DOMAIN dirs : d.suffix = "" =>
    /\ d.number = 0
    /\ Ordered(d.name.plugin) => d.name.counter = Cardinality(Earlier(d.name.plugin, d.name.job))

AbortLate == abort => pc \in {"next", "hook", "off"}

QInv == JInv /\ CountNow /\ CountKept /\ AbortLate

IsBefore(e, p, j) ==
    \E q, k \in Nat \ {0} : e = <<q, k>> /\ ((q < p /\ k \in 1 .. Plan[q].jobs) \/ (q = p /\ k < j))

LEMMA EarlierPairs ==
  ASSUME NEW p \in Nat \ {0}, NEW j \in Nat \ {0}, NEW e
  PROVE  e \in Earlier(p, j) <=> IsBefore(e, p, j)
<1>1. ASSUME e \in Earlier(p, j)
      PROVE  IsBefore(e, p, j)
  <2>1. CASE \E k \in 1 .. (j - 1) : e = <<p, k>>
    <3>1. PICK k \in 1 .. (j - 1) : e = <<p, k>>
      BY <2>1
    <3>2. k \in Nat \ {0} /\ k < j
      OBVIOUS
    <3> QED BY <3>1, <3>2 DEF IsBefore
  <2>2. CASE \E q \in 1 .. (p - 1) : \E k \in 1 .. Plan[q].jobs : e = <<q, k>>
    <3>1. PICK q \in 1 .. (p - 1) : \E k \in 1 .. Plan[q].jobs : e = <<q, k>>
      BY <2>2
    <3>2. PICK k \in 1 .. Plan[q].jobs : e = <<q, k>>
      BY <3>1
    <3>3. q \in Nat \ {0} /\ q < p
      OBVIOUS
    <3>4. k \in Nat \ {0}
      OBVIOUS
    <3> QED BY <3>2, <3>3, <3>4 DEF IsBefore
  <2> QED BY <1>1, <2>1, <2>2 DEF Earlier
<1>2. ASSUME NEW q \in Nat \ {0}, NEW k \in Nat \ {0}, e = <<q, k>>,
             (q < p /\ k \in 1 .. Plan[q].jobs) \/ (q = p /\ k < j)
      PROVE  e \in Earlier(p, j)
  <2>1. CASE q < p /\ k \in 1 .. Plan[q].jobs
    <3>1. q \in 1 .. (p - 1) BY <2>1
    <3> QED BY <1>2, <2>1, <3>1 DEF Earlier
  <2>2. CASE q = p /\ k < j
    <3>1. k \in 1 .. (j - 1) BY <2>2
    <3> QED BY <1>2, <2>2, <3>1 DEF Earlier
  <2> QED BY <1>2, <2>1, <2>2
<1> QED BY <1>1, <1>2 DEF IsBefore

LEMMA NoneEarlier == Earlier(1, 1) = {}
<1>1. \A e : ~IsBefore(e, 1, 1) BY DEF IsBefore
<1> QED BY <1>1, EarlierPairs

\* Before the next job of a plugin is one more.
LEMMA BeforeNext ==
  ASSUME NEW p \in Nat \ {0}, NEW j \in Nat \ {0}, NEW e
  PROVE  IsBefore(e, p, j + 1) <=> IsBefore(e, p, j) \/ e = <<p, j>>
<1>1. \A k \in Nat \ {0} : k < j + 1 <=> k < j \/ k = j
  OBVIOUS
<1> QED BY <1>1 DEF IsBefore

\* Before the next plugin are all of the last one's.
LEMMA BeforePlugin ==
  ASSUME NEW p \in Nat \ {0}, NEW j \in Nat \ {0}, j = Plan[p].jobs, NEW e
  PROVE  IsBefore(e, p + 1, 1) <=> IsBefore(e, p, j) \/ e = <<p, j>>
<1>1. \A q \in Nat \ {0} : q < p + 1 <=> q < p \/ q = p
  OBVIOUS
<1>2. \A k \in Nat \ {0} : (k \in 1 .. Plan[p].jobs <=> k < j \/ k = j) /\ ~(k < 1)
  OBVIOUS
<1>3. ASSUME IsBefore(e, p + 1, 1) PROVE IsBefore(e, p, j) \/ e = <<p, j>>
  <2>1. PICK q \in Nat \ {0}, k \in Nat \ {0} : e = <<q, k>> /\ q < p + 1 /\ k \in 1 .. Plan[q].jobs
    BY <1>2, <1>3 DEF IsBefore
  <2>2. CASE q = p BY <1>2, <2>1, <2>2 DEF IsBefore
  <2>3. CASE q < p BY <2>1, <2>3 DEF IsBefore
  <2> QED BY <1>1, <2>1, <2>2, <2>3
<1>4. ASSUME IsBefore(e, p, j) PROVE IsBefore(e, p + 1, 1)
  <2>1. PICK q \in Nat \ {0}, k \in Nat \ {0} :
                e = <<q, k>> /\ ((q < p /\ k \in 1 .. Plan[q].jobs) \/ (q = p /\ k < j))
    BY <1>4 DEF IsBefore
  <2>2. q < p + 1 /\ k \in 1 .. Plan[q].jobs
    BY <1>1, <1>2, <2>1
  <2> QED BY <2>1, <2>2 DEF IsBefore
<1>5. ASSUME e = <<p, j>> PROVE IsBefore(e, p + 1, 1)
  <2>1. p < p + 1 /\ j \in 1 .. Plan[p].jobs
    BY <1>1, <1>2
  <2> QED BY <1>5, <2>1 DEF IsBefore
<1> QED BY <1>3, <1>4, <1>5

\* The next job of a plugin, or the first of the next plugin, has one more before it.
LEMMA OneMore ==
  ASSUME NEW p \in Plugins, NEW j \in Nat \ {0}, j <= Plan[p].jobs, NEW later,
         later = IF j = Plan[p].jobs THEN Earlier(p + 1, 1) ELSE Earlier(p, j + 1),
         IsFiniteSet(Earlier(p, j))
  PROVE  IsFiniteSet(later) /\ Cardinality(later) = Cardinality(Earlier(p, j)) + 1
<1>1. p \in Nat \ {0} /\ p + 1 \in Nat \ {0} /\ j + 1 \in Nat \ {0} /\ Plan[p].jobs \in Nat \ {0}
  BY PlanJobs, PluginsNat
<1>2. <<p, j>> \notin Earlier(p, j)
  <2>1. ~IsBefore(<<p, j>>, p, j) BY <1>1 DEF IsBefore
  <2> QED BY <1>1, <2>1, EarlierPairs
<1>3. later = Earlier(p, j) \cup {<<p, j>>}
  <2>1. ASSUME NEW e PROVE e \in Earlier(p, j + 1) <=> e \in Earlier(p, j) \/ e = <<p, j>>
    BY <1>1, EarlierPairs, BeforeNext
  <2>2. ASSUME j = Plan[p].jobs, NEW e PROVE e \in Earlier(p + 1, 1) <=> e \in Earlier(p, j) \/ e = <<p, j>>
    <3>1. e \in Earlier(p, j) <=> IsBefore(e, p, j)
      BY <1>1, EarlierPairs
    <3>2. e \in Earlier(p + 1, 1) <=> IsBefore(e, p + 1, 1)
      <4>1. 1 \in Nat \ {0} OBVIOUS
      <4> QED BY <1>1, <4>1, EarlierPairs
    <3> QED BY <1>1, <2>2, <3>1, <3>2, BeforePlugin
  <2>3. \A e : e \in later <=> e \in Earlier(p, j) \/ e = <<p, j>>
    BY <2>1, <2>2
  <2> QED BY <2>3
<1> QED BY <1>2, <1>3, FS_AddElement

\* For steps in whose context the provers do not see it.
LEMMA NothingMore == \A n \in Nat : n + 0 = n
OBVIOUS

LEMMA NextCountNow == ASSUME QInv, [Next]_vars PROVE CountNow' /\ AbortLate'
<1> USE DEF QInv, JInv
<1>0. at.plugin \in Nat \ {0} /\ at.job \in Nat \ {0} /\ counter \in Nat
  BY DEF TypeOK, CallOK
<1>1. CASE Invoke
  <2>1. at' = [plugin |-> 1, job |-> 1] /\ counter' = 0 /\ pc' = "next" /\ abort' = FALSE
    BY <1>1 DEF Invoke
  <2>2. at'.plugin = 1 /\ at'.job = 1 BY <2>1
  <2>3. IsFiniteSet(Earlier(1, 1)) /\ Cardinality(Earlier(1, 1)) = 0
    BY NoneEarlier, FS_EmptySet
  <2>4. Earlier(at'.plugin, at'.job) = Earlier(1, 1) BY <2>2
  <2> QED BY <2>1, <2>3, <2>4 DEF CountNow, AbortLate, Earlier
<1>2. CASE Record
  <2>1. pc = "record" /\ pc' = "hook" /\ counter' = counter + 1 /\ at' = at /\ halted' = halted
    BY <1>2 DEF Record, historyVars
  <2>2. Ordered(at.plugin)' <=> Ordered(at.plugin)
    BY <2>1 DEF Ordered
  <2>3. Earlier(at.plugin, at.job)' = Earlier(at.plugin, at.job)
    BY <2>1 DEF Earlier
  <2>4. CASE Ordered(at.plugin)
    <3>1. /\ IsFiniteSet(Earlier(at.plugin, at.job))
          /\ counter = Cardinality(Earlier(at.plugin, at.job)) + 0
      BY <2>1, <2>4 DEF CountNow
    <3>2. Cardinality(Earlier(at.plugin, at.job)) \in Nat
      BY <3>1, FS_CardinalityType
    <3>3. counter' = Cardinality(Earlier(at.plugin, at.job)) + 1
      BY <2>1, <3>1, <3>2
    <3> QED BY <2>1, <2>3, <3>1, <3>3 DEF CountNow, AbortLate
  <2> QED BY <2>1, <2>2, <2>4 DEF CountNow, AbortLate
<1>3. CASE Hook
  <2>1. pc = "hook" /\ pc' = "next" /\ UNCHANGED <<counter, abort>> /\ at' = After(status)
        /\ at.plugin \in Plugins
    BY <1>3 DEF Hook, TypeOK, CallOK
  <2>2. CASE Stops(status)
    <3>1. at.plugin \in halted' /\ at'.plugin = at.plugin + 1
      BY <1>3, <2>1, <2>2 DEF Hook, After
    <3>2. ~Ordered(at.plugin)' BY <1>0, <3>1 DEF Ordered
    <3> QED BY <2>1, <3>2 DEF CountNow, AbortLate
  <2>3. CASE ~Stops(status)
    <3>1. halted' = halted BY <1>3, <2>3 DEF Hook
    <3>2. \/ at.job = Plan[at.plugin].jobs /\ at'.plugin = at.plugin + 1 /\ at'.job = 1
          \/ at.job # Plan[at.plugin].jobs /\ at'.plugin = at.plugin /\ at'.job = at.job + 1
      BY <2>1, <2>3 DEF After, TypeOK, CallOK
    <3>3. Ordered(at.plugin)' => Ordered(at.plugin)
      <4>1. halted \subseteq Nat BY PluginsNat DEF TypeOK, HistoryOK
      <4> QED BY <1>0, <3>1, <3>2, <4>1 DEF Ordered
    <3> DEFINE later == Earlier(at.plugin, at.job)'
    <3>4. later = IF at.job = Plan[at.plugin].jobs THEN Earlier(at.plugin + 1, 1)
                  ELSE Earlier(at.plugin, at.job + 1)
      BY <3>2 DEF Earlier
    <3>5. at.job <= Plan[at.plugin].jobs BY <2>1 DEF TypeOK, CallOK
    <3> HIDE DEF later
    <3>6. IsFiniteSet(Earlier(at.plugin, at.job)) =>
            IsFiniteSet(later) /\ Cardinality(later) = Cardinality(Earlier(at.plugin, at.job)) + 1
      BY <1>0, <2>1, <3>4, <3>5, OneMore
    <3>7. AbortLate' BY <2>1 DEF AbortLate
    <3>8. CASE Ordered(at.plugin)
      <4>1. /\ IsFiniteSet(Earlier(at.plugin, at.job))
            /\ counter = Cardinality(Earlier(at.plugin, at.job)) + 1
        BY <2>1, <3>8 DEF CountNow
      <4>2. IsFiniteSet(later) /\ counter = Cardinality(later)
        BY <3>6, <4>1
      <4>3. Cardinality(later) \in Nat
        BY <4>2, FS_CardinalityType
      <4>4. counter' = Cardinality(later) + 0
        BY <2>1, <4>2, <4>3
      <4> QED BY <2>1, <3>7, <4>2, <4>4 DEF CountNow, later
    <3> QED BY <3>3, <3>7, <3>8 DEF CountNow
  <2> QED BY <2>2, <2>3
<1>4. CASE Abort
  BY <1>4 DEF Abort, AtJob, CountNow, AbortLate
<1>5. CASE pc' = "off"
  BY <1>5 DEF CountNow, AbortLate
<1>6. ASSUME UNCHANGED <<at, counter, abort, halted>>, pc' \notin {"off", "hook", "next"} \/ pc' = pc,
             (pc # "off" /\ pc # "hook" /\ ~(pc = "next" /\ abort)) \/ pc' = pc
      PROVE  CountNow' /\ AbortLate'
  BY <1>6 DEF CountNow, AbortLate, Ordered, Earlier
<1>7. ASSUME NEW p \in Running, Moves(p) PROVE UNCHANGED <<at, counter, abort, halted, pc>>
  BY <1>7, TurnOrStay DEF Moves, driverRest, jobVars, historyVars
<1>8. CASE UNCHANGED vars
  BY <1>6, <1>8 DEF vars, jobVars, historyVars
<1>9. CASE \/ Skip \/ BeginRemoval \/ EndRemoval \/ RemovalFails \/ Unfinished \/ Launch
          \/ Replace \/ Save \/ KeepFailed \/ DriverReturns \/ DriverDies
  <2>1. UNCHANGED <<at, counter, abort, halted>>
    BY <1>9 DEF Skip, BeginRemoval, EndRemoval, RemovalFails, Unfinished, Launch, Replace, Save,
       KeepFailed, DriverReturns, DriverDies, jobVars, historyVars
  <2>2. /\ pc' \notin {"off", "hook", "next"}
        /\ pc # "off" /\ pc # "hook" /\ ~(pc = "next" /\ abort)
    BY <1>9 DEF Skip, AtJob, BeginRemoval, EndRemoval, RemovalFails, Unfinished, Launch,
       Replace, Save, KeepFailed, DriverReturns, DriverDies
  <2> QED BY <1>6, <2>1, <2>2
<1> QED BY <1>1, <1>2, <1>3, <1>4, <1>5, <1>6, <1>7, <1>8, <1>9, AllSteps
        DEF Still, Finish, Kill

LEMMA NextCountKept == ASSUME QInv, [Next]_vars PROVE CountKept'
<1> USE DEF QInv, JInv
<1>1. halted \subseteq halted'
  BY DEF Next, Suite, Driver, Abort, Skip, BeginRemoval, EndRemoval, RemovalFails, Unfinished,
     Launch, Replace, Save, KeepFailed, Record, Hook, Finish, MakeDirectory, Report, OrphanEnds,
     DriverReturns, DriverDies, Invoke, Kill, vars, driverRest, historyVars
<1>2. \A p : Ordered(p)' => Ordered(p) BY <1>1 DEF Ordered
<1>3. ASSUME NEW d \in DOMAIN dirs', d.suffix = ""
      PROVE  d \in DOMAIN dirs \/ (Save /\ d = Of(Current))
  <2>1. d \in Directories BY NextType DEF TypeOK, TreeOK
  <2>2. d.number = 0 \/ d.number # 0 OBVIOUS
  <2>3. CASE Still BY <2>3, StillTree
  <2>4. ASSUME NEW p \in Running, Moves(p) PROVE d \in DOMAIN dirs
    <3>1. Tmp(p.name).suffix = ".tmp" BY DEF Tmp
    <3>2. d # Tmp(p.name) BY <1>3, <3>1
    <3> QED BY <2>4, <3>2, DriverDirs DEF Untouched
  <2>5. CASE BeginRemoval \/ EndRemoval \/ Replace
    BY <2>5 DEF BeginRemoval, EndRemoval, Replace, Minus
  <2>6. CASE Save
    BY <2>6 DEF Save, Moved
  <2>7. CASE KeepFailed
    <3>1. \A k : Fail(Current, k).suffix = ".FAIL" BY DEF Fail
    <3>2. \A k : d # Fail(Current, k) BY <1>3, <3>1
    <3> QED BY <2>7, <3>2 DEF KeepFailed, Moved
  <2> QED BY <2>3, <2>4, <2>5, <2>6, <2>7, AllSteps
<1> SUFFICES ASSUME NEW d \in DOMAIN dirs', d.suffix = ""
             PROVE  /\ d.number = 0
                    /\ Ordered(d.name.plugin)' =>
                         d.name.counter = Cardinality(Earlier(d.name.plugin, d.name.job))
  BY DEF CountKept, Earlier
<1>4. CASE d \in DOMAIN dirs
  BY <1>2, <1>4 DEF CountKept
<1>5. CASE Save /\ d = Of(Current)
  <2>1. d.number = 0 /\ d.name.plugin = at.plugin /\ d.name.job = at.job /\ d.name.counter = counter
    BY <1>5 DEF Of, Current
  <2>2. ASSUME Ordered(d.name.plugin)'
        PROVE  d.name.counter = Cardinality(Earlier(d.name.plugin, d.name.job))
    <3>1. Ordered(at.plugin) BY <1>2, <2>1, <2>2
    <3>2. /\ IsFiniteSet(Earlier(at.plugin, at.job))
          /\ counter = Cardinality(Earlier(at.plugin, at.job)) + 0
      BY <1>5, <3>1 DEF CountNow, Save
    <3>3. Cardinality(Earlier(at.plugin, at.job)) \in Nat
      BY <3>2, FS_CardinalityType
    <3>4. d.name.counter = Cardinality(Earlier(at.plugin, at.job))
      <4>1. Cardinality(Earlier(at.plugin, at.job)) + 0 = Cardinality(Earlier(at.plugin, at.job))
        BY <3>3, NothingMore
      <4>2. counter = Cardinality(Earlier(at.plugin, at.job))
        BY <3>2, <4>1
      <4> QED BY <2>1, <4>2
    <3> QED BY <2>1, <3>4
  <2> QED BY <2>1, <2>2
<1> QED BY <1>3, <1>4, <1>5

LEMMA NextQInv == QInv /\ [Next]_vars => QInv'
BY NextJInv, NextCountNow, NextCountKept DEF QInv

\* Where no plugin has stopped early before the one a job belongs to, all the job's directories
\* have the name that it is about to run under.
LEMMA StepRepeatsNothing ==
  ASSUME QInv, [Next]_vars, NEW p \in Plugins, NEW j \in 1 .. Plan[p].jobs, Starts(p, j), cfg.restart
  PROVE  \/ \A d \in DOMAIN dirs : d.suffix = "" /\ d.name.plugin = p /\ d.name.job = j => ~IsReportDir(d)
         \/ \E q \in halted : q < p
<1> SUFFICES ASSUME Ordered(p), NEW d \in DOMAIN dirs, d.suffix = "", d.name.plugin = p, d.name.job = j,
                    IsReportDir(d)
             PROVE  FALSE
  BY DEF Ordered
<1>1. pc = "launch" /\ at.plugin = p /\ at.job = j
  BY DEF Starts
<1>2. d.name.counter = Cardinality(Earlier(p, j))
  BY DEF QInv, CountKept
<1>3. counter = Cardinality(Earlier(p, j)) + 0 /\ IsFiniteSet(Earlier(p, j))
  BY <1>1 DEF QInv, CountNow
<1>4. d.name.counter = counter
  <2>1. Cardinality(Earlier(p, j)) \in Nat
    BY <1>3, FS_CardinalityType
  <2>2. Cardinality(Earlier(p, j)) + 0 = Cardinality(Earlier(p, j))
    BY <2>1, NothingMore
  <2>3. counter = Cardinality(Earlier(p, j))
    BY <1>3, <2>2
  <2> QED BY <1>2, <2>3
<1>5. d \in Directories /\ d.name \in Names
  BY DEF QInv, JInv, TypeOK, TreeOK, Directories
<1>6. d.name = Current
  BY <1>1, <1>4, <1>5 DEF Current, Names
<1>7. d = Of(Current)
  <2>1. d.number = 0 BY DEF QInv, CountKept
  <2> QED BY <1>5, <1>6, <2>1 DEF Directories, Of
<1> QED BY <1>1, <1>7 DEF QInv, JInv, AtStep

\* A restart does not run a job again that has a report, unless a plugin before it has stopped early
\* in some invocation, for any plan, any number of invocations and any faults: the number in a job's
\* name is the number of jobs before it in the plan (run_clusterbuster_1).
THEOREM RestartsKeepJobs == Spec => RestartsRepeatNothing
<1>1. Init => QInv
  <2>1. Init => CountNow /\ CountKept /\ AbortLate
    BY DEF Init, CountNow, CountKept, AbortLate
  <2> QED BY <2>1, InitJInv DEF QInv
<1>2. QInv /\ [Next]_vars =>
        [\A p \in Plugins : \A j \in 1 .. Plan[p].jobs :
           Starts(p, j) /\ cfg.restart =>
             \/ \A d \in DOMAIN dirs : d.suffix = "" /\ d.name.plugin = p /\ d.name.job = j => ~IsReportDir(d)
             \/ \E q \in halted : q < p]_vars
  BY StepRepeatsNothing
<1> QED BY <1>1, <1>2, NextQInv, PTL DEF Spec, RestartsRepeatNothing
===========================================================================
