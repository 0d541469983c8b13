------------------------------ MODULE CiSuite ------------------------------
(***************************************************************************)
(* The CI suite over its artifact directory: run_suite_with_orchestration  *)
(* in lib/clusterbuster/ci/run_perf.py, the jobs of suite.py and           *)
(* execution.py, and the restart of restart.py, over several invocations.  *)
(*                                                                         *)
(* Every job is one process of the clusterbuster driver, which writes its  *)
(* report into the job's directory with the suffix .tmp; the suite renames *)
(* that directory when the driver has ended.  An invocation may be killed  *)
(* at any step, with its driver or without it: then the driver goes on     *)
(* writing where the next invocation's driver writes.                      *)
(*                                                                         *)
(* Left out: parsing options and profiles, choosing nodes and runtime      *)
(* classes, dry runs (which have no directories), and an artifact          *)
(* directory that is itself a job's.                                       *)
(***************************************************************************)
EXTENDS Naturals, Sequences

CONSTANTS
  Plan,            \* the plugins in order, each with its workload and its number of jobs
  Configurations,  \* the command lines
  None,            \* no results file yet
  MaxInvocations,  \* how often the suite is invoked
  MaxFaults        \* how many drivers fail, reports are not written and invocations are killed

Workloads == {"memory", "fio", "uperf", "files", "cpusoaker", "hammerdb"}

ASSUME PlanAssumption == Plan \in Seq([workload : Workloads, jobs : Nat \ {0}])
ASSUME ConfigurationAssumption == Configurations \subseteq [restart : BOOLEAN, hardFail : BOOLEAN]
ASSUME BoundAssumption == MaxInvocations \in Nat /\ MaxFaults \in Nat

Plugins == 1 .. Len(Plan)

\* A job's name has its workload, the suite's counter and what it runs.
Names == [plugin : Plugins, counter : Nat, job : Nat]

Directories == [name : Names, suffix : {"", ".tmp", ".FAIL"}, number : Nat]
Of(n) == [name |-> n, suffix |-> "", number |-> 0]
Tmp(n) == [name |-> n, suffix |-> ".tmp", number |-> 0]
Fail(n, k) == [name |-> n, suffix |-> ".FAIL", number |-> k]

\* The report file of a directory, the uuid in it, and whether the rest is whole.
Contents == [report : {"none", "broken", "Success", "Failure"}, uuid : Nat, whole : BOOLEAN]

Stages == {"started", "running", "Success", "Failure", "ended"}
Drivers == [name : Names, uuid : Nat, stage : Stages]

ASSUME NoneAssumption == None \notin Drivers

VARIABLES
  \* the artifact directory: its job directories and the results file
  dirs, results,
  \* the invocation: its command line, where it is, its uuid, the plugin and job it is at, the
  \* job counter, the jobs that ran, the failures, _hard_fail_abort and the driver's exit status
  cfg, pc, uuid, at, counter, jobs, failures, abort, status,
  \* the driver it waits for, and those whose invocation was killed without them
  driver, orphans,
  \* history: invocations so far, whether all but the first were restarts, the names whose report
  \* a driver did not write or whose removal was cut short, the plugins that stopped early, faults
  invocations, chain, doubtful, halted, faults

treeVars == <<dirs, results>>
jobVars == <<at, counter, jobs, failures, abort, status>>
callVars == <<cfg, uuid>>
historyVars == <<invocations, chain, halted>>
vars == <<treeVars, callVars, pc, jobVars, driver, orphans, historyVars, doubtful, faults>>

---------------------------------------------------------------------------
(* The artifact directory. *)

Exists(d) == d \in DOMAIN dirs

With(d, content) == [e \in DOMAIN dirs \cup {d} |-> IF e = d THEN content ELSE dirs[e]]
Minus(d) == [e \in DOMAIN dirs \ {d} |-> dirs[e]]
Moved(d, to) ==
  [e \in (DOMAIN dirs \ {d}) \cup {to} |-> IF e = to THEN dirs[d] ELSE dirs[e]]

\* is_report_dir asks for the file, whatever is in it.
IsReportDir(d) == Exists(d) /\ dirs[d].report # "none"

\* extract_metadata_uuid
Readable(d) == IsReportDir(d) /\ dirs[d].report # "broken"

\* recover_uuid_from_artifact_root takes the first directory by name: which that is depends on
\* the workloads' names.
Recoverable == {dirs[d].uuid : d \in {e \in DOMAIN dirs : Readable(e)}}

---------------------------------------------------------------------------
(* One invocation. *)

Faulty == faults < MaxFaults /\ faults' = faults + 1
Faultless == UNCHANGED faults

\* memory and cpusoaker return at the first job that fails.
StopsOnFailure(p) == Plan[p].workload \in {"memory", "cpusoaker"}

\* cpusoaker's last job fails for want of room, which is no failure of the suite.
ErrorIsFailure(p) == Plan[p].workload # "cpusoaker"

Stops(st) == st # 0 /\ StopsOnFailure(at.plugin)

\* Defect: a plugin's last job is not its last.
AfterTooMany(st) ==
  IF Stops(st) \/ at.job > Plan[at.plugin].jobs
  THEN [plugin |-> at.plugin + 1, job |-> 1]
  ELSE [at EXCEPT !.job = @ + 1]

\* Where the suite goes on once a job has returned.
After(st) ==
  IF Stops(st) \/ at.job = Plan[at.plugin].jobs
  THEN [plugin |-> at.plugin + 1, job |-> 1]
  ELSE [at EXCEPT !.job = @ + 1]

Current == [plugin |-> at.plugin, counter |-> counter, job |-> at.job]

\* Defect: a restart takes a uuid of its own.
OwnUuid(restart) == {invocations + 1}

Uuids(restart) == IF restart /\ Recoverable # {} THEN Recoverable ELSE {invocations + 1}

Invoke ==
  /\ pc = "off" /\ invocations < MaxInvocations
  /\ invocations' = invocations + 1
  /\ cfg' \in Configurations
  /\ chain' = (invocations = 0 \/ (chain /\ cfg'.restart))
  /\ uuid' \in Uuids(cfg'.restart)
  /\ pc' = "next" /\ at' = [plugin |-> 1, job |-> 1] /\ counter' = 0
  /\ jobs' = {} /\ failures' = {} /\ abort' = FALSE /\ status' = 0
  /\ UNCHANGED <<treeVars, driver, orphans, halted, doubtful, faults>>

AtJob == pc = "next" /\ at.plugin \in Plugins

\* run_clusterbuster_1 after a failure that ended the suite.
Abort ==
  /\ AtJob /\ abort
  /\ at' = After(1)
  /\ UNCHANGED <<treeVars, callVars, pc, counter, jobs, failures, abort, status, driver, orphans,
                 historyVars, doubtful, faults>>

\* Defect: a restart runs every job.
RunsAgain(d) == FALSE

Finished(d) == IsReportDir(d)

Skip ==
  /\ AtJob /\ ~abort /\ cfg.restart /\ Finished(Of(Current))
  /\ status' = 0 /\ pc' = "record"
  /\ UNCHANGED <<treeVars, callVars, at, counter, jobs, failures, abort, driver, orphans,
                 historyVars, doubtful, faults>>

\* Without --restart a finished job's directory is removed, file by file.
BeginRemoval ==
  /\ AtJob /\ ~abort /\ ~cfg.restart /\ Finished(Of(Current))
  /\ \E left \in {"none", dirs[Of(Current)].report} :
       dirs' = [dirs EXCEPT ![Of(Current)].whole = FALSE, ![Of(Current)].report = left]
  /\ pc' = "remove"
  /\ UNCHANGED <<results, callVars, jobVars, driver, orphans, historyVars, doubtful, faults>>

EndRemoval ==
  /\ pc = "remove"
  /\ dirs' = Minus(Of(Current))
  /\ pc' = "launch"
  /\ UNCHANGED <<results, callVars, jobVars, driver, orphans, historyVars, doubtful, faults>>

\* rmtree ignores its errors, and may leave files.
RemovalFails ==
  /\ pc = "remove" /\ Faulty
  /\ pc' = "launch"
  /\ doubtful' = doubtful \cup {Current}
  /\ UNCHANGED <<treeVars, callVars, jobVars, driver, orphans, historyVars>>

Unfinished ==
  /\ AtJob /\ ~abort /\ ~Finished(Of(Current))
  /\ pc' = "launch"
  /\ UNCHANGED <<treeVars, callVars, jobVars, driver, orphans, historyVars, doubtful, faults>>

Launch ==
  /\ pc = "launch"
  /\ driver' = [name |-> Current, uuid |-> uuid, stage |-> "started"]
  /\ pc' = "wait"
  /\ UNCHANGED <<treeVars, callVars, jobVars, orphans, historyVars, doubtful, faults>>

\* The driver has ended with success: its directory takes the place of one without a report.
Replace ==
  /\ pc = "save" /\ Exists(Of(Current))
  /\ dirs' = Minus(Of(Current))
  /\ UNCHANGED <<results, callVars, pc, jobVars, driver, orphans, historyVars, doubtful, faults>>

Save ==
  /\ pc = "save" /\ ~Exists(Of(Current))
  /\ dirs' = Moved(Tmp(Current), Of(Current))
  /\ pc' = "record"
  /\ UNCHANGED <<results, callVars, jobVars, driver, orphans, historyVars, doubtful, faults>>

\* Defect: every failure of a job goes to the same directory.
SameSuffix(n, k) == k = 0

\* The first number that is not taken.
FreeSuffix(n, k) == ~Exists(Fail(n, k)) /\ \A j \in 0 .. k - 1 : Exists(Fail(n, j))

KeepFailed ==
  /\ pc = "keep"
  /\ IF Exists(Tmp(Current))
     THEN \E k \in 0 .. invocations :
            FreeSuffix(Current, k) /\ dirs' = Moved(Tmp(Current), Fail(Current, k))
     ELSE UNCHANGED dirs
  /\ pc' = "record"
  /\ UNCHANGED <<results, callVars, jobVars, driver, orphans, historyVars, doubtful, faults>>

\* Defect: a failure is recorded only if it ends the suite.
FailsHard == status # 0 /\ ErrorIsFailure(at.plugin) /\ cfg.hardFail

Fails == status # 0 /\ ErrorIsFailure(at.plugin)

\* run_clusterbuster_1 counts the job.
Record ==
  /\ pc = "record"
  /\ jobs' = IF status = 0 THEN jobs \cup {Current} ELSE jobs
  /\ failures' = IF Fails THEN failures \cup {Current} ELSE failures
  /\ abort' = (abort \/ (Fails /\ cfg.hardFail))
  /\ counter' = counter + 1
  /\ pc' = "hook"
  /\ UNCHANGED <<treeVars, callVars, at, status, driver, orphans, historyVars, doubtful, faults>>

Written(word) == [status |-> word, ran |-> jobs, failed |-> failures]

\* partial_results_hook: the results file is replaced at once.
Hook ==
  /\ pc = "hook"
  /\ results' = Written(IF failures = {} THEN "PASSING" ELSE "FAILING")
  /\ at' = After(status) /\ pc' = "next"
  /\ halted' = IF Stops(status) THEN halted \cup {at.plugin} ELSE halted
  /\ UNCHANGED <<dirs, callVars, counter, jobs, failures, abort, status, driver, orphans,
                 invocations, chain, doubtful, faults>>

Finish ==
  /\ pc = "next" /\ at.plugin \notin Plugins
  /\ results' = Written(IF failures = {} THEN "PASS" ELSE "FAIL")
  /\ pc' = "off"
  /\ UNCHANGED <<dirs, callVars, jobVars, driver, orphans, historyVars, doubtful, faults>>

Suite ==
  \/ Abort \/ Skip \/ BeginRemoval \/ EndRemoval \/ RemovalFails \/ Unfinished \/ Launch
  \/ Replace \/ Save \/ KeepFailed \/ Record \/ Hook \/ Finish

---------------------------------------------------------------------------
(* The driver, as the suite sees it. *)

\* A step of a driver p that leaves it as q.
Turn(p, q) ==
  \/ p = driver /\ driver' = q /\ UNCHANGED orphans
  \/ p \in orphans /\ orphans' = (orphans \ {p}) \cup {q} /\ UNCHANGED driver

driverRest == <<results, callVars, pc, jobVars, historyVars>>

\* It creates its artifact directory, or finds what an earlier one left there.
MakeDirectory(p) ==
  /\ p.stage = "started"
  /\ Turn(p, [p EXCEPT !.stage = "running"])
  /\ dirs' = IF Exists(Tmp(p.name)) THEN dirs
             ELSE With(Tmp(p.name), [report |-> "none", uuid |-> p.uuid, whole |-> TRUE])
  /\ UNCHANGED <<driverRest, doubtful, faults>>

\* Its report is written, or only part of it, or none: the exceptions are caught.
Report(p) ==
  /\ p.stage = "running"
  /\ \E outcome \in {"Success", "Failure"}, written \in {"all", "part", "none"} :
       /\ Turn(p, [p EXCEPT !.stage = outcome])
       /\ IF outcome = "Success" /\ written = "all" THEN Faultless ELSE Faulty
       /\ dirs' = IF Exists(Tmp(p.name)) /\ written # "none"
                  THEN [dirs EXCEPT ![Tmp(p.name)].report = IF written = "all" THEN outcome ELSE "broken",
                                    ![Tmp(p.name)].uuid = p.uuid]
                  ELSE dirs
       /\ doubtful' = IF written = "all" THEN doubtful ELSE doubtful \cup {p.name}
  /\ UNCHANGED driverRest

\* Defect: a driver's failure is taken for success.
SuccessAnyway(p) == TRUE

Succeeded(p) == p.stage = "Success"

\* subprocess.run returns.
DriverReturns ==
  /\ pc = "wait" /\ driver.stage \in {"Success", "Failure"}
  /\ status' = IF Succeeded(driver) THEN 0 ELSE 1
  /\ pc' = IF Succeeded(driver) THEN "save" ELSE "keep"
  /\ driver' = None
  /\ UNCHANGED <<treeVars, callVars, at, counter, jobs, failures, abort, orphans, historyVars,
                 doubtful, faults>>

\* It dies, fails before it has a directory, or exits with a failure after a report of success.
DriverDies ==
  /\ pc = "wait" /\ driver.stage \in {"started", "running", "Success"}
  /\ Faulty
  /\ status' = 1 /\ pc' = "keep" /\ driver' = None
  /\ UNCHANGED <<treeVars, callVars, at, counter, jobs, failures, abort, orphans, historyVars,
                 doubtful>>

OrphanEnds(p) ==
  /\ p \in orphans /\ p.stage \in {"Success", "Failure"}
  /\ orphans' = (orphans \ {p}) \cup {[p EXCEPT !.stage = "ended"]}
  /\ UNCHANGED <<dirs, driverRest, driver, doubtful, faults>>

Running == orphans \cup (IF pc = "wait" THEN {driver} ELSE {})

Driver == DriverReturns \/ DriverDies \/ \E p \in Running : MakeDirectory(p) \/ Report(p) \/ OrphanEnds(p)

\* The invocation is killed, or a plugin raises: with it dies its driver, or goes on alone.
Kill ==
  /\ pc # "off" /\ Faulty
  /\ pc' = "off" /\ driver' = None
  /\ orphans' \in IF pc = "wait" THEN {orphans, orphans \cup {driver}} ELSE {orphans}
  /\ doubtful' = IF pc = "remove" THEN doubtful \cup {Current} ELSE doubtful
  /\ UNCHANGED <<treeVars, callVars, jobVars, historyVars>>

Init ==
  /\ dirs = [d \in {} |-> 0] /\ results = None
  /\ cfg \in Configurations /\ pc = "off" /\ uuid = 0 /\ at = [plugin |-> 1, job |-> 1]
  /\ counter = 0 /\ jobs = {} /\ failures = {} /\ abort = FALSE /\ status = 0
  /\ driver = None /\ orphans = {}
  /\ invocations = 0 /\ chain = TRUE /\ doubtful = {} /\ halted = {} /\ faults = 0

Next == Invoke \/ Suite \/ Driver \/ Kill

Spec == Init /\ [][Next]_vars

---------------------------------------------------------------------------
(* Properties. *)

Phases == {"off", "next", "remove", "launch", "wait", "save", "keep", "record", "hook"}

TreeOK ==
  /\ DOMAIN dirs \subseteq Directories
  /\ \A d \in DOMAIN dirs : dirs[d] \in Contents
  /\ results = None \/
     results \in [status : {"PASSING", "FAILING", "PASS", "FAIL"}, ran : SUBSET Names, failed : SUBSET Names]

CallOK ==
  /\ cfg \in Configurations /\ pc \in Phases /\ uuid \in Nat
  /\ at \in [plugin : Nat \ {0}, job : Nat \ {0}] /\ counter \in Nat
  /\ at.plugin \in Plugins => at.job <= Plan[at.plugin].jobs
  /\ pc \notin {"off", "next"} => at.plugin \in Plugins
  /\ jobs \subseteq Names /\ failures \subseteq Names /\ abort \in BOOLEAN /\ status \in {0, 1}

DriverOK ==
  /\ IF pc = "wait" THEN driver \in Drivers ELSE driver = None
  /\ orphans \subseteq Drivers
  /\ pc = "save" => Exists(Tmp(Current))

HistoryOK ==
  /\ invocations \in 0 .. MaxInvocations /\ faults \in 0 .. MaxFaults /\ chain \in BOOLEAN
  /\ doubtful \subseteq Names /\ halted \subseteq Plugins

\* Every variable keeps to its states, a job is in its plugin's range, the suite has a driver
\* exactly while it waits for one, and what it is about to rename exists.
TypeOK == TreeOK /\ CallOK /\ DriverOK /\ HistoryOK

\* Names that an orphan has written under.
Shared(n) == \E p \in orphans : p.name = n

Sound(n) == n \notin doubtful /\ ~Shared(n)

\* A job that the suite counts as run has a whole directory with the report of a run that
\* succeeded, also when it was skipped and when killed invocations left directories of its name,
\* but where a driver could not write its report, a driver outlived its invocation, or a removal
\* was cut short (run_clusterbuster_job).
CountedJobsSucceeded ==
  \A n \in jobs : Sound(n) =>
    Exists(Of(n)) /\ dirs[Of(n)].report = "Success" /\ dirs[Of(n)].whole

\* What the results file says is so: as long as every invocation but the first is a restart, what
\* it lists as run has its report on the disk; and PASS is written only when every job has run,
\* but for cpusoaker's last ones (write_ci_results_json, run_suite_with_orchestration).
Listed == \A n \in results.ran : Sound(n) => IsReportDir(Of(n))

AllRan ==
  \A p \in Plugins : ErrorIsFailure(p) =>
    \A j \in 1 .. Plan[p].jobs : \E n \in results.ran : n.plugin = p /\ n.job = j

ResultsTrue ==
  results # None => (chain => Listed) /\ (results.status = "PASS" => AllRan)

\* The reports of a suite carry one uuid as long as every invocation but the first is a restart
\* and no driver outlives its invocation (recover_uuid_from_artifact_root).
OneUuid ==
  chain /\ orphans = {} =>
    \A d, e \in DOMAIN dirs : Readable(d) /\ Readable(e) => dirs[d].uuid = dirs[e].uuid

\* A restart neither changes nor removes a directory that has a report, and what a failed job
\* left is kept by every invocation.
KeepsReports ==
  [][\A d \in DOMAIN dirs :
       (d.suffix = ".FAIL" \/ (d.suffix = "" /\ cfg.restart /\ IsReportDir(d))) =>
         d \in DOMAIN dirs' /\ dirs'[d] = dirs[d]]_vars

Starts(p, j) == pc = "launch" /\ pc' = "wait" /\ at = [plugin |-> p, job |-> j]

\* A restart does not run a job again that has a report, unless a plugin before it has stopped
\* early in some invocation: that changes the numbers of the jobs, and with them their names.
RestartsRepeatNothing ==
  [][\A p \in Plugins : \A j \in 1 .. Plan[p].jobs :
       Starts(p, j) /\ cfg.restart =>
         \/ \A d \in DOMAIN dirs : d.suffix = "" /\ d.name.plugin = p /\ d.name.job = j => ~IsReportDir(d)
         \/ \E q \in halted : q < p]_vars
===========================================================================
