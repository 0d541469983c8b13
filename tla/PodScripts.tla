----------------------------- MODULE PodScripts -----------------------------
(***************************************************************************)
(* What a worker of each workload does, as the sequence of the operations  *)
(* that concern somebody else: its rounds at the sync pod, the files it    *)
(* makes and removes where others may have theirs, the database and the    *)
(* connections it shares, its jobs and its result.                         *)
(*                                                                         *)
(* A script has a body and a final part, which runs after the body and     *)
(* also after an exception in it.  An operation is a record of its kind    *)
(* and an argument:                                                        *)
(*   sync, result    a SYNC or an RSLT at the sync pod                     *)
(*   clear tree      remove everything in a tree                           *)
(*   make, need, drop  make, use or remove this worker's own directory     *)
(*   rmtree, mkdir   remove and make a directory named for the process     *)
(*   job name        run a job of the workload                             *)
(*   connect, serve  a connection to the server; serving the clients       *)
(*   probe, start    is the pod's database listening; start it if not      *)
(*   clock           stop iterating when the time is over                  *)
(*   raise, forever  an exception; nothing more                            *)
(***************************************************************************)
EXTENDS Workloads

Op(op, arg) == <<[op |-> op, arg |-> arg]>>
Do(op) == Op(op, <<>>)

Sync == Do("sync")

\* The repetition of a piece of script.
Times(n, Piece(_)) == FlattenSeq([i \in 1..n |-> Piece(i)])

\* Defect: the one that clears the tree does not wait for the others, nor they for it.
CleanupTreeAlone(tree, doit) == IF doit THEN Op("clear", <<tree>>) ELSE <<>>

\* All workers synchronize, whoever of them removes the tree.
CleanupTree(tree, doit) == (IF doit THEN Op("clear", <<tree>>) ELSE <<>>) \o Sync

Script(body) == [body |-> body, final |-> <<>>]

(***************************************************************************)
(* fio: one result for every file of the user configmap, each taken for a  *)
(* job file, except those whose name says that theirs does not count.  A   *)
(* directory's files are taken in the same order in every pod.             *)
(***************************************************************************)
\* The names among those in use that hold `-IGNORE-'.
Ignored == {"00-IGNORE-"}

ToBools(s) == [i \in DOMAIN s |-> IF s[i] = 0 THEN 0 ELSE 1]

FioJobs(a) ==
    LET combos == OuterProduct(<<a.blocksizes, a.patterns, a.iodepths, a.numjobs, ToBools(a.fdatasyncs),
                                 ToBools(a.directs), a.ioengines>>)
    IN [i \in DOMAIN combos |-> <<i, combos[i][2], combos[i][1]>> \o SubSeq(combos[i], 3, 7)]

FioRunone(a, jobfile) ==
    Do("need") \o Times(Len(FioJobs(a)), LAMBDA i : Sync \o Op("job", FioJobs(a)[i])) \o
    (IF jobfile \in Ignored THEN <<>> ELSE Do("result"))

FioScript(a, process, jobfiles) ==
    [body |-> CleanupTree(a.rundir, process = 0) \o Do("make") \o
              (IF jobfiles = <<>> THEN Do("raise")
                                   ELSE Times(Len(jobfiles), LAMBDA i : FioRunone(a, jobfiles[i]))),
     final |-> CleanupTree(a.rundir, process = 0)]

(***************************************************************************)
(* files: every worker clears the directories, which are different ones,   *)
(* and all wait before and after creating, reading and removing what each  *)
(* has in every one of them.                                               *)
(***************************************************************************)
FilesOperation(piece) == Sync \o piece \o Sync

FilesScript(a) ==
    Script(Times(Len(a.dirs), LAMBDA i : CleanupTree(a.dirs[i], TRUE)) \o
           FilesOperation(Do("make")) \o FilesOperation(Do("need")) \o FilesOperation(Do("drop")) \o
           Do("result"))

(***************************************************************************)
(* sysbench.                                                               *)
(***************************************************************************)
SysbenchTests(a) == IF a.tests = <<>> THEN <<"seqwr", "seqrewr", "seqrd", "rndrd", "rndwr", "rndrw">> ELSE a.tests
SysbenchModes(a) == IF a.modes = <<>> THEN <<"sync">> ELSE a.modes

SysbenchSimple(a) == Sync \o Op("job", <<a.workload>>) \o Do("result")

SysbenchFileio(a) ==
    LET cases == OuterProduct(<<SysbenchModes(a), SysbenchTests(a)>>)
    IN Do("rmtree") \o Do("mkdir") \o
       Times(Len(cases), LAMBDA i : Sync \o Do("need") \o Sync \o Op("job", cases[i]) \o Sync \o Do("need")) \o
       Do("result")

SysbenchScript(a) == Script(IF a.workload = "fileio" THEN SysbenchFileio(a) ELSE SysbenchSimple(a))

(***************************************************************************)
(* memory: with synchronized iterations, three rounds in each.  With a     *)
(* running time the clock may end it at two places.  Running the           *)
(* allocation in a child process loses the answer and waits for it.        *)
(***************************************************************************)
MemoryOp(a) == IF a.sync = 1 THEN Sync \o Op("job", <<"memory">>) \o Sync ELSE Op("job", <<"memory">>)

MemoryIteration(a) ==
    LET clock == IF a.runtime > 0 THEN Do("clock") ELSE <<>>
    IN (IF a.sync = 1 THEN Sync ELSE <<>>) \o clock \o MemoryOp(a) \o
       (IF a.subproc = 1 THEN Do("forever") ELSE <<>>) \o clock

MemoryScript(a) ==
    Script((IF a.iterations = 0 THEN Do("raise") ELSE Times(a.iterations, LAMBDA i : MemoryIteration(a))) \o
           Do("result"))

(***************************************************************************)
(* hammerdb: each worker makes sure that the pod's database runs.          *)
(***************************************************************************)
EnsureDbRunning == Do("probe") \o Do("start")

HammerdbScript(a) ==
    Script(Sync \o EnsureDbRunning \o Sync \o Op("job", <<a.driver>>) \o Do("result"))

(***************************************************************************)
(* uperf and server.                                                       *)
(***************************************************************************)
UperfJobs(a) == [i \in DOMAIN a.tests |-> <<i, a.tests[i][2], a.tests[i][1]>> \o SubSeq(a.tests[i], 3, 4)]

\* Without a test the times of the run are never set.
UperfClientScript(a) ==
    Script(IF a.tests = <<>> THEN Do("raise")
           ELSE Times(Len(a.tests), LAMBDA i : Sync \o Op("job", UperfJobs(a)[i])) \o Do("result"))

UperfServerScript == Script(Do("forever"))

ClientScript == Script(Do("connect") \o Sync \o Op("job", <<"transfer">>) \o Do("result"))

\* The server's workers return without a result: the pod client reports for them.
ServerScript(a) == Script(Op("serve", <<a.expected>>) \o Do("result"))

(***************************************************************************)
(* The others.                                                             *)
(***************************************************************************)
SynctestScript(a) == Script(Times(a.count * a.clustercount, LAMBDA i : Sync) \o Do("result"))
ByoScript(a) == Script(Op("job", <<a.command>>) \o Do("result"))
CpusoakerScript == Script(Op("job", <<"cpusoaker">>) \o Do("result"))
LoggerScript == Script(Op("job", <<"logger">>) \o Do("result"))
SleepScript == Script(Op("job", <<"sleep">>) \o Do("result"))
FailureScript == Script(Do("raise"))
WaitforeverScript == Script(Do("forever"))
DropCacheScript == Script(Do("forever"))

\* The script of a worker, for its number in the container and the files of the user configmap.
ScriptOf(a, process, userfiles) ==
    CASE a.script = "fio.py" -> FioScript(a, process, userfiles)
      [] a.script = "files.py" -> FilesScript(a)
      [] a.script = "sysbench.py" -> SysbenchScript(a)
      [] a.script = "memory.py" -> MemoryScript(a)
      [] a.script = "hammerdb.py" -> HammerdbScript(a)
      [] a.script = "uperf-client.py" -> UperfClientScript(a)
      [] a.script = "uperf-server.py" -> UperfServerScript
      [] a.script = "client.py" -> ClientScript
      [] a.script = "server.py" -> ServerScript(a)
      [] a.script = "synctest.py" -> SynctestScript(a)
      [] a.script = "byo.py" -> ByoScript(a)
      [] a.script = "cpusoaker.py" -> CpusoakerScript
      [] a.script = "logger.py" -> LoggerScript
      [] a.script = "sleep.py" -> SleepScript
      [] a.script = "failure.py" -> FailureScript
      [] a.script = "waitforever.py" -> WaitforeverScript
      [] a.script = "drop_cache.py" -> DropCacheScript
=============================================================================
