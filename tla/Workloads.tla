------------------------------ MODULE Workloads ------------------------------
(***************************************************************************)
(* The driver's side of the workloads: the registry that finds a workload  *)
(* by name or alias, the options every workload takes and how it reads     *)
(* them, what it changes in the configuration when the options are         *)
(* complete, and what it asks of the rest of the driver: namespaces with   *)
(* a policy, drop-cache pods, sysctls, ports, arguments for its pods and   *)
(* the description of its jobs that the report is read with.               *)
(*                                                                         *)
(* An option is a record of a name and a value that is parsed already: the *)
(* several spellings the code takes are one name here, a list is a         *)
(* sequence.  A configuration is a record (see RunConfig).                 *)
(***************************************************************************)
EXTENDS Integers, SequencesExt

\* The numeral of a number.
N(i) == ToString(i)

(***************************************************************************)
(* The registry.                                                           *)
(***************************************************************************)
Registered ==
    {"byo", "cpusoaker", "failure", "files", "fio", "hammerdb", "logger", "memory", "pausepod",
     "server", "sleep", "synctest", "sysbench", "uperf", "waitforever"}

Aliases ==
    [w \in Registered |-> w] @@
    ("byowl" :> "byo") @@ ("bringyourown" :> "byo") @@
    ("cpu" :> "cpusoaker") @@ ("cpusoak" :> "cpusoaker") @@
    ("file" :> "files") @@ ("hammer" :> "hammerdb") @@
    ("log" :> "logger") @@ ("simple-log" :> "logger") @@ ("logging" :> "logger") @@
    ("pause" :> "pausepod") @@ ("simple-pausepod" :> "pausepod") @@
    ("clusterbuster" :> "sleep")

\* str.lower() for the spellings the instances use.
Lower(name) == CASE name = "CPU" -> "cpu" [] name = "Fio" -> "fio" [] OTHER -> name

\* config.build keeps a name the registry does not know, which only fails when the objects of
\* the run are planned.
ResolveAlias(name) == IF Lower(name) \in DOMAIN Aliases THEN Aliases[Lower(name)] ELSE name

(***************************************************************************)
(* The options of each workload, with their defaults.                      *)
(***************************************************************************)
FioOptions ==
    [patterns |-> <<"read">>, blocksizes |-> <<4096>>, ioengines |-> <<"libaio">>,
     iodepths |-> <<1>>, numjobs |-> <<1>>, directs |-> <<0>>, fdatasyncs |-> <<1>>,
     ramptime |-> 5, workdir |-> "", dropcache |-> 1, jobfile |-> "generic.jobfile"]

UperfOptions ==
    [msgsizes |-> <<1024>>, testtypes |-> <<"stream">>, protos |-> <<"tcp">>, nthrs |-> <<1>>,
     ramptime |-> 3, tests |-> <<>>]

ServerOptions == [msgsize |-> 32768]

MemoryOptions ==
    [iterations |-> 1, idle |-> 0, idlefirst |-> 2, sync |-> 1, subproc |-> 0, stride |-> 0,
     startprobability |-> ""]

ByoOptions == [workdir |-> "", dropcache |-> 0, name |-> "", files |-> <<>>]

SysbenchOptions ==
    [workload |-> "fileio", tests |-> <<"seqwr", "seqrd", "rndwr", "rndrd">>, modes |-> <<"sync">>]

FilesOptions ==
    [filesize |-> 4096, blocksize |-> 0, dirspervolume |-> 1, filesperdir |-> 1, direct |-> 0,
     dropcache |-> 1, dirs |-> <<>>]

HammerdbOptions ==
    [driver |-> "pg", benchmark |-> "tpcc", virtualusers |-> 4, rampup |-> 1, workdir |-> ""]

LoggerOptions == [bytesperline |-> 1, linesperio |-> 1, xfercount |-> 1, delay |-> 0]

SynctestOptions == [count |-> 5, clustercount |-> 1, sleep |-> 0]

OptionsOf(w) ==
    CASE w = "fio" -> FioOptions
      [] w = "uperf" -> UperfOptions
      [] w = "server" -> ServerOptions
      [] w = "memory" -> MemoryOptions
      [] w = "byo" -> ByoOptions
      [] w = "sysbench" -> SysbenchOptions
      [] w = "files" -> FilesOptions
      [] w = "hammerdb" -> HammerdbOptions
      [] w = "logger" -> LoggerOptions
      [] w = "synctest" -> SynctestOptions
      [] OTHER -> <<>>

(***************************************************************************)
(* The combinations of a job's parameters, in the order of nested loops:   *)
(* the last parameter varies fastest.                                      *)
(***************************************************************************)
OuterProduct(lists) ==
    FoldLeft(LAMBDA combos, list :
                 FlattenSeq([i \in DOMAIN combos |->
                                [j \in DOMAIN list |-> Append(combos[i], list[j])]]),
             << <<>> >>, lists)

\* uperf's --test arguments, computed only when some uperf option is given.
UperfTests(o) == OuterProduct(<<o.testtypes, o.protos, o.msgsizes, o.nthrs>>)

(***************************************************************************)
(* One option given on the command line: unknown to the workload, refused  *)
(* by leaving the program, or taken.  `acc' is the record of the options   *)
(* so far, the unknown ones and whether one was refused.                   *)
(***************************************************************************)
Taken(o, opt) == IF opt.name \in {"files", "dirs"} THEN [o EXCEPT ![opt.name] = Append(@, opt.value)]
                                                   ELSE [o EXCEPT ![opt.name] = opt.value]

RefusedOption(w, o) == \/ w = "uperf" /\ o.msgsizes # <<>> /\ o.msgsizes[1] <= 0
                       \/ w = "server" /\ o.msgsize <= 0

Settled(w, o) ==
    CASE w = "uperf" -> [o EXCEPT !.ramptime = IF @ < 0 THEN 0 ELSE @, !.tests = UperfTests(o)]
      [] w = "hammerdb" -> [o EXCEPT !.driver = IF @ \in {"pg", "mariadb"} THEN @ ELSE "pg"]
      [] OTHER -> o

OptionNames(w) == IF w = "uperf" THEN DOMAIN UperfOptions \ {"tests"} ELSE DOMAIN OptionsOf(w)

ProcessOption(w, acc, opt) ==
    LET o == Taken(acc.opts, opt)
    IN IF acc.exit THEN acc
       ELSE IF opt.name \notin OptionNames(w) THEN [acc EXCEPT !.unknown = @ \cup {opt.name}]
       ELSE IF RefusedOption(w, o) THEN [acc EXCEPT !.exit = TRUE]
       ELSE [acc EXCEPT !.opts = Settled(w, o)]

ProcessOptions(w, given) ==
    FoldLeft(LAMBDA acc, opt : ProcessOption(w, acc, opt),
             [opts |-> OptionsOf(w), unknown |-> {}, exit |-> FALSE], given)

(***************************************************************************)
(* What a workload changes when the command line is complete.  `b' is the  *)
(* builder with the options read in b.opts.                                *)
(***************************************************************************)
FinalizeFio(b) ==
    [b EXCEPT !.runtime = IF @ = 0 THEN 60 ELSE @,
              !.opts = [@ EXCEPT !.workdir = IF @ = "" THEN b.workdir ELSE @]]

FinalizeHammerdb(b) ==
    [b EXCEPT !.vmcores = IF @ <= 1 THEN 2 ELSE @,
              !.starttimeout = IF b.dtype = "vm" /\ @ <= 180 THEN 600 ELSE @]

FinalizeOptions(b) ==
    CASE b.resolved = "fio" -> FinalizeFio(b)
      [] b.resolved = "hammerdb" -> FinalizeHammerdb(b)
      [] b.resolved \in {"uperf", "server", "pausepod", "waitforever"} -> [b EXCEPT !.processes = 1]
      [] OTHER -> b

\* The job file must exist; bring your own workload needs its command.
FinalizeExits(b) == \/ b.resolved = "fio" /\ b.opts.jobfile = "missing"
                    \/ b.resolved = "byo" /\ b.extraargs = <<>>

(***************************************************************************)
(* What a workload asks of the driver.                                     *)
(***************************************************************************)
IsClientServer(c) == c.resolved \in {"server", "uperf"}

\* The others have no result that the driver would wait for.
SupportsReporting(c) == c.resolved \notin {"pausepod", "sleep", "waitforever"}

RequiresDropCache(c) ==
    CASE c.resolved \in {"fio", "files", "byo"} -> c.opts.dropcache = 1
      [] c.resolved = "sysbench" -> c.opts.workload = "fileio"
      [] OTHER -> FALSE

WorkloadPolicy(c) ==
    CASE c.resolved = "sysbench" -> IF c.opts.workload = "fileio" THEN "privileged" ELSE "restricted"
      [] OTHER -> ""

Sysctls(c) == IF IsClientServer(c) /\ c.netserver = "" THEN {"net.ipv4.ip_local_port_range"} ELSE {}

\* The file named for a workload.
OwnFile ==
    [byo |-> "byo.py", cpusoaker |-> "cpusoaker.py", failure |-> "failure.py", files |-> "files.py",
     fio |-> "fio.py", hammerdb |-> "hammerdb.py", logger |-> "logger.py", memory |-> "memory.py",
     pausepod |-> "pausepod.py", sleep |-> "sleep.py", synctest |-> "synctest.py",
     sysbench |-> "sysbench.py", waitforever |-> "waitforever.py"]

\* The files of the system configmap that this workload adds, and its own of the user configmap.
ListConfigmaps(w) ==
    CASE w = "server" -> {"client.py", "server.py"}
      [] w = "uperf" -> {"uperf-client.py", "uperf-server.py", "uperf-mini.xml", "uperf-rr.xml",
                         "uperf-stream.xml"}
      [] OTHER -> {OwnFile[w]}

ListUserConfigmaps(c) ==
    CASE c.resolved = "fio" -> <<"02-fiojob">>
      [] c.resolved = "byo" -> <<c.extraargs[1]>> \o c.opts.files
      [] OTHER -> <<>>

(***************************************************************************)
(* The script a container runs and the arguments its workload depends on.  *)
(* `server' is the host a client is told to connect to.                    *)
(***************************************************************************)
ServerHost(c, ns, dep) == ns \o <<c.resolved, "server", N(dep), N(1)>>

FioArglist(c) ==
    [script |-> "fio.py", processes |-> c.processes, rundir |-> c.opts.workdir,
     blocksizes |-> c.opts.blocksizes, patterns |-> c.opts.patterns, iodepths |-> c.opts.iodepths,
     numjobs |-> c.opts.numjobs, fdatasyncs |-> c.opts.fdatasyncs, directs |-> c.opts.directs,
     ioengines |-> c.opts.ioengines, dropcache |-> c.opts.dropcache]

FilesBlockCount(o) == LET size == IF o.blocksize <= 0 THEN o.filesize ELSE o.blocksize
                      IN IF size = 0 THEN 0 ELSE o.filesize \div size

FilesArglist(c) ==
    [script |-> "files.py", processes |-> c.processes,
     dirs |-> IF c.opts.dirs = <<>> THEN <<c.workdir>> ELSE c.opts.dirs,
     dirspervolume |-> c.opts.dirspervolume, filesperdir |-> c.opts.filesperdir,
     blockcount |-> FilesBlockCount(c.opts)]

MemoryArglist(c) ==
    [script |-> "memory.py", processes |-> c.processes, runtime |-> c.runtime,
     iterations |-> c.opts.iterations, sync |-> c.opts.sync, subproc |-> c.opts.subproc]

SysbenchArglist(c) ==
    [script |-> "sysbench.py", processes |-> c.processes, rundir |-> c.workdir,
     workload |-> c.opts.workload, tests |-> c.opts.tests, modes |-> c.opts.modes]

ByoArglist(c) ==
    [script |-> "byo.py", processes |-> c.processes, command |-> c.extraargs[1],
     workdir |-> IF c.opts.workdir = "" THEN <<c.workdir, "cb-work">> ELSE <<c.opts.workdir>>]

HammerdbArglist(c) ==
    [script |-> "hammerdb.py", processes |-> c.processes, driver |-> c.opts.driver,
     workdir |-> IF c.opts.workdir = "" THEN c.workdir ELSE c.opts.workdir]

SynctestArglist(c) ==
    [script |-> "synctest.py", processes |-> c.processes, count |-> c.opts.count,
     clustercount |-> c.opts.clustercount]

Arglist(c) ==
    CASE c.resolved = "fio" -> FioArglist(c)
      [] c.resolved = "files" -> FilesArglist(c)
      [] c.resolved = "memory" -> MemoryArglist(c)
      [] c.resolved = "sysbench" -> SysbenchArglist(c)
      [] c.resolved = "byo" -> ByoArglist(c)
      [] c.resolved = "hammerdb" -> HammerdbArglist(c)
      [] c.resolved = "synctest" -> SynctestArglist(c)
      [] c.resolved = "pausepod" -> [script |-> ""]
      [] c.resolved = "waitforever" -> [script |-> "waitforever.py", processes |-> 1]
      [] c.resolved \in {"cpusoaker", "failure", "logger", "sleep"} ->
             [script |-> OwnFile[c.resolved], processes |-> c.processes]

\* uperf-server.py and client.py take no number of processes: the pod client runs one.
ServerArglist(c) ==
    IF c.resolved = "server"
    THEN [script |-> "server.py", processes |-> 1, expected |-> c.replicas]
    ELSE [script |-> "uperf-server.py", processes |-> 1]

ClientArglist(c, ns, dep) ==
    IF c.resolved = "server"
    THEN [script |-> "client.py", processes |-> 1, server |-> ServerHost(c, ns, dep)]
    ELSE [script |-> "uperf-client.py", processes |-> 1, server |-> ServerHost(c, ns, dep),
          tests |-> c.opts.tests]

(***************************************************************************)
(* The jobs the report is told of: their parameters by position.           *)
(***************************************************************************)
\* Defect: the jobs are numbered from zero.
FioMetadataFromZero(o) ==
    LET jobs == OuterProduct(<<o.blocksizes, o.patterns, o.iodepths, o.numjobs, o.fdatasyncs,
                               o.directs, o.ioengines>>)
    IN {<<i - 1, jobs[i][2], jobs[i][1], jobs[i][3], jobs[i][4], jobs[i][5], jobs[i][6], jobs[i][7]>> :
            i \in DOMAIN jobs}

FioMetadata(o) ==
    LET jobs == OuterProduct(<<o.blocksizes, o.patterns, o.iodepths, o.numjobs, o.fdatasyncs,
                               o.directs, o.ioengines>>)
    IN {<<i, jobs[i][2], jobs[i][1], jobs[i][3], jobs[i][4], jobs[i][5], jobs[i][6], jobs[i][7]>> :
            i \in DOMAIN jobs}

UperfMetadata(o) ==
    LET jobs == UperfTests(o)
    IN {<<i, jobs[i][2], jobs[i][1], jobs[i][3], jobs[i][4]>> : i \in DOMAIN jobs}

GenerateMetadata(c) ==
    CASE c.resolved = "fio" -> FioMetadata(c.opts)
      [] c.resolved = "uperf" -> UperfMetadata(c.opts)
      [] OTHER -> {}
=============================================================================
