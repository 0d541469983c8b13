---- MODULE MCPodWorkloads ----
(***************************************************************************)
(* The command lines of the run: one workload each, with the options,      *)
(* numbers and volumes that the properties tell apart.                     *)
(***************************************************************************)
EXTENDS PodWorkloads

B(w, given) == given @@ [Defaults EXCEPT !.workload = w]

Opt(name, value) == [name |-> name, value |-> value]

Vol(name, type, mount, claim) == [name |-> name, type |-> type, mount |-> mount, size |-> 1, claim |-> claim]

RunDir == Defaults.workdir
Shared == <<Vol(<<"v">>, "pvc", RunDir, <<"c">>)>>
Unnamed2 == <<Vol(<<>>, "emptydir", "/a", <<>>), Vol(<<"b">>, "emptydir", "/b", <<>>), Vol(<<"v">>, "pvc", "/c", <<"c", "%N", "%i">>)>>

MCBasename == "cb"
MCFaults == {"raise", "kill"}

MCBuilders ==
    << \* Numbers of everything.
       B("synctest", [options |-> <<Opt("count", 1), Opt("clustercount", 2)>>, namespaces |-> 2, deps |-> 1, replicas |-> 2]),
       B("synctest", [options |-> <<Opt("count", 1)>>, deps |-> 2, processes |-> 2, syncfirst |-> TRUE]),
       B("synctest", [options |-> <<Opt("count", 2)>>, containers |-> 2, processes |-> 2, namespaces |-> 0]),
       B("synctest", [dtype |-> "dep", deps |-> 2, options |-> <<Opt("count", 1)>>]),
       B("synctest", [dtype |-> "dep", deps |-> 2, replicas |-> 2, options |-> <<Opt("count", 1)>>]),
       B("synctest", [dtype |-> "rs", deps |-> 2, podprefix |-> "p", secrets |-> 2]),
       B("synctest", [dtype |-> "vm", namespaces |-> 2, deps |-> 2, options |-> <<Opt("count", 1)>>]),
       B("synctest", [namespaces |-> 2, podprefix |-> "p", options |-> <<Opt("count", 1)>>]),
       B("clusterbuster", [secrets |-> 1, namespaces |-> 2, syncaffinity |-> 2, affinity |-> 1]),
       B("CPU", [affinity |-> 2, replicas |-> 2]),
       B("sleep", [syncaffinity |-> 1]),
       B("logger", [volumes |-> Unnamed2, replicas |-> 2]),
       B("pausepod", [replicas |-> 2]),
       B("waitforever", [replicas |-> 2]),
       B("failure", [replicas |-> 2]),
       B("sleep", [syncstart |-> FALSE]),
       \* Volumes of machines.
       B("sleep", [dtype |-> "vm", secrets |-> 1,
                   volumes |-> <<Vol(<<>>, "emptydisk", "/a", <<>>), Vol(<<"v">>, "pvc", "/c", <<>>)>>]),
       B("sleep", [dtype |-> "vm", volumes |-> <<Vol(<<"d">>, "emptydisk", "/a", <<>>)>>]),
       B("sleep", [volumes |-> <<Vol(<<"v", "%r">>, "pvc", "/a", <<>>)>>]),
       \* Refused.
       B("", [x \in {} |-> 0]), B("nosuch", [x \in {} |-> 0]), B("fio", [options |-> <<Opt("nosuch", 1)>>]),
       B("fio", [options |-> <<Opt("jobfile", "missing")>>]), B("byo", [dtype |-> "pod"]),
       B("uperf", [options |-> <<Opt("msgsizes", <<0>>)>>]), B("sleep", [dtype |-> "vm", arch |-> "aarch64"]),
       B("sleep", [dtype |-> "vm", containers |-> 2]), B("sleep", [dtype |-> "job"]),
       B("sleep", [resources |-> FALSE]), B("sleep", [metrics |-> "missing"]),
       B("sleep", [volumes |-> <<Vol(<<"v">>, "nfs", "/a", <<>>)>>]),
       \* Files.
       B("fio", [processes |-> 2, options |-> <<Opt("patterns", <<"read", "write">>), Opt("directs", <<0>>)>>]),
       B("fio", [replicas |-> 2, volumes |-> Shared, options |-> <<Opt("blocksizes", <<1, 2>>), Opt("dropcache", 0)>>]),
       B("fio", [processes |-> 2, replicas |-> 2, volumes |-> Shared, options |-> <<Opt("dropcache", 0)>>]),
       B("fio", [containers |-> 2, options |-> <<Opt("fdatasyncs", <<2>>), Opt("dropcache", 0)>>]),
       B("fio", [files |-> <<"01-extra">>]), B("fio", [files |-> <<"00-IGNORE-">>, replicas |-> 2]),
       B("fio", [dtype |-> "vm", replicas |-> 2]),
       B("files", [processes |-> 2, volumes |-> Shared]), B("file", [replicas |-> 2]),
       B("files", [replicas |-> 2, volumes |-> Shared, options |-> <<Opt("dirs", RunDir), Opt("dirs", "/a"), Opt("dropcache", 0)>>]),
       B("sysbench", [processes |-> 2, options |-> <<Opt("tests", <<"seqwr", "seqrd">>)>>]),
       B("sysbench", [containers |-> 2, options |-> <<Opt("tests", <<"seqwr">>)>>]),
       B("sysbench", [replicas |-> 2, options |-> <<Opt("workload", "cpu")>>]),
       B("byowl", [extraargs |-> <<"cmd">>, processes |-> 2, options |-> <<Opt("files", "f"), Opt("files", "g")>>]),
       B("byo", [extraargs |-> <<"cmd">>, options |-> <<Opt("dropcache", 1), Opt("name", "mine")>>]),
       \* Memory and the database.
       B("memory", [processes |-> 2, options |-> <<Opt("iterations", 2)>>]),
       B("memory", [containers |-> 2, processes |-> 2, options |-> <<Opt("iterations", 1)>>]),
       B("memory", [processes |-> 2, runtime |-> 1, options |-> <<Opt("iterations", 2)>>]),
       B("memory", [processes |-> 2, runtime |-> 1, options |-> <<Opt("sync", 0), Opt("iterations", 2)>>]),
       B("memory", [options |-> <<Opt("subproc", 1)>>]), B("memory", [options |-> <<Opt("iterations", 0)>>]),
       B("hammerdb", [dtype |-> "vm"]), B("hammer", [processes |-> 2, options |-> <<Opt("driver", "mysql")>>]),
       B("hammerdb", [replicas |-> 2, options |-> <<Opt("driver", "mariadb")>>]),
       \* Clients and servers.
       B("uperf", [replicas |-> 2, processes |-> 2,
                   options |-> <<Opt("testtypes", <<"rr", "stream">>), Opt("ramptime", -1)>>]),
       B("uperf", [deps |-> 2, affinity |-> 1, options |-> <<Opt("nthrs", <<1, 2>>)>>]),
       B("uperf", [dtype |-> "vm", options |-> <<Opt("protos", <<"tcp">>)>>]),
       B("uperf", [netserver |-> "host"]),
       B("server", [replicas |-> 2, affinity |-> 2]), B("server", [namespaces |-> 2, dtype |-> "deploy"]),
       B("server", [podprefix |-> "p"]), B("server", [containers |-> 2]) >>

====
