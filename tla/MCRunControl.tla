--------------------------- MODULE MCRunControl ---------------------------
(***************************************************************************)
(* Instances of RunControl for TLC: which workloads, time limits and       *)
(* clusters, which failures and how many signals a run is checked with.    *)
(***************************************************************************)
EXTENDS RunControl

\* Only the log helper, which runs for a reporting workload, asks for the number of pods.
AllConfigurations ==
  {c \in [reporting : BOOLEAN, timeout : BOOLEAN, many : BOOLEAN] : c.reporting \/ c.many}
Unlimited == [reporting : {TRUE}, timeout : {FALSE}, many : {TRUE}]
===========================================================================
