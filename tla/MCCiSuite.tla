------------------------------ MODULE MCCiSuite ------------------------------
(***************************************************************************)
(* A small suite: a plugin that stops at a failure, one that does not, and *)
(* cpusoaker, whose failures do not count.                                 *)
(***************************************************************************)
EXTENDS CiSuite

SmallPlan == << [workload |-> "memory", jobs |-> 2], [workload |-> "files", jobs |-> 1],
                [workload |-> "cpusoaker", jobs |-> 1] >>

AllConfigurations == [restart : BOOLEAN, hardFail : BOOLEAN]
===========================================================================
