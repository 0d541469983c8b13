---------------------------- MODULE SyncBarrier ----------------------------
(***************************************************************************)
(* What the sync pod promises a workload, whatever processes, files and    *)
(* connections it uses to keep the promise (docs/clusterbuster.md:127-130: *)
(* all instances of the workload start simultaneously, and the service     *)
(* collects the results):                                                  *)
(*                                                                         *)
(*   - no worker passes its k-th synchronization before every worker has   *)
(*     asked for it;                                                       *)
(*   - results are published only when every worker has stored one, after  *)
(*     all have passed the same number of synchronizations;                *)
(*   - a run that failed may let workers go, and is never published.       *)
(***************************************************************************)
EXTENDS Naturals

CONSTANTS Workers, SyncCount

VARIABLES
  called,    \* synchronizations each worker has asked for
  passed,    \* synchronizations each worker has been released from
  stored,    \* workers whose results the sync pod holds
  outcome    \* "running", "published" or "failed"

bvars == <<called, passed, stored, outcome>>

Init == /\ called = [w \in Workers |-> 0]
        /\ passed = [w \in Workers |-> 0]
        /\ stored = {}
        /\ outcome = "running"

Call(w) == /\ called[w] = passed[w] /\ called[w] < SyncCount[w] /\ w \notin stored
           /\ called' = [called EXCEPT ![w] = @ + 1]
           /\ UNCHANGED <<passed, stored, outcome>>

\* Everyone is at the barrier, and everyone is released from it.
Release == /\ outcome = "running"
           /\ \A w \in Workers : called[w] = passed[w] + 1
           /\ \A v, w \in Workers : called[v] = called[w]
           /\ passed' = called
           /\ UNCHANGED <<called, stored, outcome>>

Store(w) == /\ outcome # "published"
            /\ called[w] = passed[w]
            /\ stored' = stored \cup {w}
            /\ UNCHANGED <<called, passed, outcome>>

Publish == /\ outcome = "running" /\ stored = Workers
           /\ \A v, w \in Workers : passed[v] = called[w]
           /\ outcome' = "published"
           /\ UNCHANGED <<called, passed, stored>>

\* Failing, and what a failed run may do to the workers still waiting.
Fail == /\ outcome # "published"
        /\ outcome' = "failed"
        /\ passed' \in [Workers -> Nat]
        /\ \A w \in Workers : passed'[w] \in {passed[w], called[w]}
        /\ UNCHANGED <<called, stored>>

Next == \/ Release \/ Publish \/ Fail
        \/ \E w \in Workers : Call(w) \/ Store(w)

BarrierSpec == Init /\ [][Next]_bvars
============================================================================
