-------------------------- MODULE MCSyncProtocol --------------------------
(***************************************************************************)
(* Small instances of SyncProtocol: two containers, with one or two        *)
(* workers each, that synchronize once or twice before they report.        *)
(***************************************************************************)
EXTENDS SyncProtocol

CONSTANTS c1, c2, w1, w2, w3

TwoContainers == {c1, c2}

\* One process per container.
SingleWorkers == {w1, w2}
SingleContainerOf == [w \in SingleWorkers |-> IF w = w1 THEN c1 ELSE c2]
SingleOnce == [w \in SingleWorkers |-> 1]
SingleTwice == [w \in SingleWorkers |-> 2]

\* One container runs two processes.
PairedWorkers == {w1, w2, w3}
PairedContainerOf == [w \in PairedWorkers |-> IF w = w3 THEN c2 ELSE c1]
PairedTwice == [w \in PairedWorkers |-> 2]
===========================================================================
