------------------------- MODULE MCClusterObjects -------------------------
(***************************************************************************)
(* Instances of ClusterObjects for TLC: the command lines and the          *)
(* namespaces a run is checked with.                                       *)
(***************************************************************************)
EXTENDS ClusterObjects

Base == [remove |-> "auto", scale |-> FALSE, outside |-> FALSE, precleanup |-> TRUE,
         cleanup |-> TRUE, always |-> FALSE, force |-> FALSE, waitSecrets |-> TRUE]

Always == [Base EXCEPT !.always = TRUE]

\* The defaults, and what differs from them.
CommandLines ==
  {Base,
   [Always EXCEPT !.remove = "remove", !.outside = TRUE, !.force = TRUE, !.waitSecrets = FALSE],
   [Always EXCEPT !.scale = TRUE, !.precleanup = FALSE]}

SomeNames == 0 .. 3
TakenName == {{2}}
===========================================================================
