------------------------- MODULE MCDaemonLifecycle -------------------------
(* Instances of DaemonLifecycle for TLC.                                   *)
EXTENDS DaemonLifecycle, TLC

Symmetric == Permutations(Daemons) \cup Permutations(CLIs)
=============================================================================
