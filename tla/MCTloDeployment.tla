-------------------------- MODULE MCTloDeployment --------------------------
(* TloDeployment for TLC.  No definition tells two requests or two sessions  *)
(* of the server apart, so states that differ in a renaming of either are    *)
(* one; nothing temporal is checked but action properties.                   *)
EXTENDS TloDeployment, TLC

Alike == Permutations(Requests) \cup Permutations(Backends)
=============================================================================
