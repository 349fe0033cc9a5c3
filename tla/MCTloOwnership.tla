--------------------------- MODULE MCTloOwnership ---------------------------
(* TloOwnership for TLC.  The instance is small enough to need no          *)
(* definition of its own; the cfg gives every constant its value.          *)
EXTENDS TloOwnership
=============================================================================
