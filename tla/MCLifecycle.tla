----------------------------- MODULE MCLifecycle -----------------------------
(* Lifecycle with the values its configurations give to the constants.     *)
EXTENDS Lifecycle, TLC
=============================================================================
