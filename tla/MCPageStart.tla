---------------------------- MODULE MCPageStart ----------------------------
(* Small instances of PageStart. *)
EXTENDS PageStart

AllHosts == {"prod", "dev", "staging"}
Prod == {"prod"}
=============================================================================
