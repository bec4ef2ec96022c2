---------------------------- MODULE DurableStore ----------------------------
(***************************************************************************)
(* What the private-data store promises a member, whatever happens between *)
(* the RPC handlers of the worker and the files they write.                *)
(*                                                                         *)
(* A store is known by the set of committed edits it contains.  `working'  *)
(* is what the app shows and edits; `durable' is what the member's folder  *)
(* file contains.  Edits enter the working set one at a time; a save moves *)
(* the durable set forward, never back, and never ahead of what has been   *)
(* committed; a restart may lose edits that no save covered, and only      *)
(* those.                                                                  *)
(***************************************************************************)
CONSTANT Tokens          \* everything a store can contain

VARIABLES working, durable

vars == <<working, durable>>

Init ==
  /\ durable \in SUBSET Tokens
  /\ working \in SUBSET Tokens
  /\ durable \subseteq working

(* One transaction commits.                                                *)
Commit ==
  /\ \E e \in Tokens : working' = working \cup {e}
  /\ UNCHANGED durable

(* A complete file replaces the durable one.                               *)
Save ==
  /\ durable' \in SUBSET working
  /\ durable \subseteq durable'
  /\ UNCHANGED working

(* The process ends and the app opens again on what survived.              *)
Restart ==
  /\ working' \in SUBSET working
  /\ durable \subseteq working'
  /\ UNCHANGED durable

Next == Commit \/ Save \/ Restart

Spec == Init /\ [][Next]_vars

=============================================================================
