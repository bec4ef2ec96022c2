--------------------------- MODULE MCFolderStore ---------------------------
(***************************************************************************)
(* Instances of FolderStore for TLC.                                       *)
(***************************************************************************)
EXTENDS FolderStore

CONSTANTS o1, o2, s1, s2, e1, e2, e3, x1

(* A first start: no store has a file.                                     *)
AllNew == [s \in Stores |-> NoDb]

(* s1 was connected and saved in an earlier session.                       *)
SavedBefore == [s \in Stores |-> IF s = s1 THEN {Identity} ELSE NoDb]

(* Another device left a store behind: s1 holds its edit x1.               *)
LeftByAnother == [s \in Stores |-> IF s = s1 THEN {Identity, x1} ELSE NoDb]

(* The backup file a member may restore from: another device's.            *)
OneImport == {{Identity, x1}}
NoImports == {}
=============================================================================
