------------------------- MODULE MCDirectoryUpdate -------------------------
(***************************************************************************)
(* Instances of DirectoryUpdate for TLC.                                   *)
(***************************************************************************)
EXTENDS DirectoryUpdate

CONSTANTS f1, f2, v1, v2, v3, ann, bob

(* Ann is in every version but v2, Bob in every one but v3.                *)
Rosters == [v \in Versions |->
              CASE v = v2 -> Fellows \ {ann} [] v = v3 -> Fellows \ {bob} [] OTHER -> Fellows]
=============================================================================
