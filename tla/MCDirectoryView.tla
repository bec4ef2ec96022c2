--------------------------- MODULE MCDirectoryView --------------------------
(* Small instances of DirectoryView. *)
EXTENDS DirectoryView

CONSTANTS ann, bob, q1, q2

Finds == [q \in Queries |-> IF q = q1 THEN {ann} ELSE {bob}]
Both  == {{ann}, {ann, bob}}

\* The page opens on a directory with or without the filter, or on a link to the group or to a
\* fellow; both fellows are in the group.  The API has no setting of its own to tell apart.
MCInit ==
  /\ Init /\ members = Fellows
  /\ page.url.at \in {"directory", "group", bob}
  /\ source = "api" => setting = None
MCSpec == MCInit /\ [][Next]_vars
=============================================================================
