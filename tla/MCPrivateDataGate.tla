------------------------- MODULE MCPrivateDataGate -------------------------
(* Small instances of PrivateDataGate. *)
EXTENDS PrivateDataGate

\* Every property excepts what follows an answer that went astray: nothing is explored beyond it.
NoneAstray == "astray" \notin rash

\* After a lapse, a race with Lock or a badge left behind, two questions in flight may cross; with
\* three nothing more is explored.
NoCrowd == ~Without({"lapsed", "raced", "behind"}) => Cardinality(asks) <= 2
=============================================================================
