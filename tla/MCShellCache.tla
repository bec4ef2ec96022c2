---------------------------- MODULE MCShellCache ----------------------------
(***************************************************************************)
(* Instances of ShellCache for TLC.                                        *)
(***************************************************************************)
EXTENDS ShellCache

(* The page's script changes with every build; the SQLite library and its  *)
(* binary change together, in the third; the start page never does.        *)
Contents ==
  [b \in Builds |->
     [f \in Paths |-> IF f = Entry THEN <<f, b>>
                      ELSE <<f, IF b < 3 \/ f = Start THEN 1 ELSE 3>>]]

(* As the manifest sorts them: app.js, sqlite3.js, sqlite3.wasm.           *)
Ranks == [f \in Files |-> CASE f = Entry -> 1 [] f = "sqlite3.js" -> 2 [] OTHER -> 3]
=============================================================================
