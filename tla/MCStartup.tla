----------------------------- MODULE MCStartup -----------------------------
(* A small instance of Startup. *)
EXTENDS Startup

(* The first version of every table that is older than the current one. *)
OldDatabase ==
    [t \in Table |-> CASE t \in {"bundles", "statements"} -> {}
                       [] t = "messages"                  -> {"base", "status"}
                       [] OTHER                           -> {"base"}]

(* No file at all, or one as old as can be. *)
NewOrOld == {NoTables, OldDatabase}
=============================================================================
