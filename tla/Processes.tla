----------------------------- MODULE Processes -----------------------------
(***************************************************************************)
(* The processes of one installation: the subcommands of main.go that work *)
(* on its database file or its TLS directory.                              *)
(***************************************************************************)

CONSTANTS
    Serve,      \* the server, `sund serve'
    CertCmds,   \* runs of `sund cert fingerprint'
    AdminCmds   \* runs of `sund admin'

ASSUME ProcAssumption ==
    /\ Serve \notin CertCmds \cup AdminCmds
    /\ CertCmds \cap AdminCmds = {}

Proc == {Serve} \cup CertCmds \cup AdminCmds
=============================================================================
