------------------------------- MODULE Startup -------------------------------
(***************************************************************************)
(* The processes of one installation (main.go): `sund serve' opens the     *)
(* database, loads the TLS identity and listens; `sund cert fingerprint'   *)
(* loads the identity and prints its fingerprint; `sund admin' opens the   *)
(* database.  They share a database file and a directory and nothing else. *)
(* The directory is the same for all, as the container image sets it with  *)
(* SUND_TLS_DIR; by default serve uses "tls" and cert fingerprint "certs". *)
(*                                                                         *)
(* A server that dies or gives up is started again by its supervisor       *)
(* (compose.yaml: "restart: unless-stopped").                              *)
(***************************************************************************)
EXTENDS SchemaMigration, TlsIdentity, FiniteSets

CONSTANTS
    MaxCrashes,   \* bound: processes killed
    MaxLeafEvents \* bound: leaf files deleted, leaves expired

ASSUME StartupBound == MaxCrashes \in Nat /\ MaxLeafEvents \in Nat

VARIABLES
    running,     \* the processes that are running
    ran,         \* the commands that have been started
    announced,   \* history: the fingerprints the operator has been shown
    raced,       \* history: two processes have created a CA at the same time
    crashes,     \* processes killed so far
    leafEvents   \* leaf files deleted and leaves expired so far

uvars == <<dvars, ivars, running, ran, announced, raced, crashes, leafEvents>>
rest  == <<running, ran, announced, raced, crashes, leafEvents>>

UInit ==
    /\ DInit
    /\ IInit
    /\ running = {}
    /\ ran = {}
    /\ announced = {}
    /\ raced = FALSE
    /\ crashes = 0
    /\ leafEvents = 0

(* Each command is run once, and one at a time, at any moment; the server  *)
(* is started again whenever it is down.                                   *)
Start(p) ==
    /\ p \notin running
    /\ p = Serve \/ (p \notin ran /\ running \subseteq {Serve})
    /\ running' = running \cup {p}
    /\ ran' = ran \cup ({p} \ {Serve})
    /\ IF p \in CertCmds THEN BeginLoad(p) /\ UNCHANGED dvars
                         ELSE BeginOpen(p) /\ UNCHANGED ivars
    /\ UNCHANGED <<announced, raced, crashes, leafEvents>>

(* runServe, runAdmin...: store.Open.  An error ends the process. *)
OpenStep(p) ==
    /\ OpenNext(p)
    /\ running' = IF opens'[p].pc = "closed" THEN running \ {p} ELSE running
    /\ UNCHANGED <<ivars, ran, announced, raced, crashes, leafEvents>>

(* runServe, with the database open, goes on to tlsid.Load. *)
ServeLoads ==
    /\ opens[Serve].pc = "open"
    /\ BeginLoad(Serve)
    /\ UNCHANGED <<dvars, rest>>

CreatingCA(p) == loads[p].pc \in {"truncate", "fill"} /\ loads[p].file \in {CACrt, CAKey}

(* tlsid.Load.  An error ends the process, and closes the database. *)
LoadingStep(p) ==
    /\ LoadNext(p)
    /\ IF loads'[p].pc = "none"
       THEN running' = running \ {p} /\ Close(p)
       ELSE running' = running /\ UNCHANGED dvars
    /\ announced' = IF Loaded(p)' THEN announced \cup {Fingerprint(p)'} ELSE announced
    /\ raced' = (raced \/ \E q \in Proc \ {p} : CreatingCA(q) /\ CreatingCA(p)')
    /\ UNCHANGED <<ran, crashes, leafEvents>>

Exit(p) ==
    /\ Close(p)
    /\ Unload(p)
    /\ running' = running \ {p}

(* A command has done its work. *)
CommandEnds(p) ==
    /\ p \in running
    /\ \/ p \in CertCmds /\ Loaded(p)
       \/ p \in AdminCmds /\ opens[p].pc = "open"
    /\ Exit(p)
    /\ UNCHANGED <<ran, announced, raced, crashes, leafEvents>>

Kill(p) ==
    /\ p \in running
    /\ crashes < MaxCrashes
    /\ crashes' = crashes + 1
    /\ Exit(p)
    /\ UNCHANGED <<ran, announced, raced, leafEvents>>

LeafEvent ==
    /\ leafEvents < MaxLeafEvents
    /\ leafEvents' = leafEvents + 1
    /\ LeafExpires \/ \E f \in File : DeleteLeafFile(f)
    /\ UNCHANGED <<dvars, running, ran, announced, raced, crashes>>

UNext ==
    \/ \E p \in Proc : Start(p) \/ OpenStep(p) \/ LoadingStep(p) \/ CommandEnds(p) \/ Kill(p)
    \/ ServeLoads
    \/ LeafEvent

(* The supervisor starts the server, and the server runs on.  Commands may *)
(* be started or not, and may hang.                                        *)
USpec ==
    /\ UInit /\ [][UNext]_uvars
    /\ WF_uvars(Start(Serve))
    /\ WF_uvars(OpenStep(Serve))
    /\ WF_uvars(ServeLoads)
    /\ WF_uvars(LoadingStep(Serve))

-----------------------------------------------------------------------------
(* Properties *)

(* "The CA (and therefore the fingerprint) is stable across restarts": all *)
(* fingerprints ever announced are the same, across crashes in the middle  *)
(* of creating the files, rotations of the leaf and commands that load the *)
(* identity alongside, unless two processes created the CA at the same     *)
(* time.                                                                   *)
PinIsStable == raced \/ Cardinality(announced) <= 1

(* The server comes up, however often it or others were killed and         *)
(* whoever migrates the database meanwhile, unless the CA on disk is of no *)
(* use to it: a file that cannot be parsed, which a crash at the wrong     *)
(* moment leaves behind, or a certificate and a key that do not belong     *)
(* together.  Nothing repairs that, and a server that finds it gives up.   *)
CAUnusable ==
    /\ CAExists
    /\ \/ files[CACrt].state = "torn" \/ files[CAKey].state = "torn"
       \/ files[CACrt].key # files[CAKey].key
ServerComesUp == []<>Loaded(Serve) \/ <>[]CAUnusable
=============================================================================
