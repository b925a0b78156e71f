-------------------------------- MODULE Relay --------------------------------
(***************************************************************************)
(* The relay as one server over one database: the control plane of         *)
(* Administration and the transport plane of Transport.                    *)
(*                                                                         *)
(* They meet in the devices table.  The transport plane reads from it who  *)
(* owns a queue, whether that device is revoked and whether it can be      *)
(* pinged; the control plane writes it.  One transaction writes both: the  *)
(* revocation of a device retires its queues and deletes their messages.   *)
(***************************************************************************)
EXTENDS Administration, Integers

CONSTANTS Queue, Key, Slot, TransportOps, AccountLimit, Limits, Sizes, TTLs,
          MaxSeq, MaxTime, MaxFailures

VARIABLES deviceLimit, queues, msgs, nextSeq, clock, xcalls, quotaCmd, wakes,
          failures, accepted, inbox

T == INSTANCE Transport WITH
        home     <- [d \in Device |-> dev[d].account],
        gone     <- {d \in Device : dev[d].revoked = 1},
        reach    <- {d \in Device : Reachable(d)},
        Pushable <- IF Offered = {""} /\ "setPush" \notin Ops THEN {} ELSE Device

(* What Transport assumes of the constants it does not share with the      *)
(* control plane.                                                          *)
ASSUME TransportAssumption ==
    /\ None \notin Queue /\ None \notin Key
    /\ TransportOps \subseteq T!TransportOp \cup T!OperatorOp
    /\ AccountLimit \in [Account -> Nat] /\ Limits \subseteq Nat /\ 0 \in Limits
    /\ Sizes \subseteq Nat \ {0} /\ TTLs \subseteq Nat \ {0}
    /\ MaxSeq \in Nat /\ MaxTime \in Nat /\ MaxFailures \in Nat

transportVars == <<deviceLimit, queues, msgs, nextSeq, clock, xcalls, quotaCmd,
                   wakes, failures, accepted, inbox>>
relayVars == <<vars, transportVars>>

(* A new database. *)
RelayInit ==
    /\ Init
    /\ T!TInit

(* Mutant: the revocation is a statement on the devices table alone. *)
RevokeDeviceOnly(r) == RevokeDevice(r) /\ UNCHANGED transportVars

(* The whole RevokeDevice transaction. *)
RevokeDeviceTx(r) ==
    /\ RevokeDevice(r)
    /\ T!RevokeOwner(calls[r].target)

(* One process serves both planes. *)
ServerCrash ==
    /\ Crash
    /\ T!XCrash

RelayNext ==
    \/ AdminNext /\ UNCHANGED transportVars
    \/ UNCHANGED vars /\ T!ServerNext
    \/ \E r \in Request : RevokeDeviceTx(r)
    \/ ServerCrash

RelaySpec == RelayInit /\ [][RelayNext]_relayVars

-----------------------------------------------------------------------------
(* Properties *)

(* The relay implements the transport plane: every step of the control     *)
(* plane is one that Transport allows its environment.                     *)
ImplementsTransport == T!TSpec

(* Revocation is one atomic step over both planes: in the step in which a  *)
(* device's key dies, its endpoint is cleared, its queues are retired and  *)
(* their messages are gone, and no other device's queue loses anything.    *)
RevocationStep ==
    \A d \in Device : dev[d].revoked = 0 /\ dev'[d].revoked = 1 =>
        /\ dev'[d].push = ""
        /\ \A q \in Queue : queues[q].owner = d => queues'[q].retired = 1
        /\ msgs' = {m \in msgs : queues[m.queue].owner # d}
RevocationIsAtomic == [][RevocationStep]_relayVars

(* A revoked device that has no ping coming gets none ever again, from     *)
(* either plane or from the operator, although a setPush that was under    *)
(* way may put an endpoint back into its row: whoever finds that endpoint  *)
(* later, an announcement, a promotion, a send that was under way or the   *)
(* quota command, looks at the revoked flag too.  The one exception is a   *)
(* second revocation, which pings its target where the row says; once the  *)
(* endpoint is cleared and the device's calls have ended, RevocationSettles *)
(* leaves it nothing to find.                                              *)
Silenced(d) ==
    /\ dev[d].revoked = 1
    /\ d \notin pings \cup wakes
    /\ \A r \in Request : d \notin TargetPing(r)
    /\ ~(quotaCmd.device = d /\ quotaCmd.endpoint)
SilencedStep ==
    \A d \in Device : Silenced(d) =>
        \/ Silenced(d)'
        \/ dev[d].push # "" /\ \E r \in Request : d \in TargetPing(r)'
RevokedStaysQuiet == [][SilencedStep]_relayVars

-----------------------------------------------------------------------------
(* What the documents promise and the code does not keep *)

(* Revocation is "one atomic step: the target's identity key dies, its     *)
(* push endpoint is cleared, and every queue it owns is retired with its   *)
(* messages dropped"; afterwards "its owned queues are unreachable".       *)
(* But UpdatePushEndpoint, SetBundle, CreateQueue and AppendMessage do not *)
(* look at the flags that their handlers checked some steps earlier.       *)
RevokedIsCutOff ==
    \A d \in Device : dev[d].revoked = 1 =>
        /\ dev[d].push = "" /\ dev[d].bundle = ""
        /\ \A q \in Queue : queues[q].owner = d
                => queues[q].retired = 1 /\ \A m \in msgs : m.queue # q
=============================================================================
