----------------------------- MODULE RelayProofs -----------------------------
(* Proofs about Relay, for every value of its constants: both planes keep  *)
(* in it what they promise on their own.                                   *)
EXTENDS Relay, AdministrationSafety

(* Every step of the relay is one of the control plane, or leaves it alone. *)
LEMMA RelayAdministers == RelaySpec => Spec
<1>1. RelayInit => Init
    BY DEF RelayInit
<1>2. [RelayNext]_relayVars => [Next]_vars
    BY DEF RelayNext, relayVars, Next, RevokeDeviceTx, ServerCrash
<1> QED
    BY <1>1, <1>2, PTL DEF RelaySpec, Spec

(* Tenants stay apart in the whole relay too. *)
THEOREM RelayIsolatesTenants == RelaySpec => TenantIsolation
BY RelayAdministers, TenantsAreIsolated, PTL

-----------------------------------------------------------------------------
(* What the control plane does to the columns that the transport plane     *)
(* reads.                                                                  *)

(* A call carries an operation that clients issue. *)
OpsIssued == \A r \in Request : calls[r].pc = "authenticated" => calls[r].op \in Ops

(* It is kept so: an operation enters a call in requireSignature only. *)
LEMMA OpsIssuedStep ==
    ASSUME IndInv, OpsIssued, [Next]_vars
    PROVE  OpsIssued'
<1>1. calls \in [Request -> Call]
    BY DEF IndInv, TypeOK
<1>2. ASSUME NEW x \in Request, CallNext(x) \/ RevokeDevice(x)
      PROVE  /\ \A r \in Request : r # x => calls'[r] = calls[r]
             /\ calls'[x].pc = "authenticated" => calls'[x].op \in Ops
  <2>1. CASE \E e \in Device, q \in SignedRequest : Authenticate(x, e, q)
    <3>1. PICK e \in Device, q \in SignedRequest : Authenticate(x, e, q)
        BY <2>1
    <3>2. /\ \A r \in Request : r # x => calls'[r] = calls[r]
          /\ calls'[x].op = q.op /\ q.op \in Ops
        BY <1>1, <3>1 DEF Authenticate
    <3> QED
        BY <3>2
  <2>2. CASE ReadTarget(x)
    BY <1>1, <2>2 DEF ReadTarget, Call
  <2>3. CASE \E i \in Invitation, e \in Device, push \in Offered : Register(x, i, e, push)
    BY <1>1, <2>3 DEF Register, Idle
  <2>4. CASE (\E i \in Invitation : CreateInvitation(x, i)) \/ SetDeviceRole(x)
             \/ RevokeDevice(x)
    <3>1. Announce(x)
        BY <2>4 DEF CreateInvitation, SetDeviceRole, RevokeDevice
    <3> QED
        BY <1>1, <3>1 DEF Announce, Call
  <2>5. CASE \/ RevokeInvitation(x) \/ UpdatePush(x) \/ SetBundle(x) \/ Refuse(x)
             \/ Abort(x) \/ WakeAccount(x) \/ WakeFails(x)
    <3>1. Reply(x)
        BY <2>5 DEF RevokeInvitation, UpdatePush, SetBundle, Refuse, Abort,
                    WakeAccount, WakeFails
    <3> QED
        BY <1>1, <3>1 DEF Reply, Idle
  <2> QED
    BY <1>2, <2>1, <2>2, <2>3, <2>4, <2>5 DEF CallNext
<1>3. ASSUME CliNext \/ (\E i \in Invitation : Expire(i))
             \/ (\E e \in Device : PingEnds(e)) \/ UNCHANGED vars
      PROVE  calls' = calls
    BY <1>3 DEF CliNext, CliCreateAccount, CliCreateInvitation, CliPromoteCheck,
       CliPromoteWrite, CliPing, CliDies, Expire, PingEnds, vars
<1>4. ASSUME Crash
      PROVE  \A r \in Request : calls'[r].pc = "idle"
    BY <1>4 DEF Crash, Idle
<1> QED
    BY <1>2, <1>3, <1>4 DEF OpsIssued, Next, AdminNext

RelayInv == IndInv /\ RevokedRegistered /\ OpsIssued

(* The relay's invariant holds in every reachable state. *)
LEMMA RelayInvHolds == RelaySpec => []RelayInv
<1>1. Init => RelayInv
  <2>1. NoDevice.revoked = 0 /\ Idle.pc = "idle"
    BY DEF NoDevice, Idle
  <2>2. Init => IndInv
    BY InitIndInv
  <2> QED
    BY <2>1, <2>2 DEF Init, RelayInv, RevokedRegistered, OpsIssued
<1>2. RelayInv /\ [Next]_vars => RelayInv'
    BY NextIndInv, RevokedRegisteredStep, OpsIssuedStep DEF RelayInv
<1> QED
    BY <1>1, <1>2, RelayAdministers, PTL DEF Spec

(* What the transport plane reads of the devices table. *)
Seen == <<[d \in Device |-> dev[d].account], {d \in Device : dev[d].revoked = 1},
          {d \in Device : Reachable(d)}>>

(* A step of the control plane other than a revocation or a crash changes  *)
(* it only to enrol a device or to give a live one another endpoint.       *)
LEMMA AdminNextSeen ==
    ASSUME RelayInv, AdminNext
    PROVE  \/ Seen' = Seen
           \/ \E r \in Request, i \in Invitation, d \in Device, push \in Offered :
                  Register(r, i, d, push)
           \/ \E r \in Request : UpdatePush(r) /\ dev[calls[r].caller].revoked = 0
<1>0. dev \in [Device -> DeviceRow] /\ calls \in [Request -> Call]
    BY DEF RelayInv, IndInv, TypeOK
<1>1. ASSUME \A d \in Device : /\ dev'[d].account = dev[d].account
                               /\ dev'[d].revoked = dev[d].revoked
                               /\ dev[d].revoked = 0 => dev'[d].push = dev[d].push
      PROVE  Seen' = Seen
  <2>1. ASSUME NEW d \in Device PROVE Reachable(d)' <=> Reachable(d)
    BY <1>1 DEF Reachable, Live, Registered
  <2>2. {d \in Device : Reachable(d)}' = {d \in Device : Reachable(d)}
    BY <2>1
  <2> QED
    BY <1>1, <2>2 DEF Seen
<1>2. ASSUME NEW r \in Request, CallNext(r), dev' # dev
      PROVE  \/ \E i \in Invitation, d \in Device, push \in Offered : Register(r, i, d, push)
             \/ SetDeviceRole(r) \/ UpdatePush(r) \/ SetBundle(r)
    BY <1>2 DEF CallNext, Authenticate, CreateInvitation, RevokeInvitation, ReadTarget,
       Refuse, Abort, WakeAccount, WakeFails
<1>3. ASSUME CliNext, dev' # dev
      PROVE  CliPromoteWrite
    BY <1>3 DEF CliNext, CliCreateAccount, CliCreateInvitation, CliPromoteCheck,
       CliPing, CliDies
<1>4. ASSUME (\E i \in Invitation : Expire(i)) \/ (\E d \in Device : PingEnds(d))
      PROVE  dev' = dev
    BY <1>4 DEF Expire, PingEnds
<1>5. ASSUME NEW r \in Request, SetDeviceRole(r) \/ SetBundle(r)
      PROVE  Seen' = Seen
  <2>1. CASE SetDeviceRole(r)
    BY <1>0, <1>1, <2>1 DEF SetDeviceRole, DeviceRow
  <2>2. CASE SetBundle(r)
    BY <1>0, <1>1, <2>2 DEF SetBundle, DeviceRow
  <2> QED
    BY <1>5, <2>1, <2>2
<1>6. ASSUME CliPromoteWrite
      PROVE  Seen' = Seen
    BY <1>0, <1>1, <1>6 DEF CliPromoteWrite, DeviceRow
<1>7. ASSUME NEW r \in Request, UpdatePush(r), dev[calls[r].caller].revoked # 0
      PROVE  Seen' = Seen
    BY <1>0, <1>1, <1>7 DEF UpdatePush, DeviceRow
<1> QED
    BY <1>1, <1>2, <1>3, <1>4, <1>5, <1>6, <1>7 DEF AdminNext

-----------------------------------------------------------------------------
(* The transport plane *)

(* RegisterDevice, seen from the transport plane, enrols an owner. *)
LEMMA RegisterEnrols ==
    ASSUME RelayInv, NEW r \in Request, NEW i \in Invitation, NEW d \in Device,
           NEW push \in Offered, Register(r, i, d, push), UNCHANGED transportVars
    PROVE  T!OwnerEnrols(d, inv[i].account)
<1>0. dev \in [Device -> DeviceRow]
    BY DEF RelayInv, IndInv, TypeOK
<1>1. /\ dev[d].account = None /\ dev[d].revoked = 0
      /\ dev' = [dev EXCEPT ![d] = [account |-> inv[i].account, role |-> RegisteredRole(i),
                                     revoked |-> 0, push |-> push, bundle |-> ""]]
    BY <1>0 DEF Register, Registered, RelayInv, RevokedRegistered, DeviceRow
<1>2. inv[i].account # None
    BY DEF Register, Redeemable, Minted
<1>3. [e \in Device |-> dev[e].account]' =
         [[e \in Device |-> dev[e].account] EXCEPT ![d] = inv[i].account]
    BY <1>0, <1>1
<1>4. {e \in Device : dev[e].revoked = 1}' = {e \in Device : dev[e].revoked = 1}
    BY <1>0, <1>1
<1>5. \E R \in SUBSET ({d} \cap IF Offered = {""} /\ "setPush" \notin Ops THEN {} ELSE Device) :
          {e \in Device : Reachable(e)}' = {e \in Device : Reachable(e)} \cup R
  <2>1. ASSUME NEW e \in Device, e # d PROVE Reachable(e)' <=> Reachable(e)
    BY <1>0, <1>1, <2>1 DEF Reachable, Live, Registered
  <2>2. ~Reachable(d) /\ (Reachable(d)' <=> push # "")
    BY <1>0, <1>1, <1>2 DEF Reachable, Live, Registered
  <2>3. CASE push = ""
    <3>1. {e \in Device : Reachable(e)}' = {e \in Device : Reachable(e)} \cup {}
        BY <2>1, <2>2, <2>3
    <3> QED
        BY <3>1
  <2>4. CASE push # ""
    <3>1. {e \in Device : Reachable(e)}' = {e \in Device : Reachable(e)} \cup {d}
        BY <2>1, <2>2, <2>4
    <3>2. Offered # {""}
        BY <2>4
    <3> QED
        BY <3>1, <3>2
  <2> QED
    BY <2>3, <2>4
<1> QED
    BY <1>1, <1>3, <1>4, <1>5 DEF T!OwnerEnrols, T!tables, T!history, transportVars

(* handleUpdatePush of a live device gives an owner another endpoint. *)
LEMMA UpdatePushReaches ==
    ASSUME RelayInv, NEW r \in Request, UpdatePush(r), UNCHANGED transportVars,
           NEW d, d = calls[r].caller, dev[d].revoked = 0
    PROVE  d \in Device /\ T!OwnerSetsPush(d)
<1>0. dev \in [Device -> DeviceRow] /\ d \in Device /\ dev[d].account \in Account
      /\ "setPush" \in Ops
    BY DEF RelayInv, IndInv, TypeOK, CallsOK, CallOK, UpdatePush, At, OpsIssued
<1>1. dev' = [dev EXCEPT ![d].push = calls[r].want]
    BY DEF UpdatePush
<1>2. dev[d].account # None
    BY <1>0, NoneAssumption
<1>3. \A e \in Device : /\ dev'[e].account = dev[e].account
                        /\ dev'[e].revoked = dev[e].revoked
                        /\ e # d => dev'[e] = dev[e]
  <2>1. \A e \in Device : e # d => dev'[e] = dev[e]
    BY <1>0, <1>1
  <2>2. dev'[d].account = dev[d].account /\ dev'[d].revoked = dev[d].revoked
    <3>1. dev'[d] = [dev[d] EXCEPT !.push = calls[r].want]
        BY <1>0, <1>1
    <3>2. dev[d] \in DeviceRow
        BY <1>0
    <3> QED
        BY <3>1, <3>2 DEF DeviceRow
  <2> QED
    BY <2>1, <2>2
<1>4. /\ [e \in Device |-> dev[e].account]' = [e \in Device |-> dev[e].account]
      /\ {e \in Device : dev[e].revoked = 1}' = {e \in Device : dev[e].revoked = 1}
      /\ d \notin {e \in Device : dev[e].revoked = 1}
    BY <1>3
<1>5. \E R \in SUBSET ({d} \cap IF Offered = {""} /\ "setPush" \notin Ops THEN {} ELSE Device) :
          {e \in Device : Reachable(e)}' = ({e \in Device : Reachable(e)} \ {d}) \cup R
  <2>1. ASSUME NEW e \in Device, e # d PROVE Reachable(e)' <=> Reachable(e)
    BY <1>3, <2>1 DEF Reachable, Live, Registered
  <2>2. CASE Reachable(d)'
    <3>1. {e \in Device : Reachable(e)}' = ({e \in Device : Reachable(e)} \ {d}) \cup {d}
        BY <1>0, <2>1, <2>2
    <3> QED
        BY <1>0, <3>1
  <2>3. CASE ~Reachable(d)'
    <3>1. {e \in Device : Reachable(e)}' = ({e \in Device : Reachable(e)} \ {d}) \cup {}
        BY <1>0, <2>1, <2>3
    <3> QED
        BY <3>1
  <2> QED
    BY <2>2, <2>3
<1> QED
    BY <1>0, <1>2, <1>4, <1>5 DEF T!OwnerSetsPush, T!tables, T!history, transportVars

(* Every step of the relay is one of the transport plane or of the         *)
(* environment it expects, or leaves it alone.                             *)
LEMMA RelayNextTransports ==
    ASSUME RelayInv, [RelayNext]_relayVars
    PROVE  [T!TNext]_(T!tvars)
<1>1. ASSUME Seen' = Seen, UNCHANGED transportVars
      PROVE  UNCHANGED T!tvars
    BY <1>1 DEF Seen, transportVars, T!tvars, T!owners, T!tables, T!history
<1>2. CASE AdminNext /\ UNCHANGED transportVars
  <2>1. ASSUME NEW r \in Request, NEW i \in Invitation, NEW d \in Device,
               NEW push \in Offered, Register(r, i, d, push)
        PROVE  T!TNext
    <3>1. inv[i].account \in Account
        BY <2>1, RegisterEffect DEF RelayInv
    <3>2. T!OwnerEnrols(d, inv[i].account)
        BY <1>2, <2>1, RegisterEnrols
    <3>3. T!OwnerNext
        BY <3>1, <3>2 DEF T!OwnerNext, T!OwnerEnrols
    <3> QED
        BY <3>3 DEF T!TNext
  <2>2. ASSUME NEW r \in Request, UpdatePush(r), dev[calls[r].caller].revoked = 0
        PROVE  T!TNext
    <3>1. PICK d : d = calls[r].caller
        OBVIOUS
    <3>2. d \in Device /\ T!OwnerSetsPush(d)
        BY <1>2, <2>2, <3>1, UpdatePushReaches
    <3> QED
        BY <3>2 DEF T!TNext, T!OwnerNext
  <2> QED
    BY <1>1, <1>2, <2>1, <2>2, AdminNextSeen
<1>3. CASE UNCHANGED vars /\ T!ServerNext
    BY <1>3 DEF T!TNext
<1>4. ASSUME NEW r \in Request, RevokeDeviceTx(r)
      PROVE  T!TNext
  <2>1. calls[r].target \in Device
    BY <1>4 DEF RevokeDeviceTx, RevokeDevice, At, RelayInv, IndInv, CallsOK, CallOK
  <2>2. T!RevokeOwner(calls[r].target)
    BY <1>4 DEF RevokeDeviceTx
  <2>3. T!OwnerNext
    BY <2>1, <2>2 DEF T!OwnerNext, T!RevokeOwner
  <2> QED
    BY <2>3 DEF T!TNext
<1>5. CASE ServerCrash
    BY <1>5 DEF ServerCrash, T!TNext
<1>6. CASE UNCHANGED relayVars
  <2>1. dev' = dev /\ UNCHANGED transportVars
    BY <1>6 DEF relayVars, vars
  <2>2. Seen' = Seen
    BY <2>1 DEF Seen, Reachable, Live, Registered
  <2> QED
    BY <1>1, <2>1, <2>2
<1> QED
    BY <1>2, <1>3, <1>4, <1>5, <1>6 DEF RelayNext

(* The relay implements the transport plane, for every instance: with what *)
(* is proved of Transport, no message is lost, no queue reopened and no    *)
(* sender replaced by anything the control plane does.                     *)
THEOREM RelayTransports == RelaySpec => ImplementsTransport
<1>1. RelayInit => T!TInit
    BY DEF RelayInit
<1>2. RelayInv /\ [RelayNext]_relayVars => [T!TNext]_(T!tvars)
    BY RelayNextTransports
<1> QED
    BY <1>1, <1>2, RelayInvHolds, PTL DEF RelaySpec, ImplementsTransport, T!TSpec

-----------------------------------------------------------------------------
(* What is proved of Transport, in the relay *)

(* The theorems about Transport, read with the relay's devices table for   *)
(* the environment.                                                        *)
P == INSTANCE TransportProofs WITH
        home     <- [d \in Device |-> dev[d].account],
        gone     <- {d \in Device : dev[d].revoked = 1},
        reach    <- {d \in Device : Reachable(d)},
        Pushable <- IF Offered = {""} /\ "setPush" \notin Ops THEN {} ELSE Device

(* T and P are two names for the same formulas: with every definition      *)
(* expanded there is no difference left.                                   *)
LEMMA SameSpecification == T!TSpec => P!TSpec
<1>1. ASSUME T!TInit PROVE P!TInit
    BY <1>1 DEF T!TInit, P!TInit, T!NoQueue, P!NoQueue, T!XIdle, P!XIdle,
       T!QuotaCmdIdle, P!QuotaCmdIdle
<1>2. ASSUME T!TNext PROVE P!TNext
    BY <1>2 DEF
       T!owners, P!owners, T!tables, P!tables, T!history, P!history, T!tvars,
       P!tvars, T!NoQueue, P!NoQueue, T!Created, P!Created, T!Expired, P!Expired,
       T!MessagesOf, P!MessagesOf, T!DeviceMessages, P!DeviceMessages,
       T!AccountMessages, P!AccountMessages, T!Bytes, P!Bytes, T!MapThenSumSet,
       P!MapThenSumSet, T!MapThenFoldSet, P!MapThenFoldSet, T!XIdle, P!XIdle,
       T!QuotaCmdIdle, P!QuotaCmdIdle, T!XAt, P!XAt, T!XReply, P!XReply, T!XGoto,
       P!XGoto, T!OwnerEnrols, P!OwnerEnrols, T!OwnerSetsPush, P!OwnerSetsPush,
       T!RevokeOwner, P!RevokeOwner, T!QuotaCmdStart, P!QuotaCmdStart,
       T!SetDeviceQuota, P!SetDeviceQuota, T!QuotaCmdPing, P!QuotaCmdPing,
       T!QuotaCmdDies, P!QuotaCmdDies, T!AuthenticateOwner, P!AuthenticateOwner,
       T!CreateQueue, P!CreateQueue, T!LookupSend, P!LookupSend, T!Bindable,
       P!Bindable, T!BindSenderKey, P!BindSenderKey, T!BindLost, P!BindLost,
       T!FitsUnder, P!FitsUnder, T!Fits, P!Fits, T!AppendMessage, P!AppendMessage,
       T!QuotaExceeded, P!QuotaExceeded, T!WakeOwner, P!WakeOwner, T!WakeOwnerFails,
       P!WakeOwnerFails, T!WakeEnds, P!WakeEnds, T!RecipientOp, P!RecipientOp,
       T!AuthorizeRecipient, P!AuthorizeRecipient, T!DrainPurge, P!DrainPurge,
       T!DrainSelect, P!DrainSelect, T!Acked, P!Acked, T!DeleteMessages,
       P!DeleteMessages, T!RetireQueue, P!RetireQueue, T!QuotaChanges,
       P!QuotaChanges, T!SetQueueQuota, P!SetQueueQuota, T!XAbort, P!XAbort,
       T!PurgeExpired, P!PurgeExpired, T!Tick, P!Tick, T!XCrash, P!XCrash,
       T!OwnerNext, P!OwnerNext, T!AckIds, P!AckIds, T!QuotaBytes, P!QuotaBytes,
       T!XCallNext, P!XCallNext, T!ServerNext, P!ServerNext, T!TNext, P!TNext
<1>3. ASSUME UNCHANGED T!tvars PROVE UNCHANGED P!tvars
    BY <1>3 DEF T!tvars, P!tvars, T!owners, P!owners, T!tables, P!tables,
       T!history, P!history
<1>4. [T!TNext]_(T!tvars) => [P!TNext]_(P!tvars)
    BY <1>2, <1>3
<1> QED
    BY <1>1, <1>4, PTL DEF T!TSpec, P!TSpec

(* The constants are as Transport assumes. *)
LEMMA TransportConstants ==
    /\ None \notin Account /\ None \notin Device /\ None \notin Queue /\ None \notin Key
    /\ TransportOps \subseteq P!TransportOp \cup P!OperatorOp
    /\ (IF Offered = {""} /\ "setPush" \notin Ops THEN {} ELSE Device) \subseteq Device
    /\ AccountLimit \in [Account -> Nat] /\ Limits \subseteq Nat /\ 0 \in Limits
    /\ Sizes \subseteq Nat \ {0} /\ TTLs \subseteq Nat \ {0}
    /\ MaxSeq \in Nat /\ MaxTime \in Nat /\ MaxFailures \in Nat
BY NoneAssumption, TransportAssumption DEF T!TransportOp, P!TransportOp,
   T!RecipientOp, P!RecipientOp, T!OperatorOp, P!OperatorOp

(* Whatever the control plane does meanwhile, no message of the relay is   *)
(* lost, no queue gets a second sender, rows go for a reason only, what is *)
(* retired or revoked stays closed, and no send exceeds a ceiling.         *)
THEOREM RelayKeepsMessages ==
    RelaySpec => /\ [](T!TTypeOK /\ T!OneSenderPerQueue /\ T!NothingLost)
                 /\ T!RemovedForAReason /\ T!ClosedStaysClosed /\ T!CeilingsHold
<1>1. P!TSpec => []P!TTypeOK
    BY P!TransportTypes, TransportConstants, PTL
<1>2. P!TSpec => []P!OneSenderPerQueue
    BY P!OneSender, TransportConstants, PTL
<1>3. P!TSpec => []P!NothingLost
    BY P!NoMessageLost, TransportConstants, PTL
<1>4. P!TSpec => P!RemovedForAReason
    BY P!RowsGoForAReason, TransportConstants
<1>5. P!TSpec => P!ClosedStaysClosed
    BY P!ClosedForGood, TransportConstants
<1>6. P!TTypeOK => T!TTypeOK
    BY DEF P!TTypeOK, T!TTypeOK, P!QueueRow, T!QueueRow, P!Message, T!Message,
       P!XCall, T!XCall, P!TransportOp, T!TransportOp, P!RecipientOp, T!RecipientOp,
       P!QuotaCmd, T!QuotaCmd
<1>7. P!OneSenderPerQueue => T!OneSenderPerQueue
    BY DEF P!OneSenderPerQueue, T!OneSenderPerQueue
<1>8. P!NothingLost => T!NothingLost
    BY DEF P!NothingLost, T!NothingLost, P!Expired, T!Expired
<1>9. ASSUME [P!RemovalStep]_(P!tvars) PROVE [T!RemovalStep]_(T!tvars)
    BY <1>9 DEF P!RemovalStep, T!RemovalStep, P!Expired, T!Expired, P!XAt, T!XAt,
       P!tvars, T!tvars, P!owners, T!owners, P!tables, T!tables, P!history, T!history
<1>10. ASSUME [P!ClosedStep]_(P!tvars) PROVE [T!ClosedStep]_(T!tvars)
    BY <1>10 DEF P!ClosedStep, T!ClosedStep, P!Closed, T!Closed, P!Severed, T!Severed,
       P!MessagesOf, T!MessagesOf,
       P!tvars, T!tvars, P!owners, T!owners, P!tables, T!tables, P!history, T!history
<1>11. [P!RemovalStep]_(P!tvars) => [T!RemovalStep]_(T!tvars)
    BY <1>9
<1>12. [P!ClosedStep]_(P!tvars) => [T!ClosedStep]_(T!tvars)
    BY <1>10
<1>13. P!TSpec => P!CeilingsHold
    BY P!CeilingsKept, TransportConstants
<1>14. ASSUME [P!CeilingStep]_(P!tvars) PROVE [T!CeilingStep]_(T!tvars)
    BY <1>14 DEF P!CeilingStep, T!CeilingStep, P!LiveBytes, T!LiveBytes, P!Bytes, T!Bytes,
       P!MapThenSumSet, T!MapThenSumSet, P!MapThenFoldSet, T!MapThenFoldSet,
       P!MessagesOf, T!MessagesOf, P!DeviceMessages, T!DeviceMessages,
       P!AccountMessages, T!AccountMessages, P!Expired, T!Expired,
       P!tvars, T!tvars, P!owners, T!owners, P!tables, T!tables, P!history, T!history
<1>15. [P!CeilingStep]_(P!tvars) => [T!CeilingStep]_(T!tvars)
    BY <1>14
<1> QED
    BY <1>1, <1>2, <1>3, <1>4, <1>5, <1>6, <1>7, <1>8, <1>11, <1>12, <1>13, <1>15,
       RelayTransports, SameSpecification, PTL
    DEF ImplementsTransport, P!RemovedForAReason, T!RemovedForAReason,
        P!ClosedStaysClosed, T!ClosedStaysClosed, P!CeilingsHold, T!CeilingsHold

-----------------------------------------------------------------------------
(* Revocation *)

(* In the step in which a device's key dies its endpoint is cleared, its   *)
(* queues are retired and their messages, and only these, are gone.        *)
THEOREM RevocationAtomic == RelaySpec => RevocationIsAtomic
<1>1. ASSUME RelayInv, T!TTypeOK, [RelayNext]_relayVars, NEW d \in Device,
             dev[d].revoked = 0, dev'[d].revoked = 1
      PROVE  /\ dev'[d].push = ""
             /\ \A q \in Queue : queues[q].owner = d => queues'[q].retired = 1
             /\ msgs' = {m \in msgs : queues[m.queue].owner # d}
  <2>0. dev \in [Device -> DeviceRow]
    BY <1>1 DEF RelayInv, IndInv, TypeOK
  <2>1. ASSUME AdminNext PROVE FALSE
    <3>1. CASE Seen' = Seen
      <4>1. d \in {e \in Device : dev[e].revoked = 1}'
        BY <1>1
      <4>2. d \notin {e \in Device : dev[e].revoked = 1}
        BY <1>1
      <4> QED
        BY <3>1, <4>1, <4>2 DEF Seen
    <3>2. ASSUME NEW r \in Request, NEW i \in Invitation, NEW e \in Device,
                 NEW push \in Offered, Register(r, i, e, push)
          PROVE  FALSE
      <4>1. dev'[d] = dev[d] \/ dev'[d].revoked = 0
        BY <2>0, <3>2 DEF Register
      <4> QED
        BY <1>1, <4>1
    <3>3. ASSUME NEW r \in Request, UpdatePush(r)
          PROVE  FALSE
      <4>1. dev'[d].revoked = dev[d].revoked
        BY <2>0, <3>3 DEF UpdatePush, DeviceRow
      <4> QED
        BY <1>1, <4>1
    <3> QED
        BY <1>1, <2>1, <3>1, <3>2, <3>3, AdminNextSeen
  <2>2. ASSUME dev' = dev PROVE FALSE
    BY <1>1, <2>2
  <2>3. PICK r \in Request : RevokeDeviceTx(r)
    BY <1>1, <2>1, <2>2 DEF RelayNext, relayVars, vars, ServerCrash, Crash
  <2>4. calls[r].target = d /\ dev'[d].push = ""
    <3>1. dev' = [dev EXCEPT ![calls[r].target].revoked = 1,
                             ![calls[r].target].push = "",
                             ![calls[r].target].bundle = ""]
        BY <2>3 DEF RevokeDeviceTx, RevokeDevice
    <3>2. calls[r].target # d => dev'[d] = dev[d]
        BY <2>0, <3>1
    <3>3. calls[r].target = d
        BY <1>1, <2>2, <3>2
    <3> QED
        BY <2>0, <3>1, <3>3 DEF DeviceRow
  <2>5. /\ msgs' = msgs \ {m \in msgs : queues[m.queue].owner = d}
        /\ queues' = [q \in Queue |-> IF queues[q].owner = d
                                      THEN [queues[q] EXCEPT !.retired = 1] ELSE queues[q]]
    BY <2>3, <2>4 DEF RevokeDeviceTx, T!RevokeOwner, T!DeviceMessages
  <2>6. queues \in [Queue -> T!QueueRow]
    BY <1>1 DEF T!TTypeOK
  <2>7. \A q \in Queue : queues[q].owner = d => queues'[q].retired = 1
    BY <2>5, <2>6 DEF T!QueueRow
  <2>8. msgs' = {m \in msgs : queues[m.queue].owner # d}
    BY <2>5
  <2> QED
    BY <2>4, <2>7, <2>8
<1>2. RelayInv /\ T!TTypeOK /\ [RelayNext]_relayVars => [RevocationStep]_relayVars
    BY <1>1 DEF RevocationStep
<1> QED
    BY <1>2, RelayInvHolds, RelayKeepsMessages, PTL DEF RelaySpec, RevocationIsAtomic

-----------------------------------------------------------------------------
(* Pings to revoked devices *)

(* A device that is revoked stays so. *)
LEMMA RevokedKept ==
    ASSUME RelayInv, [Next]_vars, NEW d \in Device, dev[d].revoked = 1
    PROVE  dev'[d].revoked = 1
<1>0. dev \in [Device -> DeviceRow]
    BY DEF RelayInv, IndInv, TypeOK
<1>1. ASSUME NEW r \in Request, NEW i \in Invitation, NEW e \in Device,
             NEW push \in Offered, Register(r, i, e, push)
      PROVE  dev'[d].revoked = 1
  <2>1. e # d
    BY <1>1 DEF Register, RelayInv, RevokedRegistered
  <2> QED
    BY <1>0, <1>1, <2>1 DEF Register
<1>2. ASSUME NEW r \in Request, UpdatePush(r)
      PROVE  dev'[d].revoked = 1
    BY <1>0, <1>2 DEF UpdatePush, DeviceRow
<1>3. ASSUME NEW r \in Request, RevokeDevice(r)
      PROVE  dev'[d].revoked = 1
    BY <1>0, <1>3 DEF RevokeDevice, DeviceRow
<1>4. ASSUME Seen' = Seen
      PROVE  dev'[d].revoked = 1
  <2>1. d \in {e \in Device : dev[e].revoked = 1}
    OBVIOUS
  <2>2. d \in {e \in Device : dev[e].revoked = 1}'
    BY <1>4, <2>1 DEF Seen
  <2> QED
    BY <2>2
<1>5. ASSUME Crash \/ UNCHANGED vars
      PROVE  dev'[d].revoked = 1
    BY <1>5 DEF Crash, vars
<1> QED
    BY <1>1, <1>2, <1>3, <1>4, <1>5, AdminNextSeen DEF Next

(* The control plane and the operator's promote ping live devices, and     *)
(* besides only those a revocation owes a ping.                            *)
LEMMA RevokedNotPinged ==
    ASSUME [Next]_vars, NEW d \in Device, dev[d].revoked = 1, d \notin pings,
           \A r \in Request : d \notin TargetPing(r)
    PROVE  d \notin pings'
<1>0. ~Reachable(d)
    BY DEF Reachable, Live
<1>1. \A a, e : d \notin Woken(a, e)
    BY <1>0 DEF Woken
<1>2. ASSUME NEW r \in Request, CallNext(r) \/ RevokeDevice(r)
      PROVE  d \notin pings'
  <2>1. CASE WakeAccount(r)
    BY <1>1, <2>1 DEF WakeAccount
  <2>2. CASE WakeFails(r)
    BY <2>2 DEF WakeFails
  <2>3. CASE ~WakeAccount(r) /\ ~WakeFails(r)
    BY <1>2, <2>3 DEF CallNext, RevokeDevice, Register, Authenticate, CreateInvitation,
       RevokeInvitation, SetDeviceRole, ReadTarget, UpdatePush, SetBundle, Refuse, Abort
  <2> QED
    BY <2>1, <2>2, <2>3
<1>3. ASSUME CliNext
      PROVE  d \notin pings'
  <2>1. CASE CliPing
    BY <1>1, <2>1 DEF CliPing
  <2>2. CASE ~CliPing
    BY <1>3, <2>2 DEF CliNext, CliCreateAccount, CliCreateInvitation, CliPromoteCheck,
       CliPromoteWrite, CliDies
  <2> QED
    BY <2>1, <2>2
<1>4. ASSUME (\E i \in Invitation : Expire(i)) \/ (\E e \in Device : PingEnds(e))
             \/ Crash \/ UNCHANGED vars
      PROVE  d \notin pings'
    BY <1>4 DEF Expire, PingEnds, Crash, vars
<1> QED
    BY <1>2, <1>3, <1>4 DEF Next, AdminNext

(* A revocation comes to owe its target a ping in handleRevoke's lookup,   *)
(* if the row has an endpoint then, and in no other step.                  *)
LEMMA PingOwed ==
    ASSUME IndInv, [Next]_vars, NEW d \in Device, NEW r \in Request,
           d \notin TargetPing(r), d \in TargetPing(r)'
    PROVE  dev[d].push # ""
<1>0. calls \in [Request -> Call] /\ dev \in [Device -> DeviceRow]
    BY DEF IndInv, TypeOK
<1>1. calls'[r] # calls[r]
    BY DEF TargetPing
<1>2. ~(calls'[r].op = "none" \/ calls'[r].op = "register" \/ calls'[r].endpoint = "")
    BY DEF TargetPing
<1>3. ASSUME NEW x \in Request, CallNext(x) \/ RevokeDevice(x)
      PROVE  x = r
    BY <1>1, <1>3, OwnSlotOnly
<1>4. ASSUME CallNext(r) \/ RevokeDevice(r)
      PROVE  ReadTarget(r)
  <2>1. ASSUME Reply(r) PROVE FALSE
    BY <1>0, <1>2, <2>1 DEF Reply, Idle
  <2>2. ASSUME Announce(r) PROVE FALSE
    <3>1. /\ calls'[r].op = calls[r].op /\ calls'[r].endpoint = calls[r].endpoint
          /\ calls'[r].target = calls[r].target /\ calls'[r].caller = calls[r].caller
        BY <1>0, <2>2 DEF Announce, Call
    <3> QED
        BY <3>1 DEF TargetPing
  <2>3. ASSUME NEW i \in Invitation, NEW e \in Device, NEW push \in Offered,
               Register(r, i, e, push)
        PROVE  FALSE
    BY <1>0, <1>2, <2>3 DEF Register, Idle
  <2>4. ASSUME NEW e \in Device, NEW q \in SignedRequest, Authenticate(r, e, q)
        PROVE  FALSE
    BY <1>0, <1>2, <2>4 DEF Authenticate
  <2> QED
    BY <1>4, <2>1, <2>2, <2>3, <2>4 DEF CallNext, RevokeDevice, CreateInvitation,
       RevokeInvitation, SetDeviceRole, UpdatePush, SetBundle, Refuse, Abort,
       WakeAccount, WakeFails
<1>5. ASSUME Crash PROVE FALSE
    BY <1>2, <1>5 DEF Crash, Idle
<1>6. ASSUME CliNext \/ (\E i \in Invitation : Expire(i))
             \/ (\E e \in Device : PingEnds(e)) \/ UNCHANGED vars
      PROVE  FALSE
    BY <1>1, <1>6 DEF CliNext, CliCreateAccount, CliCreateInvitation, CliPromoteCheck,
       CliPromoteWrite, CliPing, CliDies, Expire, PingEnds, vars
<1>7. ReadTarget(r)
    BY <1>3, <1>4, <1>5, <1>6 DEF Next, AdminNext
<1>8. /\ calls'[r].op = calls[r].op /\ calls'[r].target = calls[r].target
      /\ calls'[r].endpoint = dev[calls[r].target].push
    BY <1>0, <1>7 DEF ReadTarget, Call
<1>9. calls'[r].target = d /\ calls'[r].endpoint # ""
    BY DEF TargetPing
<1> QED
    BY <1>8, <1>9

(* The transport plane pings the owner of a queue, if it is live, and the  *)
(* operator's quota command the device it has looked up, if it was.        *)
LEMMA RevokedNotWoken ==
    ASSUME T!TTypeOK, T!TNext, NEW d \in Device, dev[d].revoked = 1, d \notin wakes,
           ~(quotaCmd.device = d /\ quotaCmd.endpoint)
    PROVE  d \notin wakes' /\ ~(quotaCmd'.device = d /\ quotaCmd'.endpoint)
<1>0. d \notin {e \in Device : Reachable(e)} /\ quotaCmd \in T!QuotaCmd
  <2>1. ~Reachable(d)
    BY DEF Reachable, Live
  <2> QED
    BY <2>1 DEF T!TTypeOK
<1>1. ~(T!QuotaCmdIdle.device = d /\ T!QuotaCmdIdle.endpoint)
    BY DEF T!QuotaCmdIdle
<1>2. ASSUME NEW s \in Slot, T!XCallNext(s)
      PROVE  d \notin wakes' /\ quotaCmd' = quotaCmd
  <2>1. CASE T!WakeOwner(s)
    BY <1>0, <2>1 DEF T!WakeOwner
  <2>2. CASE ~T!WakeOwner(s)
    BY <1>2, <2>2 DEF T!XCallNext, T!AuthenticateOwner, T!CreateQueue, T!LookupSend,
       T!BindSenderKey, T!BindLost, T!AppendMessage, T!QuotaExceeded, T!WakeOwnerFails,
       T!AuthorizeRecipient, T!DrainPurge, T!DrainSelect, T!DeleteMessages,
       T!RetireQueue, T!SetQueueQuota, T!XAbort
  <2> QED
    BY <2>1, <2>2
<1>3. ASSUME NEW e \in Device, NEW n \in Limits, T!QuotaCmdStart(e, n)
      PROVE  wakes' = wakes /\ ~(quotaCmd'.device = d /\ quotaCmd'.endpoint)
    BY <1>0, <1>3 DEF T!QuotaCmdStart
<1>4. ASSUME T!SetDeviceQuota
      PROVE  wakes' = wakes /\ ~(quotaCmd'.device = d /\ quotaCmd'.endpoint)
    BY <1>0, <1>1, <1>4 DEF T!SetDeviceQuota, T!QuotaCmd
<1>5. ASSUME T!QuotaCmdPing
      PROVE  d \notin wakes' /\ ~(quotaCmd'.device = d /\ quotaCmd'.endpoint)
    BY <1>0, <1>1, <1>5 DEF T!QuotaCmdPing, T!QuotaCmd
<1>6. ASSUME T!QuotaCmdDies
      PROVE  wakes' = wakes /\ ~(quotaCmd'.device = d /\ quotaCmd'.endpoint)
    BY <1>1, <1>6 DEF T!QuotaCmdDies
<1>7. ASSUME (\E e \in Device : T!WakeEnds(e)) \/ T!PurgeExpired \/ T!Tick \/ T!XCrash
             \/ T!OwnerNext
      PROVE  d \notin wakes' /\ quotaCmd' = quotaCmd
    BY <1>7 DEF T!WakeEnds, T!PurgeExpired, T!Tick, T!XCrash, T!OwnerNext,
       T!OwnerEnrols, T!OwnerSetsPush, T!RevokeOwner
<1> QED
    BY <1>2, <1>3, <1>4, <1>5, <1>6, <1>7 DEF T!TNext, T!ServerNext

(* A revoked device that has no ping coming gets none from either plane or *)
(* from the operator, unless a second revocation of it finds the endpoint  *)
(* that a setPush under way has put back: whoever pings looks at the       *)
(* revoked flag, in the row it reads then.                                 *)
THEOREM RevokedQuiet == RelaySpec => RevokedStaysQuiet
<1>1. ASSUME RelayInv, T!TTypeOK, [RelayNext]_relayVars, NEW d \in Device, Silenced(d)
      PROVE  \/ Silenced(d)'
             \/ dev[d].push # "" /\ \E r \in Request : d \in TargetPing(r)'
  <2>1. [Next]_vars
    BY <1>1 DEF RelayNext, relayVars, Next, RevokeDeviceTx, ServerCrash
  <2>2. dev'[d].revoked = 1
    BY <1>1, <2>1, RevokedKept DEF Silenced
  <2>3. d \notin pings'
    BY <1>1, <2>1, RevokedNotPinged DEF Silenced
  <2>4. [T!TNext]_(T!tvars)
    BY <1>1, RelayNextTransports
  <2>5. d \notin wakes' /\ ~(quotaCmd'.device = d /\ quotaCmd'.endpoint)
    <3>1. CASE T!TNext
        BY <1>1, <3>1, RevokedNotWoken DEF Silenced
    <3>2. CASE UNCHANGED T!tvars
        BY <1>1, <3>2 DEF Silenced, T!tvars
    <3> QED
        BY <2>4, <3>1, <3>2
  <2>6. CASE \A r \in Request : ~(d \in TargetPing(r)')
    BY <2>2, <2>3, <2>5, <2>6 DEF Silenced
  <2>7. ASSUME NEW r \in Request, d \in TargetPing(r)'
        PROVE  dev[d].push # ""
    BY <1>1, <2>1, <2>7, PingOwed DEF Silenced, RelayInv
  <2> QED
    BY <2>6, <2>7
<1>2. RelayInv /\ T!TTypeOK /\ [RelayNext]_relayVars => [SilencedStep]_relayVars
    BY <1>1 DEF SilencedStep
<1> QED
    BY <1>2, RelayInvHolds, RelayKeepsMessages, PTL DEF RelaySpec, RevokedStaysQuiet
=============================================================================
