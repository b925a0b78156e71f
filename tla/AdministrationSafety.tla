------------------------ MODULE AdministrationSafety ------------------------
(* The safety properties of Administration, proved from IndInv. *)
EXTENDS AdministrationProofs

(* A step that changes no column the properties look at. *)
Quiet ==
    /\ mode' = mode
    /\ \A d \in Device : /\ dev'[d].account = dev[d].account
                         /\ dev'[d].role    = dev[d].role
                         /\ dev'[d].revoked = dev[d].revoked
    /\ \A i \in Invitation : /\ inv'[i].account  = inv[i].account
                             /\ inv'[i].grants   = inv[i].grants
                             /\ inv'[i].consumed = inv[i].consumed
                             /\ inv'[i].revoked  = inv[i].revoked

(* The steps that do. *)
Loud ==
    \/ \E r \in Request, i \in Invitation, d \in Device, push \in Offered :
           Register(r, i, d, push)
    \/ \E r \in Request, i \in Invitation : CreateInvitation(r, i)
    \/ \E r \in Request : RevokeInvitation(r)
    \/ \E r \in Request : SetDeviceRole(r)
    \/ \E r \in Request : RevokeDevice(r)
    \/ \E a \in Account, m \in {"flat", "managed"} : CliCreateAccount(a, m)
    \/ \E i \in Invitation : CliCreateInvitation(i)
    \/ CliPromoteWrite

(* Every step is one or the other. *)
LEMMA QuietOrLoud ==
    ASSUME IndInv, [Next]_vars
    PROVE  Quiet \/ Loud
<1>1. CASE UNCHANGED <<mode, inv, dev>>
    BY <1>1 DEF Quiet
<1>2. ASSUME NEW r \in Request, CallNext(r)
      PROVE  Quiet \/ Loud
  <2>1. CASE UpdatePush(r)
    <3>1. calls[r].caller \in Device
        BY <2>1 DEF UpdatePush, At, IndInv, CallsOK, CallOK
    <3> QED
        BY <2>1, <3>1 DEF UpdatePush, Quiet, IndInv, TypeOK, DeviceRow
  <2>2. CASE SetBundle(r)
    <3>1. calls[r].caller \in Device
        BY <2>2 DEF SetBundle, At, IndInv, CallsOK, CallOK
    <3> QED
        BY <2>2, <3>1 DEF SetBundle, Quiet, IndInv, TypeOK, DeviceRow
  <2>3. CASE \/ \E d \in Device, q \in SignedRequest : Authenticate(r, d, q)
             \/ ReadTarget(r) \/ Refuse(r) \/ Abort(r) \/ WakeAccount(r) \/ WakeFails(r)
    <3>1. UNCHANGED <<mode, inv, dev>>
        BY <2>3 DEF Authenticate, ReadTarget, Refuse, Abort, WakeAccount, WakeFails
    <3> QED
        BY <3>1 DEF Quiet
  <2>4. CASE \/ \E i \in Invitation, d \in Device, push \in Offered : Register(r, i, d, push)
             \/ \E i \in Invitation : CreateInvitation(r, i)
             \/ RevokeInvitation(r) \/ SetDeviceRole(r)
    BY <2>4 DEF Loud
  <2> QED
    BY <1>2, <2>1, <2>2, <2>3, <2>4 DEF CallNext
<1>3. ASSUME CliNext
      PROVE  Quiet \/ Loud
  <2>1. CASE (\E d \in Device : CliPromoteCheck(d)) \/ CliPing \/ CliDies
    <3>1. UNCHANGED <<mode, inv, dev>>
        BY <2>1 DEF CliPromoteCheck, CliPing, CliDies
    <3> QED
        BY <3>1 DEF Quiet
  <2> QED
    BY <1>3, <2>1 DEF CliNext, Loud
<1>4. ASSUME NEW i \in Invitation, Expire(i)
      PROVE  Quiet
    BY <1>4 DEF Expire, Quiet, IndInv, TypeOK, InvitationRow
<1>5. ASSUME NEW d \in Device, PingEnds(d)
      PROVE  UNCHANGED <<mode, inv, dev>>
    BY <1>5 DEF PingEnds
<1>6. Crash \/ UNCHANGED vars => UNCHANGED <<mode, inv, dev>>
    BY DEF Crash, vars
<1> QED
    BY <1>1, <1>2, <1>3, <1>4, <1>5, <1>6 DEF Next, AdminNext, Loud

(* What each loud step does to the two tables, column by column. *)

(* RegisterDevice spends one open token and adds one device. *)
LEMMA RegisterEffect ==
    ASSUME IndInv, NEW r \in Request, NEW i \in Invitation, NEW d \in Device,
           NEW push \in Offered, Register(r, i, d, push)
    PROVE  /\ mode' = mode
           /\ inv[i].account \in Account
           /\ inv[i].consumed = 0 /\ inv[i].revoked = 0 /\ dev[d].account = None
           /\ inv'[i].consumed = 1
           /\ inv'[i].account = inv[i].account /\ inv'[i].grants = inv[i].grants
           /\ inv'[i].revoked = 0
           /\ \A j \in Invitation : j # i => inv'[j] = inv[j]
           /\ dev'[d].account = inv[i].account /\ dev'[d].revoked = 0
           /\ dev'[d].role = RegisteredRole(i)
           /\ \A e \in Device : e # d => dev'[e] = dev[e]
BY DEF Register, Redeemable, Minted, Registered, IndInv, TypeOK, InvitationRow

(* Minting, by a device or by the operator, adds one open invitation. *)
LEMMA MintEffect ==
    ASSUME IndInv, NEW i \in Invitation,
           (\E r \in Request : CreateInvitation(r, i)) \/ CliCreateInvitation(i)
    PROVE  /\ mode' = mode /\ dev' = dev
           /\ inv[i].account = None
           /\ inv'[i].account \in Account
           /\ inv'[i].consumed = 0 /\ inv'[i].revoked = 0
           /\ mode[inv'[i].account] = "flat" => inv'[i].grants = "admin"
           /\ \A j \in Invitation : j # i => inv'[j] = inv[j]
<1>1. ASSUME NEW a \in Account, NEW want, inv' = [inv EXCEPT ![i] = MintedRow(a, want)]
      PROVE  /\ inv'[i].account \in Account
             /\ inv'[i].consumed = 0 /\ inv'[i].revoked = 0
             /\ mode[inv'[i].account] = "flat" => inv'[i].grants = "admin"
             /\ \A j \in Invitation : j # i => inv'[j] = inv[j]
  <2>1. inv'[i] = MintedRow(a, want)
    BY <1>1 DEF IndInv, TypeOK
  <2>2. /\ MintedRow(a, want).account = a
        /\ MintedRow(a, want).consumed = 0 /\ MintedRow(a, want).revoked = 0
        /\ mode[a] = "flat" => MintedRow(a, want).grants = "admin"
    BY DEF MintedRow, NoInvitation, GrantsRole
  <2> QED
    BY <1>1, <2>1, <2>2 DEF IndInv, TypeOK
<1>2. ASSUME NEW r \in Request, CreateInvitation(r, i)
      PROVE  AccountOf(r) \in Account
    BY <1>2 DEF CreateInvitation, At, IndInv, CallsOK, CallOK, AccountOf
<1>3. CliCreateInvitation(i) => cli.account \in Account
    BY DEF CliCreateInvitation, IndInv, CliOK
<1>4. CASE \E r \in Request : CreateInvitation(r, i)
    BY <1>1, <1>2, <1>4 DEF CreateInvitation, Minted
<1>5. CASE CliCreateInvitation(i)
    BY <1>1, <1>3, <1>5 DEF CliCreateInvitation, Minted
<1> QED
    BY <1>4, <1>5

(* RevokeInvitation never revokes a spent token. *)
LEMMA RevokeInvitationEffect ==
    ASSUME IndInv, NEW r \in Request, RevokeInvitation(r)
    PROVE  /\ mode' = mode /\ dev' = dev
           /\ \A j \in Invitation :
                 /\ inv'[j].account = inv[j].account /\ inv'[j].grants = inv[j].grants
                 /\ inv'[j].consumed = inv[j].consumed
                 /\ inv'[j].consumed = 1 => inv'[j].revoked = inv[j].revoked
BY DEF RevokeInvitation, Revocable, At, IndInv, TypeOK, InvitationRow, CallsOK, CallOK

(* SetDeviceRole changes the role of one device of a managed account. *)
LEMMA SetDeviceRoleEffect ==
    ASSUME IndInv, NEW r \in Request, SetDeviceRole(r)
    PROVE  /\ mode' = mode /\ inv' = inv /\ calls[r].target \in Device
           /\ mode[dev[calls[r].target].account] = "managed"
           /\ dev[calls[r].target].revoked = 0
           /\ dev[calls[r].target].role = "admin" /\ calls[r].want = "member"
                 => NotLastAdmin(calls[r].target, FALSE)
           /\ dev'[calls[r].target].account = dev[calls[r].target].account
           /\ dev'[calls[r].target].revoked = 0
           /\ dev'[calls[r].target].role = calls[r].want
           /\ calls[r].want \in {"admin", "member"}
           /\ \A e \in Device : e # calls[r].target => dev'[e] = dev[e]
<1>1. calls[r].target \in Device /\ calls[r].want \in {"admin", "member"}
    BY DEF SetDeviceRole, At, IndInv, CallsOK, CallOK
<1>2. RoleChangeAllowed(r) /\ mode' = mode /\ inv' = inv
      /\ dev' = [dev EXCEPT ![calls[r].target].role = calls[r].want]
    BY DEF SetDeviceRole
<1>3. dev[calls[r].target] \in DeviceRow
    BY <1>1 DEF IndInv, TypeOK
<1>4. /\ dev'[calls[r].target].account = dev[calls[r].target].account
      /\ dev'[calls[r].target].revoked = dev[calls[r].target].revoked
      /\ dev'[calls[r].target].role = calls[r].want
      /\ \A e \in Device : e # calls[r].target => dev'[e] = dev[e]
    BY <1>1, <1>2, <1>3 DEF IndInv, TypeOK, DeviceRow
<1> QED
    BY <1>1, <1>2, <1>4 DEF RoleChangeAllowed

(* RevokeDevice flags one device, if the last-admin rule lets it. *)
LEMMA RevokeDeviceEffect ==
    ASSUME IndInv, NEW r \in Request, RevokeDevice(r)
    PROVE  /\ mode' = mode /\ inv' = inv /\ calls[r].target \in Device
           /\ dev[calls[r].target].account \in Account
           /\ RevocationAllowed(r)
           /\ dev'[calls[r].target].account = dev[calls[r].target].account
           /\ dev'[calls[r].target].role = dev[calls[r].target].role
           /\ dev'[calls[r].target].revoked = 1
           /\ \A e \in Device : e # calls[r].target => dev'[e] = dev[e]
<1>1. calls[r].target \in Device /\ dev[calls[r].target].account \in Account
    BY DEF RevokeDevice, At, IndInv, CallsOK, CallOK
<1>2. dev[calls[r].target] \in DeviceRow
    BY <1>1 DEF IndInv, TypeOK
<1>3. /\ dev'[calls[r].target].account = dev[calls[r].target].account
      /\ dev'[calls[r].target].role = dev[calls[r].target].role
      /\ dev'[calls[r].target].revoked = 1
      /\ \A e \in Device : e # calls[r].target => dev'[e] = dev[e]
    BY <1>1, <1>2 DEF RevokeDevice, IndInv, TypeOK, DeviceRow
<1> QED
    BY <1>1, <1>3 DEF RevokeDevice

(* The write of PromoteDevice makes one device an admin. *)
LEMMA PromoteEffect ==
    ASSUME IndInv, CliPromoteWrite
    PROVE  /\ mode' = mode /\ inv' = inv /\ cli.device \in Device
           /\ \A e \in Device : /\ dev'[e].account = dev[e].account
                                /\ dev'[e].revoked = dev[e].revoked
                                /\ dev'[e].role \in {dev[e].role, "admin"}
<1>1. cli.device \in Device
    BY DEF CliPromoteWrite, IndInv, CliOK
<1> QED
    BY <1>1 DEF CliPromoteWrite, IndInv, TypeOK, DeviceRow

-----------------------------------------------------------------------------
(* Flat accounts *)

(* Every loud step keeps flat accounts flat. *)
LEMMA FlatStep ==
    ASSUME IndInv, FlatAllAdmin, [Next]_vars
    PROVE  FlatAllAdmin'
<1> USE DEF FlatAllAdmin, Registered, Minted
<1>1. CASE Quiet
    BY <1>1 DEF Quiet
<1>2. ASSUME NEW r \in Request, NEW i \in Invitation, NEW d \in Device,
             NEW push \in Offered, Register(r, i, d, push)
      PROVE  FlatAllAdmin'
  <2>1. mode[inv[i].account] = "flat" => RegisteredRole(i) = "admin"
    BY DEF RegisteredRole
  <2> QED
    BY <1>2, <2>1, RegisterEffect
<1>3. ASSUME NEW i \in Invitation,
             (\E r \in Request : CreateInvitation(r, i)) \/ CliCreateInvitation(i)
      PROVE  FlatAllAdmin'
    BY <1>3, MintEffect
<1>4. ASSUME NEW r \in Request, RevokeInvitation(r)
      PROVE  FlatAllAdmin'
    BY <1>4, RevokeInvitationEffect
<1>5. ASSUME NEW r \in Request, SetDeviceRole(r)
      PROVE  FlatAllAdmin'
    BY <1>5, SetDeviceRoleEffect
<1>6. ASSUME NEW r \in Request, RevokeDevice(r)
      PROVE  FlatAllAdmin'
    BY <1>6, RevokeDeviceEffect, NoneAssumption
<1>7. ASSUME NEW a \in Account, NEW m \in {"flat", "managed"}, CliCreateAccount(a, m)
      PROVE  FlatAllAdmin'
  <2>1. mode[a] = "none" /\ mode' = [mode EXCEPT ![a] = m] /\ UNCHANGED <<inv, dev>>
    BY <1>7 DEF CliCreateAccount
  <2>2. /\ \A d \in Device : dev[d].account # a
        /\ \A i \in Invitation : inv[i].account # a
    BY <2>1 DEF IndInv, RowsOK
  <2>3. /\ \A d \in Device : dev[d].account \in Account \cup {None}
        /\ \A i \in Invitation : inv[i].account \in Account \cup {None}
    BY DEF IndInv, TypeOK, DeviceRow, InvitationRow
  <2> QED
    BY <2>1, <2>2, <2>3 DEF IndInv, TypeOK
<1>8. CASE CliPromoteWrite
    BY <1>8, PromoteEffect
<1>9. Quiet \/ Loud
    BY QuietOrLoud
<1> QED
    BY <1>1, <1>2, <1>3, <1>4, <1>5, <1>6, <1>7, <1>8, <1>9 DEF Loud

(* A flat account has only admins and only admin-granting invitations, in  *)
(* every instance: CreateInvitation and RegisterDevice give nothing else,  *)
(* SetDeviceRole refuses, and the mode of an account never changes.        *)
THEOREM FlatStaysFlat == Spec => []FlatAllAdmin
<1>1. Init => FlatAllAdmin
  <2>1. NoDevice.account = None /\ NoInvitation.account = None
    BY DEF NoDevice, NoInvitation
  <2>2. ASSUME Init
        PROVE  /\ \A d \in Device : ~Registered(d)
               /\ \A i \in Invitation : ~Minted(i)
    BY <2>1, <2>2 DEF Init, Registered, Minted
  <2> QED
    BY <2>2 DEF FlatAllAdmin
<1>2. IndInv /\ FlatAllAdmin /\ [Next]_vars => FlatAllAdmin'
    BY FlatStep
<1> QED
    BY <1>1, <1>2, IndInvHolds, PTL DEF Spec

-----------------------------------------------------------------------------
(* Invitations *)

(* Every step keeps tokens from being both spent and revoked. *)
LEMMA SpentStep ==
    ASSUME IndInv, SpentOrRevoked, [Next]_vars
    PROVE  SpentOrRevoked'
<1> USE DEF SpentOrRevoked
<1>1. CASE Quiet
    BY <1>1 DEF Quiet
<1>2. ASSUME NEW r \in Request, NEW i \in Invitation, NEW d \in Device,
             NEW push \in Offered, Register(r, i, d, push)
      PROVE  SpentOrRevoked'
    BY <1>2, RegisterEffect
<1>3. ASSUME NEW i \in Invitation,
             (\E r \in Request : CreateInvitation(r, i)) \/ CliCreateInvitation(i)
      PROVE  SpentOrRevoked'
    BY <1>3, MintEffect
<1>4. ASSUME NEW r \in Request, RevokeInvitation(r)
      PROVE  SpentOrRevoked'
    BY <1>4, RevokeInvitationEffect
<1>5. (\E r \in Request : SetDeviceRole(r) \/ RevokeDevice(r)) \/ CliPromoteWrite
        => inv' = inv
    BY SetDeviceRoleEffect, RevokeDeviceEffect, PromoteEffect
<1>6. (\E a \in Account, m \in {"flat", "managed"} : CliCreateAccount(a, m)) => inv' = inv
    BY DEF CliCreateAccount
<1>7. Quiet \/ Loud
    BY QuietOrLoud
<1> QED
    BY <1>1, <1>2, <1>3, <1>4, <1>5, <1>6, <1>7 DEF Loud

(* No token is both spent and revoked, in every instance: the two UPDATEs  *)
(* exclude each other.                                                     *)
THEOREM SpentXorRevoked == Spec => []SpentOrRevoked
<1>1. Init => SpentOrRevoked
    BY DEF Init, SpentOrRevoked, NoInvitation
<1>2. IndInv /\ SpentOrRevoked /\ [Next]_vars => SpentOrRevoked'
    BY SpentStep
<1> QED
    BY <1>1, <1>2, IndInvHolds, PTL DEF Spec

(* The sets that OneDevicePerToken counts are finite. *)
LEMMA FiniteTables ==
    ASSUME NEW a \in Account
    PROVE  IsFiniteSet(DevicesOf(a)) /\ IsFiniteSet(SpentOf(a))
<1>1. DevicesOf(a) \subseteq Device /\ SpentOf(a) \subseteq Invitation
    BY DEF DevicesOf, SpentOf
<1> QED
    BY <1>1, FiniteAssumption, FS_Subset

(* Every step adds as many devices to an account as it spends tokens. *)
LEMMA TokenStep ==
    ASSUME IndInv, OneDevicePerToken, [Next]_vars
    PROVE  OneDevicePerToken'
<1> SUFFICES ASSUME NEW a \in Account
             PROVE  Cardinality(DevicesOf(a)') = Cardinality(SpentOf(a)')
    BY DEF OneDevicePerToken
<1>0. Cardinality(DevicesOf(a)) = Cardinality(SpentOf(a))
    BY DEF OneDevicePerToken
<1>1. CASE Quiet
  <2>1. DevicesOf(a)' = DevicesOf(a) /\ SpentOf(a)' = SpentOf(a)
    BY <1>1 DEF Quiet, DevicesOf, SpentOf
  <2> QED
    BY <1>0, <2>1
<1>2. ASSUME NEW r \in Request, NEW i \in Invitation, NEW d \in Device,
             NEW push \in Offered, Register(r, i, d, push)
      PROVE  Cardinality(DevicesOf(a)') = Cardinality(SpentOf(a)')
  <2>1. CASE inv[i].account = a
    <3>1. /\ DevicesOf(a)' = DevicesOf(a) \cup {d} /\ d \notin DevicesOf(a)
          /\ SpentOf(a)' = SpentOf(a) \cup {i} /\ i \notin SpentOf(a)
        BY <1>2, <2>1, RegisterEffect, NoneAssumption DEF DevicesOf, SpentOf
    <3>2. IsFiniteSet(DevicesOf(a)) /\ IsFiniteSet(SpentOf(a))
        BY FiniteTables
    <3>3. Cardinality(DevicesOf(a) \cup {d}) = Cardinality(DevicesOf(a)) + 1
        BY <3>1, <3>2, FS_AddElement
    <3>4. Cardinality(SpentOf(a) \cup {i}) = Cardinality(SpentOf(a)) + 1
        BY <3>1, <3>2, FS_AddElement
    <3> QED
        BY <1>0, <3>1, <3>3, <3>4
  <2>2. CASE inv[i].account # a
    <3>1. DevicesOf(a)' = DevicesOf(a) /\ SpentOf(a)' = SpentOf(a)
        BY <1>2, <2>2, RegisterEffect, NoneAssumption DEF DevicesOf, SpentOf
    <3> QED
        BY <1>0, <3>1
  <2> QED
    BY <2>1, <2>2
<1>3. ASSUME NEW i \in Invitation,
             (\E r \in Request : CreateInvitation(r, i)) \/ CliCreateInvitation(i)
      PROVE  Cardinality(DevicesOf(a)') = Cardinality(SpentOf(a)')
  <2>1. DevicesOf(a)' = DevicesOf(a)
    BY <1>3, MintEffect DEF DevicesOf
  <2>2. SpentOf(a)' = SpentOf(a)
    BY <1>3, MintEffect, NoneAssumption DEF SpentOf
  <2> QED
    BY <1>0, <2>1, <2>2
<1>4. ASSUME NEW r \in Request, RevokeInvitation(r)
      PROVE  Cardinality(DevicesOf(a)') = Cardinality(SpentOf(a)')
  <2>1. DevicesOf(a)' = DevicesOf(a) /\ SpentOf(a)' = SpentOf(a)
    BY <1>4, RevokeInvitationEffect DEF DevicesOf, SpentOf
  <2> QED
    BY <1>0, <2>1
<1>5. ASSUME inv' = inv, \A d \in Device : dev'[d].account = dev[d].account
      PROVE  Cardinality(DevicesOf(a)') = Cardinality(SpentOf(a)')
  <2>1. DevicesOf(a)' = DevicesOf(a) /\ SpentOf(a)' = SpentOf(a)
    BY <1>5 DEF DevicesOf, SpentOf
  <2> QED
    BY <1>0, <2>1
<1>6. ASSUME NEW r \in Request, SetDeviceRole(r) \/ RevokeDevice(r)
      PROVE  inv' = inv /\ \A d \in Device : dev'[d].account = dev[d].account
    BY <1>6, SetDeviceRoleEffect, RevokeDeviceEffect
<1>7. CliPromoteWrite => inv' = inv /\ \A d \in Device : dev'[d].account = dev[d].account
    BY PromoteEffect
<1>8. (\E b \in Account, m \in {"flat", "managed"} : CliCreateAccount(b, m))
        => inv' = inv /\ dev' = dev
    BY DEF CliCreateAccount
<1>9. Quiet \/ Loud
    BY QuietOrLoud
<1> QED
    BY <1>1, <1>2, <1>3, <1>4, <1>5, <1>6, <1>7, <1>8, <1>9 DEF Loud

(* Every enrolled device used up a token of its own, in every instance     *)
(* with finitely many ids.                                                 *)
THEOREM TokensAreSingleUse == Spec => []OneDevicePerToken
<1>1. Init => OneDevicePerToken
  <2> SUFFICES ASSUME Init, NEW a \in Account
               PROVE  Cardinality(DevicesOf(a)) = Cardinality(SpentOf(a))
    BY DEF OneDevicePerToken
  <2>1. DevicesOf(a) = {} /\ SpentOf(a) = {}
    BY NoneAssumption DEF Init, DevicesOf, SpentOf, NoDevice, NoInvitation
  <2> QED
    BY <2>1
<1>2. IndInv /\ OneDevicePerToken /\ [Next]_vars => OneDevicePerToken'
    BY TokenStep
<1> QED
    BY <1>1, <1>2, IndInvHolds, PTL DEF Spec

-----------------------------------------------------------------------------
(* Admins *)

(* A step after which every live device of a is as it was keeps a's admin. *)
LEMMA SetsKept ==
    ASSUME NEW a,
           \A d \in Device : /\ dev'[d].account = dev[d].account
                             /\ dev'[d].role    = dev[d].role
                             /\ dev'[d].revoked = dev[d].revoked
    PROVE  /\ DevicesOf(a)' = DevicesOf(a)
           /\ LiveDevicesOf(a)' = LiveDevicesOf(a)
           /\ LiveAdminsOf(a)' = LiveAdminsOf(a)
BY DEF DevicesOf, LiveDevicesOf, LiveAdminsOf

(* Minting, revoking an invitation and creating an account leave the       *)
(* devices alone.                                                          *)
LEMMA LoudOnDevices ==
    ASSUME IndInv, [Next]_vars
    PROVE  \/ \A d \in Device : /\ dev'[d].account = dev[d].account
                                /\ dev'[d].role    = dev[d].role
                                /\ dev'[d].revoked = dev[d].revoked
           \/ \E r \in Request, i \in Invitation, d \in Device, push \in Offered :
                  Register(r, i, d, push)
           \/ \E r \in Request : SetDeviceRole(r) \/ RevokeDevice(r)
           \/ CliPromoteWrite
<1>1. Quiet \/ Loud
    BY QuietOrLoud
<1>2. ASSUME NEW i \in Invitation,
             (\E r \in Request : CreateInvitation(r, i)) \/ CliCreateInvitation(i)
      PROVE  dev' = dev
    BY <1>2, MintEffect
<1>3. (\E r \in Request : RevokeInvitation(r)) => dev' = dev
    BY RevokeInvitationEffect
<1>4. (\E a \in Account, m \in {"flat", "managed"} : CliCreateAccount(a, m)) => dev' = dev
    BY DEF CliCreateAccount
<1>5. CASE Quiet
    BY <1>5 DEF Quiet
<1>6. CASE Loud
    BY <1>2, <1>3, <1>4, <1>6 DEF Loud
<1> QED
    BY <1>1, <1>5, <1>6

(* A registration adds a device to one account and touches no other. *)
LEMMA RegisterSets ==
    ASSUME IndInv, NEW r \in Request, NEW i \in Invitation, NEW d \in Device,
           NEW push \in Offered, Register(r, i, d, push), NEW a \in Account
    PROVE  /\ LiveAdminsOf(a) \subseteq LiveAdminsOf(a)'
           /\ inv[i].account # a => DevicesOf(a)' = DevicesOf(a)
                                    /\ LiveDevicesOf(a)' = LiveDevicesOf(a)
           /\ inv[i].account = a =>
                 /\ DevicesOf(a)' = DevicesOf(a) \cup {d}
                 /\ LiveDevicesOf(a)' = LiveDevicesOf(a) \cup {d}
                 /\ d \notin DevicesOf(a)
                 /\ DevicesOf(a) = {} => d \in LiveAdminsOf(a)'
<1>1. \A e \in Device : e # d => dev'[e] = dev[e]
    BY RegisterEffect
<1>2. /\ dev[d].account = None /\ dev'[d].account = inv[i].account
      /\ dev'[d].revoked = 0 /\ dev'[d].role = RegisteredRole(i)
    BY RegisterEffect
<1>3. d \notin DevicesOf(a)
    BY <1>2, NoneAssumption DEF DevicesOf
<1>4. LiveAdminsOf(a) \subseteq LiveAdminsOf(a)'
    BY <1>1, <1>3 DEF DevicesOf, LiveDevicesOf, LiveAdminsOf
<1>5. inv[i].account # a => DevicesOf(a)' = DevicesOf(a)
                            /\ LiveDevicesOf(a)' = LiveDevicesOf(a)
    BY <1>1, <1>2, <1>3 DEF DevicesOf, LiveDevicesOf
<1>6. inv[i].account = a => DevicesOf(a)' = DevicesOf(a) \cup {d}
                            /\ LiveDevicesOf(a)' = LiveDevicesOf(a) \cup {d}
    BY <1>1, <1>2, <1>3 DEF DevicesOf, LiveDevicesOf
<1>7. inv[i].account = a /\ DevicesOf(a) = {} => d \in LiveAdminsOf(a)'
    BY <1>2 DEF RegisteredRole, DevicesOf, LiveDevicesOf, LiveAdminsOf
<1> QED
    BY <1>3, <1>4, <1>5, <1>6, <1>7

(* A role change keeps every device where it is, and leaves an admin in    *)
(* every account that had one.                                             *)
LEMMA SetDeviceRoleSets ==
    ASSUME IndInv, NEW r \in Request, SetDeviceRole(r), NEW a \in Account
    PROVE  /\ DevicesOf(a)' = DevicesOf(a)
           /\ LiveDevicesOf(a)' = LiveDevicesOf(a)
           /\ LiveAdminsOf(a) # {} => LiveAdminsOf(a)' # {}
<1> DEFINE d == calls[r].target
<1>1. /\ d \in Device /\ dev[d].revoked = 0
      /\ dev'[d].account = dev[d].account /\ dev'[d].revoked = 0
      /\ dev'[d].role = calls[r].want /\ calls[r].want \in {"admin", "member"}
      /\ \A e \in Device : e # d => dev'[e] = dev[e]
      /\ dev[d].role = "admin" /\ calls[r].want = "member" => NotLastAdmin(d, FALSE)
    BY SetDeviceRoleEffect
<1> HIDE DEF d
<1>2. DevicesOf(a)' = DevicesOf(a) /\ LiveDevicesOf(a)' = LiveDevicesOf(a)
    BY <1>1 DEF DevicesOf, LiveDevicesOf
<1>3. ASSUME NEW e \in LiveAdminsOf(a)
      PROVE  LiveAdminsOf(a)' # {}
  <2>1. CASE e # d
    BY <1>1, <2>1 DEF DevicesOf, LiveDevicesOf, LiveAdminsOf
  <2>2. CASE e = d /\ calls[r].want = "admin"
    BY <1>1, <2>2 DEF DevicesOf, LiveDevicesOf, LiveAdminsOf
  <2>3. CASE e = d /\ calls[r].want = "member"
    <3>1. dev[d].account = a /\ dev[d].role = "admin"
        BY <2>3 DEF DevicesOf, LiveDevicesOf, LiveAdminsOf
    <3>2. PICK f \in LiveAdminsOf(a) : f # d
        BY <1>1, <2>3, <3>1 DEF NotLastAdmin
    <3> QED
        BY <1>1, <3>2 DEF DevicesOf, LiveDevicesOf, LiveAdminsOf
  <2> QED
    BY <1>1, <2>1, <2>2, <2>3
<1> QED
    BY <1>2, <1>3

(* A promotion takes no device and no admin away. *)
LEMMA PromoteSets ==
    ASSUME IndInv, CliPromoteWrite, NEW a \in Account
    PROVE  /\ DevicesOf(a)' = DevicesOf(a)
           /\ LiveDevicesOf(a)' = LiveDevicesOf(a)
           /\ LiveAdminsOf(a) \subseteq LiveAdminsOf(a)'
<1>1. \A e \in Device : /\ dev'[e].account = dev[e].account
                        /\ dev'[e].revoked = dev[e].revoked
                        /\ dev'[e].role \in {dev[e].role, "admin"}
    BY PromoteEffect
<1> QED
    BY <1>1 DEF DevicesOf, LiveDevicesOf, LiveAdminsOf

(* Every step keeps an admin in an account without revocations. *)
LEMMA AdminUntilRevocationStep ==
    ASSUME IndInv, AdminUntilRevocation, [Next]_vars
    PROVE  AdminUntilRevocation'
<1> SUFFICES ASSUME NEW a \in Account,
                    DevicesOf(a)' # {}, DevicesOf(a)' = LiveDevicesOf(a)'
             PROVE  LiveAdminsOf(a)' # {}
    BY DEF AdminUntilRevocation
<1>0. DevicesOf(a) # {} /\ DevicesOf(a) = LiveDevicesOf(a) => LiveAdminsOf(a) # {}
    BY DEF AdminUntilRevocation
<1>1. CASE \A d \in Device : /\ dev'[d].account = dev[d].account
                             /\ dev'[d].role    = dev[d].role
                             /\ dev'[d].revoked = dev[d].revoked
  <2>1. /\ DevicesOf(a)' = DevicesOf(a)
        /\ LiveDevicesOf(a)' = LiveDevicesOf(a)
        /\ LiveAdminsOf(a)' = LiveAdminsOf(a)
    BY <1>1, SetsKept
  <2> QED
    BY <1>0, <2>1
<1>2. ASSUME NEW r \in Request, NEW i \in Invitation, NEW d \in Device,
             NEW push \in Offered, Register(r, i, d, push)
      PROVE  LiveAdminsOf(a)' # {}
  <2>1. LiveDevicesOf(a) \subseteq DevicesOf(a)
    BY DEF LiveDevicesOf
  <2>2. /\ LiveAdminsOf(a) \subseteq LiveAdminsOf(a)'
        /\ inv[i].account # a => DevicesOf(a)' = DevicesOf(a)
                                 /\ LiveDevicesOf(a)' = LiveDevicesOf(a)
        /\ inv[i].account = a =>
              /\ DevicesOf(a)' = DevicesOf(a) \cup {d}
              /\ LiveDevicesOf(a)' = LiveDevicesOf(a) \cup {d}
              /\ d \notin DevicesOf(a)
              /\ DevicesOf(a) = {} => d \in LiveAdminsOf(a)'
    BY <1>2, RegisterSets
  <2>3. CASE inv[i].account # a
    BY <1>0, <2>2, <2>3
  <2>4. CASE inv[i].account = a
    <3>1. DevicesOf(a) = LiveDevicesOf(a)
        BY <2>1, <2>2, <2>4
    <3> QED
        BY <1>0, <2>2, <2>4, <3>1
  <2> QED
    BY <2>3, <2>4
<1>3. ASSUME NEW r \in Request, SetDeviceRole(r)
      PROVE  LiveAdminsOf(a)' # {}
    BY <1>0, <1>3, SetDeviceRoleSets
<1>4. ASSUME NEW r \in Request, RevokeDevice(r)
      PROVE  LiveAdminsOf(a)' # {}
  <2> DEFINE d == calls[r].target
  <2>1. /\ d \in Device /\ dev'[d].revoked = 1 /\ dev'[d].account = dev[d].account
        /\ \A e \in Device : e # d => dev'[e] = dev[e]
    BY <1>4, RevokeDeviceEffect
  <2> HIDE DEF d
  <2>2. dev[d].account # a
    BY <2>1 DEF DevicesOf, LiveDevicesOf
  <2>3. /\ DevicesOf(a)' = DevicesOf(a)
        /\ LiveDevicesOf(a)' = LiveDevicesOf(a)
        /\ LiveAdminsOf(a)' = LiveAdminsOf(a)
    BY <2>1, <2>2 DEF DevicesOf, LiveDevicesOf, LiveAdminsOf
  <2> QED
    BY <1>0, <2>3
<1>5. CASE CliPromoteWrite
    BY <1>0, <1>5, PromoteSets
<1> QED
    BY <1>1, <1>2, <1>3, <1>4, <1>5, LoudOnDevices

(* In every instance, an account none of whose devices has been revoked    *)
(* has an admin: the first device is one, and only a demotion could remove *)
(* the last, which assertNotLastAdmin refuses.                             *)
THEOREM AdminUntilRevoked == Spec => []AdminUntilRevocation
<1>1. Init => AdminUntilRevocation
  <2> SUFFICES ASSUME Init, NEW a \in Account PROVE DevicesOf(a) = {}
    BY DEF AdminUntilRevocation
  <2> QED
    BY NoneAssumption DEF Init, DevicesOf, NoDevice
<1>2. IndInv /\ AdminUntilRevocation /\ [Next]_vars => AdminUntilRevocation'
    BY AdminUntilRevocationStep
<1> QED
    BY <1>1, <1>2, IndInvHolds, PTL DEF Spec

(* Every step obeys the last-admin rule. *)
LEMMA LastAdminAction ==
    ASSUME IndInv, [Next]_vars
    PROVE  LastAdminStep
<1> SUFFICES ASSUME NEW a \in Account, LiveAdminsOf(a) # {},
                    LiveAdminsOf(a)' = {}, LiveDevicesOf(a)' # {}
             PROVE  \E d \in LiveAdminsOf(a) : SelfRevocation(d)
    BY DEF LastAdminStep
<1>1. CASE \A d \in Device : /\ dev'[d].account = dev[d].account
                             /\ dev'[d].role    = dev[d].role
                             /\ dev'[d].revoked = dev[d].revoked
    BY <1>1, SetsKept
<1>2. ASSUME NEW r \in Request, NEW i \in Invitation, NEW d \in Device,
             NEW push \in Offered, Register(r, i, d, push)
      PROVE  FALSE
  <2>1. LiveAdminsOf(a) \subseteq LiveAdminsOf(a)'
    BY <1>2, RegisterSets
  <2> QED
    BY <2>1
<1>3. ASSUME NEW r \in Request, SetDeviceRole(r)
      PROVE  FALSE
    BY <1>3, SetDeviceRoleSets
<1>4. CASE CliPromoteWrite
    BY <1>4, PromoteSets
<1>5. ASSUME NEW r \in Request, RevokeDevice(r)
      PROVE  \E d \in LiveAdminsOf(a) : SelfRevocation(d)
  <2> DEFINE d == calls[r].target
  <2>1. /\ d \in Device /\ dev'[d].revoked = 1 /\ dev'[d].account = dev[d].account
        /\ \A e \in Device : e # d => dev'[e] = dev[e]
    BY <1>5, RevokeDeviceEffect
  <2>2. LiveAdminsOf(a) \subseteq {d}
    BY <2>1 DEF DevicesOf, LiveDevicesOf, LiveAdminsOf
  <2>3. d \in LiveAdminsOf(a)
    BY <2>2
  <2>4. dev[d].account = a /\ dev[d].revoked = 0 /\ dev[d].role = "admin"
    BY <2>3 DEF DevicesOf, LiveDevicesOf, LiveAdminsOf
  <2>5. LiveDevicesOf(a) \ {d} # {}
    BY <2>1 DEF DevicesOf, LiveDevicesOf
  <2>6. ~NotLastAdmin(d, TRUE)
    BY <2>2, <2>4, <2>5 DEF NotLastAdmin
  <2>7. d = calls[r].caller
    BY <1>5, <2>4, <2>6, RevokeDeviceEffect DEF RevocationAllowed
  <2>8. At(r, "targetRead", "revoke") /\ calls'[r].pc = "wake"
    BY <1>5 DEF RevokeDevice, Announce, At, IndInv, TypeOK, Call
  <2>9. SelfRevocation(d)
    BY <2>7, <2>8 DEF SelfRevocation
  <2> QED
    BY <2>3, <2>9
<1> QED
    BY <1>1, <1>2, <1>3, <1>4, <1>5, LoudOnDevices

(* In every instance, an account that keeps live devices loses its last    *)
(* admin only to that admin's own revocation of itself.  The checks are    *)
(* made in the transaction that writes, so no interleaving gets between.   *)
THEOREM LastAdminIsKept == Spec => LastAdminKept
<1>1. IndInv /\ [Next]_vars => [LastAdminStep]_vars
    BY LastAdminAction
<1> QED
    BY <1>1, IndInvHolds, PTL DEF Spec, LastAdminKept

-----------------------------------------------------------------------------
(* Revocation *)

(* A call that authenticates is that of a live device, a promotion is      *)
(* checked for one, and no other step starts acting for a device.          *)
LEMMA NobodyNewForRevoked ==
    ASSUME IndInv, [Next]_vars, NEW d \in Device, Settled(d)
    PROVE  /\ \A r \in Request : calls'[r].caller = d => calls'[r].pc \in {"idle", "wake"}
           /\ ~(cli'.pc = "promoting" /\ cli'.device = d)
<1>0. /\ dev[d].revoked = 1
      /\ \A r \in Request : calls[r].caller = d => calls[r].pc \in {"idle", "wake"}
      /\ ~(cli.pc = "promoting" /\ cli.device = d)
    BY DEF Settled
<1>1. calls \in [Request -> Call] /\ cli \in Cli
    BY DEF IndInv, TypeOK
<1>2. ASSUME NEW x \in Request, CallNext(x) \/ RevokeDevice(x)
      PROVE  /\ cli' = cli
             /\ \A r \in Request : r # x => calls'[r] = calls[r]
             /\ calls'[x].caller = d => calls'[x].pc \in {"idle", "wake"}
  <2>1. CASE \E e \in Device, q \in SignedRequest : Authenticate(x, e, q)
    <3>1. PICK e \in Device, q \in SignedRequest : Authenticate(x, e, q)
        BY <2>1
    <3>2. /\ cli' = cli /\ dev[e].revoked = 0
          /\ \A r \in Request : r # x => calls'[r] = calls[r]
          /\ calls'[x].caller = e
        BY <1>1, <3>1 DEF Authenticate, Live
    <3> QED
        BY <1>0, <3>2
  <2>2. CASE ReadTarget(x)
    <3>1. /\ calls[x].pc = "authenticated"
          /\ calls' = [calls EXCEPT ![x].pc = "targetRead",
                                    ![x].endpoint = dev[calls[x].target].push]
          /\ cli' = cli
        BY <2>2 DEF ReadTarget, At
    <3>2. calls'[x].caller = calls[x].caller
        BY <1>1, <3>1 DEF Call
    <3> QED
        BY <1>0, <1>1, <3>1, <3>2
  <2>3. CASE \E i \in Invitation, e \in Device, push \in Offered : Register(x, i, e, push)
    BY <1>1, <2>3 DEF Register, Idle
  <2>4. CASE (\E i \in Invitation : CreateInvitation(x, i)) \/ SetDeviceRole(x)
             \/ RevokeDevice(x)
    <3>1. Announce(x) /\ cli' = cli
        BY <2>4 DEF CreateInvitation, SetDeviceRole, RevokeDevice
    <3> QED
        BY <1>1, <3>1 DEF Announce, Call
  <2>5. CASE \/ RevokeInvitation(x) \/ UpdatePush(x) \/ SetBundle(x) \/ Refuse(x)
             \/ Abort(x) \/ WakeAccount(x) \/ WakeFails(x)
    <3>1. Reply(x) /\ cli' = cli
        BY <2>5 DEF RevokeInvitation, UpdatePush, SetBundle, Refuse, Abort,
                    WakeAccount, WakeFails
    <3> QED
        BY <1>1, <3>1 DEF Reply, Idle
  <2> QED
    BY <1>2, <2>1, <2>2, <2>3, <2>4, <2>5 DEF CallNext
<1>3. ASSUME CliNext
      PROVE  calls' = calls /\ ~(cli'.pc = "promoting" /\ cli'.device = d)
  <2>1. CASE \E e \in Device : CliPromoteCheck(e)
    BY <1>0, <1>1, <2>1 DEF CliPromoteCheck, Cli, Live
  <2>2. CASE \/ \E a \in Account, m \in {"flat", "managed"} : CliCreateAccount(a, m)
             \/ CliPromoteWrite
    BY <1>1, <2>2 DEF CliCreateAccount, CliPromoteWrite, Cli
  <2>3. CASE (\E i \in Invitation : CliCreateInvitation(i)) \/ CliPing \/ CliDies
    BY <2>3 DEF CliCreateInvitation, CliPing, CliDies, CliIdle
  <2> QED
    BY <1>3, <2>1, <2>2, <2>3 DEF CliNext
<1>4. ASSUME \/ \E i \in Invitation : Expire(i)
             \/ \E e \in Device : PingEnds(e)
             \/ UNCHANGED vars
      PROVE  calls' = calls /\ cli' = cli
    BY <1>4 DEF Expire, PingEnds, vars
<1>5. ASSUME Crash
      PROVE  cli' = cli /\ \A r \in Request : calls'[r].pc = "idle"
    BY <1>5 DEF Crash, Idle
<1> QED
    BY <1>0, <1>2, <1>3, <1>4, <1>5 DEF Next, AdminNext

(* Only a registered device is ever revoked. *)
RevokedRegistered == \A d \in Device : dev[d].revoked = 1 => Registered(d)

(* Every step keeps it so. *)
LEMMA RevokedRegisteredStep ==
    ASSUME IndInv, RevokedRegistered, [Next]_vars
    PROVE  RevokedRegistered'
<1> USE DEF RevokedRegistered, Registered
<1>1. CASE \A d \in Device : /\ dev'[d].account = dev[d].account
                             /\ dev'[d].role    = dev[d].role
                             /\ dev'[d].revoked = dev[d].revoked
    BY <1>1
<1>2. ASSUME NEW r \in Request, NEW i \in Invitation, NEW d \in Device,
             NEW push \in Offered, Register(r, i, d, push)
      PROVE  RevokedRegistered'
    BY <1>2, RegisterEffect, NoneAssumption
<1>3. ASSUME NEW r \in Request, SetDeviceRole(r)
      PROVE  RevokedRegistered'
  <2>1. /\ dev'[calls[r].target].revoked = 0
        /\ \A d \in Device : d # calls[r].target => dev'[d] = dev[d]
    BY <1>3, SetDeviceRoleEffect
  <2>2. ASSUME NEW d \in Device, dev'[d].revoked = 1
        PROVE  d # calls[r].target
    BY <2>1, <2>2
  <2> QED
    BY <2>1, <2>2
<1>4. ASSUME NEW r \in Request, RevokeDevice(r)
      PROVE  RevokedRegistered'
  <2>1. \A d \in Device : dev'[d] = dev[d] \/ dev'[d].account \in Account
    BY <1>4, RevokeDeviceEffect
  <2> QED
    BY <2>1, NoneAssumption
<1>5. CASE CliPromoteWrite
    BY <1>5, PromoteEffect
<1> QED
    BY <1>1, <1>2, <1>3, <1>4, <1>5, LoudOnDevices

(* No step writes the row of a device whose revocation has settled. *)
LEMMA SettledRowKept ==
    ASSUME IndInv, RevokedRegistered, [Next]_vars, NEW d \in Device, Settled(d)
    PROVE  /\ dev'[d].revoked = 1 /\ dev'[d].push = "" /\ dev'[d].bundle = ""
           /\ dev'[d].role = dev[d].role
<1>0. /\ dev[d].revoked = 1 /\ dev[d].push = "" /\ dev[d].bundle = ""
      /\ \A r \in Request : calls[r].caller = d => calls[r].pc \in {"idle", "wake"}
      /\ ~(cli.pc = "promoting" /\ cli.device = d)
      /\ dev[d].account # None
    BY DEF Settled, RevokedRegistered, Registered
<1>1. dev \in [Device -> DeviceRow]
    BY DEF IndInv, TypeOK
<1>2. CASE dev' = dev
    BY <1>0, <1>2
<1>3. ASSUME NEW x \in Request, CallNext(x), dev' # dev
      PROVE  dev'[d] = dev[d]
  <2>1. CASE \E i \in Invitation, e \in Device, push \in Offered : Register(x, i, e, push)
    BY <1>0, <1>1, <2>1 DEF Register, Registered
  <2>2. CASE SetDeviceRole(x)
    <3>1. /\ dev[calls[x].target].revoked = 0
          /\ \A e \in Device : e # calls[x].target => dev'[e] = dev[e]
        BY <2>2, SetDeviceRoleEffect
    <3>2. dev[d].revoked = 1
        BY <1>0
    <3>3. d # calls[x].target
        BY <3>1, <3>2
    <3> QED
        BY <3>1, <3>3
  <2>3. CASE UpdatePush(x) \/ SetBundle(x)
    <3>1. calls[x].caller # d
        BY <1>0, <2>3 DEF UpdatePush, SetBundle, At
    <3> QED
        BY <1>1, <2>3, <3>1 DEF UpdatePush, SetBundle
  <2> QED
    BY <1>3, <2>1, <2>2, <2>3 DEF CallNext, Authenticate, CreateInvitation,
       RevokeInvitation, ReadTarget, Refuse, Abort, WakeAccount, WakeFails
<1>4. ASSUME NEW x \in Request, RevokeDevice(x)
      PROVE  /\ dev'[d].revoked = 1 /\ dev'[d].push = "" /\ dev'[d].bundle = ""
             /\ dev'[d].role = dev[d].role
  <2>1. dev' = [dev EXCEPT ![calls[x].target].revoked = 1,
                           ![calls[x].target].push = "",
                           ![calls[x].target].bundle = ""]
    BY <1>4 DEF RevokeDevice
  <2>2. CASE calls[x].target # d
    BY <1>0, <1>1, <2>1, <2>2
  <2>3. CASE calls[x].target = d
    BY <1>1, <2>1, <2>3 DEF DeviceRow
  <2> QED
    BY <2>2, <2>3
<1>5. ASSUME CliNext, dev' # dev
      PROVE  dev'[d] = dev[d]
  <2>1. CliPromoteWrite
    BY <1>5 DEF CliNext, CliCreateAccount, CliCreateInvitation, CliPromoteCheck,
       CliPing, CliDies
  <2> QED
    BY <1>0, <1>1, <2>1 DEF CliPromoteWrite
<1>6. ASSUME \/ \E i \in Invitation : Expire(i)
             \/ \E e \in Device : PingEnds(e)
             \/ UNCHANGED vars \/ Crash
      PROVE  dev' = dev
    BY <1>6 DEF Expire, PingEnds, vars, Crash
<1> QED
    BY <1>0, <1>2, <1>3, <1>4, <1>5, <1>6 DEF Next, AdminNext

(* In every instance, once the calls and the promotion that were under way *)
(* for a revoked device have ended, its row never changes again and no     *)
(* call of it authenticates: requireSignature and GetDevice look at the    *)
(* revoked flag, and so do the writes on behalf of others.                 *)
THEOREM RevocationIsFinal == Spec => RevocationSettles
<1>1. Init => RevokedRegistered
  <2>1. NoDevice.revoked = 0
    BY DEF NoDevice
  <2> QED
    BY <2>1 DEF Init, RevokedRegistered
<1>2. IndInv /\ RevokedRegistered /\ [Next]_vars => RevokedRegistered'
    BY RevokedRegisteredStep
<1>3. IndInv /\ RevokedRegistered /\ [Next]_vars => [SettledStep]_vars
  <2> SUFFICES ASSUME IndInv, RevokedRegistered, [Next]_vars, NEW d \in Device, Settled(d)
               PROVE  Settled(d)' /\ dev'[d].role = dev[d].role
    BY DEF SettledStep
  <2> QED
    BY SettledRowKept, NobodyNewForRevoked DEF Settled
<1> QED
    BY <1>1, <1>2, <1>3, IndInvHolds, PTL DEF Spec, RevocationSettles

-----------------------------------------------------------------------------
(* Tenants *)

(* A call moves by its own steps only. *)
LEMMA OwnSlotOnly ==
    ASSUME IndInv, NEW r \in Request, NEW x \in Request, x # r,
           CallNext(x) \/ RevokeDevice(x)
    PROVE  calls'[r] = calls[r]
<1>1. calls \in [Request -> Call]
    BY DEF IndInv, TypeOK
<1>3. Reply(x) \/ Announce(x) => calls'[r] = calls[r]
    BY <1>1 DEF Reply, Announce
<1> QED
    BY <1>1, <1>3 DEF CallNext, RevokeDevice, Register, Authenticate, CreateInvitation,
       RevokeInvitation, SetDeviceRole, ReadTarget, UpdatePush, SetBundle, Refuse, Abort,
       WakeAccount, WakeFails

(* What a step of a call that is under way touches is in its caller's      *)
(* account.                                                                *)
LEMMA OwnAccountOnly ==
    ASSUME IndInv, NEW r \in Request, calls[r].pc # "idle",
           CallNext(r) \/ RevokeDevice(r)
    PROVE  TouchedAccounts \subseteq {AccountOf(r)}
<1>0. dev \in [Device -> DeviceRow] /\ inv \in [Invitation -> InvitationRow]
    BY DEF IndInv, TypeOK
<1>1. CASE UNCHANGED <<inv, dev>>
    BY <1>1 DEF TouchedAccounts
<1>2. ASSUME NEW i \in Invitation, CreateInvitation(r, i)
      PROVE  TouchedAccounts \subseteq {AccountOf(r)}
  <2>1. inv' = [inv EXCEPT ![i] = MintedRow(AccountOf(r), calls[r].want)] /\ dev' = dev
    BY <1>2 DEF CreateInvitation
  <2>2. MintedRow(AccountOf(r), calls[r].want).account = AccountOf(r)
    BY DEF MintedRow, NoInvitation
  <2> QED
    BY <1>0, <2>1, <2>2 DEF TouchedAccounts
<1>3. CASE RevokeInvitation(r)
  <2> DEFINE t == calls[r].target
  <2>1. /\ t \in Invitation /\ inv[t].account = AccountOf(r) /\ dev' = dev
        /\ inv' = [inv EXCEPT ![t].revoked = 1]
    BY <1>3 DEF RevokeInvitation, Revocable, At, IndInv, CallsOK, CallOK
  <2>2. inv'[t].account = AccountOf(r)
    BY <1>0, <2>1 DEF InvitationRow
  <2> QED
    BY <1>0, <2>1, <2>2 DEF TouchedAccounts
<1>4. CASE SetDeviceRole(r)
  <2>1. dev[calls[r].target].account = AccountOf(r)
    BY <1>4 DEF SetDeviceRole, RoleChangeAllowed
  <2> QED
    BY <1>4, <2>1, SetDeviceRoleEffect DEF TouchedAccounts
<1>5. CASE RevokeDevice(r)
  <2>1. dev[calls[r].target].account = AccountOf(r)
    BY <1>5 DEF RevokeDevice, At, IndInv, CallsOK, CallOK, AccountOf
  <2> QED
    BY <1>5, <2>1, RevokeDeviceEffect DEF TouchedAccounts
<1>6. CASE UpdatePush(r) \/ SetBundle(r)
    BY <1>0, <1>6 DEF UpdatePush, SetBundle, TouchedAccounts, AccountOf
<1> QED
    BY <1>1, <1>2, <1>3, <1>4, <1>5, <1>6 DEF CallNext, Register, Authenticate,
       ReadTarget, Refuse, Abort, WakeAccount, WakeFails

(* In every instance, a signed call changes rows of its caller's account   *)
(* only.  For handleRevoke this rests on a check made before the           *)
(* transaction: that the target is in the caller's account stays true      *)
(* because no device ever changes its account.                             *)
THEOREM TenantsAreIsolated == Spec => TenantIsolation
<1>1. IndInv /\ [Next]_vars => [TenantStep]_vars
  <2> SUFFICES ASSUME IndInv, [Next]_vars, NEW r \in Request,
                      calls[r].pc # "idle", calls'[r] # calls[r]
               PROVE  TouchedAccounts \subseteq {AccountOf(r)}
    BY DEF TenantStep
  <2>1. CASE Crash
    BY <2>1 DEF Crash, TouchedAccounts
  <2>2. CliNext => calls' = calls
    BY DEF CliNext, CliCreateAccount, CliCreateInvitation, CliPromoteCheck,
       CliPromoteWrite, CliPing, CliDies
  <2>3. ASSUME \/ \E i \in Invitation : Expire(i)
               \/ \E e \in Device : PingEnds(e)
               \/ UNCHANGED vars
        PROVE  calls' = calls
    BY <2>3 DEF Expire, PingEnds, vars
  <2>4. ASSUME NEW x \in Request, CallNext(x) \/ RevokeDevice(x)
        PROVE  TouchedAccounts \subseteq {AccountOf(r)}
    <3>1. x = r
        BY <2>4, OwnSlotOnly
    <3> QED
        BY <2>4, <3>1, OwnAccountOnly
  <2> QED
    BY <2>1, <2>2, <2>3, <2>4 DEF Next, AdminNext
<1> QED
    BY <1>1, IndInvHolds, PTL DEF Spec, TenantIsolation
=============================================================================
