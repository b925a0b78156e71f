------------------------ MODULE AdministrationProofs ------------------------
(* Proofs about Administration, for every value of its constants. *)
EXTENDS Administration, FiniteSetTheorems, TLAPS

(* What the code relies on between the steps of a call: who asked is a     *)
(* registered device, what it asked for fits the operation, and the target *)
(* that handleRevoke looked up is in the caller's account.                 *)
CallOK(r) ==
    LET c == calls[r] IN
    /\ c.pc # "idle" => c.caller \in Device /\ dev[c.caller].account \in Account
    /\ c.op \in {"revoke", "setRole"} => c.target \in Device
    /\ c.op = "uninvite" => c.target \in Invitation
    /\ c.pc = "authenticated" =>
          /\ c.op = "invite" => c.want \in {"", "admin", "member"}
          /\ c.op = "setRole" => c.want \in {"admin", "member"}
          /\ c.op = "setPush" => c.want \in {"", "url"}
          /\ c.op = "setBundle" => c.want = "blob"
    /\ c.pc = "targetRead" => c.op = "revoke"
                              /\ dev[c.target].account = dev[c.caller].account
CallsOK == \A r \in Request : CallOK(r)

CliOK ==
    /\ cli.pc = "founding" => cli.account \in Account /\ mode[cli.account] # "none"
    /\ cli.pc \in {"promoting", "pinging"} =>
          cli.device \in Device /\ dev[cli.device].account \in Account

(* A row refers to an account that has been provisioned. *)
RowsOK ==
    /\ \A d \in Device : dev[d].account \in Account => mode[dev[d].account] # "none"
    /\ \A i \in Invitation : inv[i].account \in Account => mode[inv[i].account] # "none"

IndInv == TypeOK /\ CallsOK /\ CliOK /\ RowsOK

(* The initial state is well typed. *)
LEMMA InitIndInv == Init => IndInv
<1> SUFFICES ASSUME Init PROVE IndInv
    OBVIOUS
<1> USE DEF Init
<1>1. TypeOK
  <2>1. NoInvitation \in InvitationRow
    BY DEF NoInvitation, InvitationRow, Role
  <2>2. NoDevice \in DeviceRow
    BY DEF NoDevice, DeviceRow, Role, Endpoint
  <2>3. Idle \in Call
    BY DEF Idle, Call, Role, Endpoint
  <2>4. CliIdle \in Cli
    BY DEF CliIdle, Cli
  <2>5. faults \in 0..MaxFaults
    BY FaultsAssumption
  <2>6. mode \in [Account -> {"none", "flat", "managed"}]
    OBVIOUS
  <2> QED
    BY <2>1, <2>2, <2>3, <2>4, <2>5, <2>6 DEF TypeOK
<1>2. CallsOK
    BY DEF CallsOK, CallOK, Idle
<1>3. CliOK
    BY DEF CliOK, CliIdle
<1>4. RowsOK
    BY NoneAssumption DEF RowsOK, NoDevice, NoInvitation
<1> QED
    BY <1>1, <1>2, <1>3, <1>4 DEF IndInv

(* No step moves a device to another account. *)
AccountsKept ==
    \A d \in Device : dev[d].account \in Account => dev'[d].account = dev[d].account

(* A call that is answered leaves the calls well formed.                   *)
LEMMA ReplyOK ==
    ASSUME IndInv, NEW r \in Request, Reply(r), AccountsKept
    PROVE  calls' \in [Request -> Call] /\ CallsOK'
<1>1. Idle \in Call
    BY DEF Idle, Call, Role, Endpoint
<1>2. calls' \in [Request -> Call]
    BY <1>1 DEF IndInv, TypeOK, Reply
<1>3. ASSUME NEW x \in Request PROVE CallOK(x)'
  <2>1. CASE x = r
    BY <2>1 DEF IndInv, TypeOK, Reply, CallOK, Idle
  <2>2. CASE x # r
    BY <2>2 DEF IndInv, TypeOK, Reply, CallsOK, CallOK, AccountsKept
  <2> QED
    BY <2>1, <2>2
<1> QED
    BY <1>2, <1>3 DEF CallsOK

(* A call that goes on to announce what it did leaves the calls well formed. *)
LEMMA AnnounceOK ==
    ASSUME IndInv, NEW r \in Request, calls[r].pc # "idle", Announce(r), AccountsKept
    PROVE  calls' \in [Request -> Call] /\ CallsOK'
<1>1. calls' \in [Request -> Call]
  <2>1. calls[r] \in Call
    BY DEF IndInv, TypeOK
  <2>2. [calls[r] EXCEPT !.pc = "wake", !.want = "", !.role = "member"] \in Call
    BY <2>1 DEF Call, Role
  <2>3. calls' = [calls EXCEPT ![r] =
                     [calls[r] EXCEPT !.pc = "wake", !.want = "", !.role = "member"]]
    BY <2>1 DEF Announce, IndInv, TypeOK, Call
  <2> QED
    BY <2>2, <2>3 DEF IndInv, TypeOK
<1>2. ASSUME NEW x \in Request PROVE CallOK(x)'
  <2>1. CASE x = r
    <3>1. /\ calls'[r].pc = "wake" /\ calls'[r].op = calls[r].op
          /\ calls'[r].caller = calls[r].caller /\ calls'[r].target = calls[r].target
        BY DEF IndInv, TypeOK, Announce, Call
    <3> QED
        BY <2>1, <3>1 DEF IndInv, CallsOK, CallOK, AccountsKept
  <2>2. CASE x # r
    BY <2>2 DEF IndInv, TypeOK, Announce, CallsOK, CallOK, AccountsKept
  <2> QED
    BY <2>1, <2>2
<1> QED
    BY <1>1, <1>2 DEF CallsOK

(* A crash of the server leaves every call idle and the tables alone. *)
LEMMA CrashOK ==
    ASSUME IndInv, Crash
    PROVE  IndInv'
<1>1. Idle \in Call
    BY DEF Idle, Call, Role, Endpoint
<1>2. TypeOK'
    BY <1>1, FaultsAssumption DEF IndInv, TypeOK, Crash
<1>3. CallsOK'
    BY DEF Crash, CallsOK, CallOK, Idle
<1>4. CliOK' /\ RowsOK'
    BY DEF IndInv, Crash, CliOK, RowsOK
<1> QED
    BY <1>2, <1>3, <1>4 DEF IndInv

(* requireSignature admits a registered device with a request that fits. *)
LEMMA AuthenticateOK ==
    ASSUME IndInv, NEW r \in Request, NEW d \in Device, NEW q \in SignedRequest,
           Authenticate(r, d, q)
    PROVE  IndInv'
<1> USE DEF IndInv
<1>1. TypeOK'
  <2>1. calls'[r] \in Call
    BY DEF Authenticate, TypeOK, Call, SignedRequest, SignedOp, Role, Endpoint, DeviceRow
  <2> QED
    BY <2>1 DEF Authenticate, TypeOK
<1>2. CallsOK'
  <2> SUFFICES ASSUME NEW x \in Request PROVE CallOK(x)'
    BY DEF CallsOK
  <2>1. CASE x = r
    <3>1. /\ calls'[r].pc = "authenticated" /\ calls'[r].op = q.op
          /\ calls'[r].caller = d /\ calls'[r].target = q.target
          /\ calls'[r].want = q.want
        BY DEF Authenticate, TypeOK
    <3>2. dev' = dev /\ dev[d].account \in Account
        BY DEF Authenticate, TypeOK, DeviceRow, Live, Registered
    <3>3. /\ q.op \in {"revoke", "setRole"} => q.target \in Device
          /\ q.op = "uninvite" => q.target \in Invitation
          /\ q.op = "invite" => q.want \in {"", "admin", "member"}
          /\ q.op = "setRole" => q.want \in {"admin", "member"}
          /\ q.op = "setPush" => q.want \in {"", "url"}
          /\ q.op = "setBundle" => q.want = "blob"
        BY DEF SignedRequest, Role, Endpoint
    <3> QED
        BY <2>1, <3>1, <3>2, <3>3 DEF CallOK
  <2>2. CASE x # r
    BY <2>2 DEF Authenticate, TypeOK, CallsOK, CallOK
  <2> QED
    BY <2>1, <2>2
<1>3. CliOK' /\ RowsOK'
    BY DEF Authenticate, CliOK, RowsOK
<1> QED
    BY <1>1, <1>2, <1>3

(* Enrolment *)

(* RegisterDevice writes a well-typed device into the account of its token. *)
LEMMA RegisterOK ==
    ASSUME IndInv, NEW r \in Request, NEW i \in Invitation, NEW d \in Device,
           NEW push \in Offered, Register(r, i, d, push)
    PROVE  IndInv'
<1> USE DEF IndInv
<1>1. inv[i].account \in Account /\ inv[i] \in InvitationRow
    BY DEF Register, Redeemable, Minted, TypeOK, InvitationRow
<1>2. RegisteredRole(i) \in Role
    BY <1>1 DEF RegisteredRole, InvitationRow, Role
<1>3. dev' \in [Device -> DeviceRow] /\ inv' \in [Invitation -> InvitationRow]
  <2>1. push \in Endpoint
    BY OpsAssumption
  <2>2. [account |-> inv[i].account, role |-> RegisteredRole(i),
         revoked |-> 0, push |-> push, bundle |-> ""] \in DeviceRow
    BY <1>1, <1>2, <2>1 DEF DeviceRow
  <2> QED
    BY <2>2 DEF Register, TypeOK, InvitationRow
<1>4. AccountsKept /\ dev'[d].account = inv[i].account
    BY NoneAssumption DEF Register, TypeOK, AccountsKept, Registered
<1>5. calls' \in [Request -> Call]
  <2>1. [Idle EXCEPT !.pc = "wake", !.op = "register", !.caller = d] \in Call
    BY DEF Idle, Call, Role, Endpoint
  <2> QED
    BY <2>1 DEF Register, TypeOK
<1>6. ASSUME NEW x \in Request PROVE CallOK(x)'
  <2>1. CASE x = r
    <3>1. calls'[r].pc = "wake" /\ calls'[r].op = "register" /\ calls'[r].caller = d
        BY DEF Register, TypeOK, Idle
    <3> QED
        BY <1>1, <1>4, <2>1, <3>1 DEF CallOK
  <2>2. CASE x # r
    <3>1. calls'[x] = calls[x]
        BY <2>2 DEF TypeOK, Register
    <3>2. CallOK(x)
        BY DEF CallsOK
    <3>3. calls[x].pc # "idle" => calls[x].caller \in Device
                                   /\ dev'[calls[x].caller].account \in Account
        BY <1>4, <3>2 DEF CallOK, AccountsKept
    <3>4. calls[x].pc = "targetRead" => calls[x].target \in Device
             /\ dev'[calls[x].target].account = dev'[calls[x].caller].account
        BY <1>4, <3>2 DEF CallOK, AccountsKept
    <3> QED
        BY <3>1, <3>2, <3>3, <3>4 DEF CallOK
  <2> QED
    BY <2>1, <2>2
<1>7. CliOK'
    BY <1>4 DEF Register, CliOK, AccountsKept
<1>8. RowsOK'
  <2>1. \A j \in Invitation : inv'[j].account = inv[j].account
    BY DEF Register, TypeOK, InvitationRow
  <2>2. \A e \in Device : e # d => dev'[e].account = dev[e].account
    BY DEF Register, TypeOK
  <2>3. mode' = mode
    BY DEF Register
  <2> QED
    BY <1>1, <1>4, <2>1, <2>2, <2>3 DEF RowsOK
<1> QED
    BY <1>3, <1>5, <1>6, <1>7, <1>8 DEF Register, TypeOK, CallsOK

(* A minted invitation always says admin or member. *)
LEMMA MintedRowOK ==
    ASSUME IndInv, NEW a \in Account, NEW want \in {"", "admin", "member"}
    PROVE  MintedRow(a, want) \in InvitationRow /\ MintedRow(a, want).account = a
BY DEF MintedRow, GrantsRole, NoInvitation, InvitationRow, Role

(* Expiry changes one flag of one invitation. *)
LEMMA ExpireOK ==
    ASSUME IndInv, NEW i \in Invitation, Expire(i)
    PROVE  IndInv'
<1> USE DEF IndInv
<1>1. TypeOK'
    BY DEF Expire, TypeOK, InvitationRow
<1>2. CallsOK' /\ CliOK'
    BY DEF Expire, CallsOK, CallOK, CliOK
<1>3. RowsOK'
  <2>1. \A j \in Invitation : inv'[j].account = inv[j].account
    BY DEF Expire, TypeOK, InvitationRow
  <2> QED
    BY <2>1 DEF Expire, RowsOK
<1> QED
    BY <1>1, <1>2, <1>3

(* The signed handlers *)

(* handleCreateInvitation mints into the account of its caller. *)
LEMMA CreateInvitationOK ==
    ASSUME IndInv, NEW r \in Request, NEW i \in Invitation, CreateInvitation(r, i)
    PROVE  IndInv'
<1> USE DEF IndInv
<1>1. AccountOf(r) \in Account /\ mode[AccountOf(r)] # "none"
    BY DEF CreateInvitation, At, CallsOK, CallOK, AccountOf, RowsOK
<1>2. calls[r].want \in {"", "admin", "member"}
    BY DEF CreateInvitation, At, CallsOK, CallOK
<1>3. /\ MintedRow(AccountOf(r), calls[r].want) \in InvitationRow
      /\ MintedRow(AccountOf(r), calls[r].want).account = AccountOf(r)
    BY <1>1, <1>2, MintedRowOK
<1>4. AccountsKept
    BY DEF CreateInvitation, AccountsKept
<1>5. calls' \in [Request -> Call] /\ CallsOK'
    BY <1>4, AnnounceOK DEF CreateInvitation, At
<1>6. TypeOK'
    BY <1>3, <1>5 DEF CreateInvitation, TypeOK
<1>7. CliOK'
    BY DEF CreateInvitation, CliOK
<1>8. RowsOK'
    BY <1>1, <1>3 DEF CreateInvitation, RowsOK, TypeOK
<1> QED
    BY <1>5, <1>6, <1>7, <1>8

(* handleRevokeInvitation changes one flag of one invitation. *)
LEMMA RevokeInvitationOK ==
    ASSUME IndInv, NEW r \in Request, RevokeInvitation(r)
    PROVE  IndInv'
<1> USE DEF IndInv
<1>1. AccountsKept
    BY DEF RevokeInvitation, AccountsKept
<1>2. calls' \in [Request -> Call] /\ CallsOK'
    BY <1>1, ReplyOK DEF RevokeInvitation
<1>3. TypeOK'
    BY <1>2 DEF RevokeInvitation, TypeOK, InvitationRow
<1>4. CliOK'
    BY DEF RevokeInvitation, CliOK
<1>5. RowsOK'
  <2>1. \A j \in Invitation : inv'[j].account = inv[j].account
    BY DEF RevokeInvitation, TypeOK, InvitationRow
  <2> QED
    BY <2>1 DEF RevokeInvitation, RowsOK
<1> QED
    BY <1>2, <1>3, <1>4, <1>5

(* A step that rewrites one device, keeping its account. *)
LEMMA DeviceWriteOK ==
    ASSUME IndInv, NEW d \in Device, NEW row \in DeviceRow,
           row.account = dev[d].account, dev' = [dev EXCEPT ![d] = row],
           UNCHANGED <<mode, inv>>
    PROVE  /\ dev' \in [Device -> DeviceRow]
           /\ \A e \in Device : dev'[e].account = dev[e].account
           /\ AccountsKept /\ RowsOK'
<1>1. dev' \in [Device -> DeviceRow]
    BY DEF IndInv, TypeOK
<1>2. \A e \in Device : dev'[e].account = dev[e].account
    BY DEF IndInv, TypeOK
<1> QED
    BY <1>1, <1>2 DEF AccountsKept, IndInv, RowsOK

(* handleSetRole writes a role that is admin or member. *)
LEMMA SetDeviceRoleOK ==
    ASSUME IndInv, NEW r \in Request, SetDeviceRole(r)
    PROVE  IndInv'
<1> DEFINE d == calls[r].target
           row == [dev[d] EXCEPT !.role = calls[r].want]
<1>1. d \in Device /\ calls[r].want \in Role
    BY DEF IndInv, SetDeviceRole, At, CallsOK, CallOK, Role
<1>2. row \in DeviceRow /\ row.account = dev[d].account
  <2>1. dev[d] \in DeviceRow
    BY <1>1 DEF IndInv, TypeOK
  <2> QED
    BY <1>1, <2>1 DEF DeviceRow
<1>3. dev' = [dev EXCEPT ![d] = row] /\ UNCHANGED <<mode, inv, cli, pings, faults>>
    BY <1>1 DEF IndInv, TypeOK, SetDeviceRole
<1> HIDE DEF row, d
<1>4. dev' \in [Device -> DeviceRow] /\ AccountsKept /\ RowsOK'
    BY <1>1, <1>2, <1>3, DeviceWriteOK
<1>5. calls' \in [Request -> Call] /\ CallsOK'
    BY <1>4, AnnounceOK DEF SetDeviceRole, At
<1>6. CliOK'
    BY <1>3, <1>4 DEF IndInv, CliOK, AccountsKept
<1> QED
    BY <1>3, <1>4, <1>5, <1>6 DEF IndInv, TypeOK

(* handleRevoke goes on with a target in the account of its caller. *)
LEMMA ReadTargetOK ==
    ASSUME IndInv, NEW r \in Request, ReadTarget(r)
    PROVE  IndInv'
<1> USE DEF IndInv
<1>1. calls[r].target \in Device
    BY DEF ReadTarget, At, CallsOK, CallOK
<1>2. calls' \in [Request -> Call]
  <2>1. calls[r] \in Call /\ dev[calls[r].target].push \in Endpoint
    BY <1>1 DEF TypeOK, DeviceRow
  <2>2. [calls[r] EXCEPT !.pc = "targetRead", !.endpoint = dev[calls[r].target].push] \in Call
    BY <2>1 DEF Call
  <2>3. calls' = [calls EXCEPT ![r] = [calls[r] EXCEPT !.pc = "targetRead",
                                     !.endpoint = dev[calls[r].target].push]]
    BY <2>1 DEF ReadTarget, TypeOK, Call
  <2> QED
    BY <2>2, <2>3 DEF TypeOK
<1>3. ASSUME NEW x \in Request PROVE CallOK(x)'
  <2>1. CASE x = r
    <3>1. /\ calls'[r].pc = "targetRead" /\ calls'[r].op = "revoke"
          /\ calls'[r].caller = calls[r].caller /\ calls'[r].target = calls[r].target
        BY DEF ReadTarget, At, TypeOK, Call
    <3> QED
        BY <2>1, <3>1 DEF ReadTarget, At, TargetAllowed, AccountOf, CallsOK, CallOK
  <2>2. CASE x # r
    BY <2>2 DEF ReadTarget, TypeOK, CallsOK, CallOK
  <2> QED
    BY <2>1, <2>2
<1>4. CliOK' /\ RowsOK'
    BY DEF ReadTarget, CliOK, RowsOK
<1> QED
    BY <1>2, <1>3, <1>4 DEF ReadTarget, TypeOK, CallsOK

(* The RevokeDevice transaction rewrites one device in its account. *)
LEMMA RevokeDeviceOK ==
    ASSUME IndInv, NEW r \in Request, RevokeDevice(r)
    PROVE  IndInv'
<1> DEFINE d == calls[r].target
           row == [dev[d] EXCEPT !.revoked = 1, !.push = "", !.bundle = ""]
<1>1. d \in Device
    BY DEF IndInv, RevokeDevice, At, CallsOK, CallOK
<1>2. row \in DeviceRow /\ row.account = dev[d].account
  <2>1. dev[d] \in DeviceRow
    BY <1>1 DEF IndInv, TypeOK
  <2>2. [dev[d] EXCEPT !.revoked = 1] \in DeviceRow
    BY <2>1 DEF DeviceRow
  <2>3. [dev[d] EXCEPT !.revoked = 1, !.push = ""] \in DeviceRow
    BY <2>1 DEF DeviceRow, Endpoint
  <2> QED
    BY <2>1, <2>3 DEF DeviceRow
<1>3. dev' = [dev EXCEPT ![d] = row] /\ UNCHANGED <<mode, inv, cli, pings, faults>>
    BY <1>1 DEF IndInv, TypeOK, DeviceRow, RevokeDevice
<1> HIDE DEF row, d
<1>4. dev' \in [Device -> DeviceRow] /\ AccountsKept /\ RowsOK'
    BY <1>1, <1>2, <1>3, DeviceWriteOK
<1>5. calls' \in [Request -> Call] /\ CallsOK'
    BY <1>4, AnnounceOK DEF RevokeDevice, At
<1>6. CliOK'
    BY <1>3, <1>4 DEF IndInv, CliOK, AccountsKept
<1> QED
    BY <1>3, <1>4, <1>5, <1>6 DEF IndInv, TypeOK

(* handleUpdatePush writes an endpoint into the caller's own row. *)
LEMMA UpdatePushOK ==
    ASSUME IndInv, NEW r \in Request, UpdatePush(r)
    PROVE  IndInv'
<1> DEFINE d == calls[r].caller
           row == [dev[d] EXCEPT !.push = calls[r].want]
<1>1. d \in Device /\ calls[r].want \in Endpoint
    BY DEF IndInv, UpdatePush, At, CallsOK, CallOK, Endpoint
<1>2. row \in DeviceRow /\ row.account = dev[d].account
  <2>1. dev[d] \in DeviceRow
    BY <1>1 DEF IndInv, TypeOK
  <2> QED
    BY <1>1, <2>1 DEF DeviceRow
<1>3. dev' = [dev EXCEPT ![d] = row] /\ UNCHANGED <<mode, inv, cli, pings, faults>>
    BY <1>1 DEF IndInv, TypeOK, UpdatePush
<1> HIDE DEF row, d
<1>4. dev' \in [Device -> DeviceRow] /\ AccountsKept /\ RowsOK'
    BY <1>1, <1>2, <1>3, DeviceWriteOK
<1>5. calls' \in [Request -> Call] /\ CallsOK'
    BY <1>4, ReplyOK DEF UpdatePush
<1>6. CliOK'
    BY <1>3, <1>4 DEF IndInv, CliOK, AccountsKept
<1> QED
    BY <1>3, <1>4, <1>5, <1>6 DEF IndInv, TypeOK

(* handleSetBundle writes a bundle for the caller itself. *)
LEMMA SetBundleOK ==
    ASSUME IndInv, NEW r \in Request, SetBundle(r)
    PROVE  IndInv'
<1> DEFINE d == calls[r].caller
           row == [dev[d] EXCEPT !.bundle = calls[r].want]
<1>1. d \in Device /\ calls[r].want \in {"", "blob"}
    BY DEF IndInv, SetBundle, At, CallsOK, CallOK
<1>2. row \in DeviceRow /\ row.account = dev[d].account
  <2>1. dev[d] \in DeviceRow
    BY <1>1 DEF IndInv, TypeOK
  <2> QED
    BY <1>1, <2>1 DEF DeviceRow
<1>3. dev' = [dev EXCEPT ![d] = row] /\ UNCHANGED <<mode, inv, cli, pings, faults>>
    BY <1>1 DEF IndInv, TypeOK, SetBundle
<1> HIDE DEF row, d
<1>4. dev' \in [Device -> DeviceRow] /\ AccountsKept /\ RowsOK'
    BY <1>1, <1>2, <1>3, DeviceWriteOK
<1>5. calls' \in [Request -> Call] /\ CallsOK'
    BY <1>4, ReplyOK DEF SetBundle
<1>6. CliOK'
    BY <1>3, <1>4 DEF IndInv, CliOK, AccountsKept
<1> QED
    BY <1>3, <1>4, <1>5, <1>6 DEF IndInv, TypeOK

(* A call that ends without writing. *)
LEMMA EndOK ==
    ASSUME IndInv, NEW r \in Request, Reply(r), pings' \subseteq Device,
           faults' \in 0..MaxFaults, UNCHANGED <<mode, inv, dev, cli>>
    PROVE  IndInv'
<1>1. AccountsKept
    BY DEF AccountsKept
<1>2. calls' \in [Request -> Call] /\ CallsOK'
    BY <1>1, ReplyOK
<1>3. TypeOK'
    BY <1>2 DEF IndInv, TypeOK
<1>4. CliOK' /\ RowsOK'
    BY DEF IndInv, CliOK, RowsOK
<1> QED
    BY <1>2, <1>3, <1>4 DEF IndInv

(* The ping handleRevoke owes goes to a device. *)
LEMMA TargetPingOK ==
    ASSUME IndInv, NEW r \in Request
    PROVE  TargetPing(r) \subseteq Device
BY DEF IndInv, CallsOK, CallOK, TargetPing

(* Announcing an act, or failing to, only starts pings. *)
LEMMA WakeOK ==
    ASSUME IndInv, NEW r \in Request, WakeAccount(r) \/ WakeFails(r)
    PROVE  IndInv'
<1>1. CASE WakeAccount(r)
  <2>1. pings' \subseteq Device
    BY <1>1, TargetPingOK DEF WakeAccount, Woken, DevicesOf, IndInv, TypeOK
  <2> QED
    BY <1>1, <2>1, EndOK DEF WakeAccount, IndInv, TypeOK
<1>2. CASE WakeFails(r)
  <2>1. pings' \subseteq Device
    BY <1>2, TargetPingOK DEF WakeFails, IndInv, TypeOK
  <2>2. faults' \in 0..MaxFaults
    BY <1>2, FaultsAssumption DEF WakeFails, IndInv, TypeOK
  <2> QED
    BY <1>2, <2>1, <2>2, EndOK DEF WakeFails
<1> QED
    BY <1>1, <1>2

(* Every step of an API call preserves the inductive invariant. *)
LEMMA CallNextOK ==
    ASSUME IndInv, NEW r \in Request, CallNext(r)
    PROVE  IndInv'
<1>1. CASE \E i \in Invitation, d \in Device, push \in Offered : Register(r, i, d, push)
    BY <1>1, RegisterOK
<1>2. CASE \E d \in Device, q \in SignedRequest : Authenticate(r, d, q)
    BY <1>2, AuthenticateOK
<1>3. CASE \E i \in Invitation : CreateInvitation(r, i)
    BY <1>3, CreateInvitationOK
<1>4. CASE RevokeInvitation(r) \/ SetDeviceRole(r) \/ ReadTarget(r)
    BY <1>4, RevokeInvitationOK, SetDeviceRoleOK, ReadTargetOK
<1>5. CASE UpdatePush(r) \/ SetBundle(r)
    BY <1>5, UpdatePushOK, SetBundleOK
<1>6. CASE Refuse(r) \/ Abort(r)
  <2>1. Reply(r) /\ UNCHANGED <<mode, inv, dev, cli, pings, faults>>
    BY <1>6 DEF Refuse, Abort
  <2> QED
    BY <2>1, EndOK DEF IndInv, TypeOK
<1>7. CASE WakeAccount(r) \/ WakeFails(r)
    BY <1>7, WakeOK
<1> QED
    BY <1>1, <1>2, <1>3, <1>4, <1>5, <1>6, <1>7 DEF CallNext

(* The command line *)

(* Every step of the command line preserves the inductive invariant. *)
LEMMA CliNextOK ==
    ASSUME IndInv, CliNext
    PROVE  IndInv'
<1> USE DEF IndInv
<1>1. ASSUME NEW a \in Account, NEW m \in {"flat", "managed"}, CliCreateAccount(a, m)
      PROVE  IndInv'
  <2>1. TypeOK'
    BY <1>1 DEF CliCreateAccount, TypeOK, Cli
  <2>2. CallsOK'
    BY <1>1 DEF CliCreateAccount, CallsOK, CallOK
  <2>3. CliOK'
    BY <1>1 DEF CliCreateAccount, CliOK, TypeOK, Cli
  <2>4. RowsOK'
    BY <1>1 DEF CliCreateAccount, RowsOK, TypeOK
  <2> QED
    BY <2>1, <2>2, <2>3, <2>4
<1>2. ASSUME NEW i \in Invitation, CliCreateInvitation(i)
      PROVE  IndInv'
  <2>1. cli.account \in Account /\ mode[cli.account] # "none"
    BY <1>2 DEF CliCreateInvitation, CliOK
  <2>2. /\ MintedRow(cli.account, "admin") \in InvitationRow
        /\ MintedRow(cli.account, "admin").account = cli.account
    BY <2>1, MintedRowOK
  <2>3. CliIdle \in Cli
    BY DEF CliIdle, Cli
  <2>4. TypeOK'
    BY <1>2, <2>2, <2>3 DEF CliCreateInvitation, TypeOK
  <2>5. CallsOK' /\ CliOK'
    BY <1>2 DEF CliCreateInvitation, CallsOK, CallOK, CliOK, CliIdle
  <2>6. RowsOK'
    BY <1>2, <2>1, <2>2 DEF CliCreateInvitation, RowsOK, TypeOK
  <2> QED
    BY <2>4, <2>5, <2>6
<1>3. ASSUME NEW d \in Device, CliPromoteCheck(d)
      PROVE  IndInv'
  <2>1. TypeOK'
    BY <1>3 DEF CliPromoteCheck, TypeOK, Cli
  <2>2. CallsOK' /\ RowsOK'
    BY <1>3 DEF CliPromoteCheck, CallsOK, CallOK, RowsOK
  <2>3. CliOK'
    BY <1>3 DEF CliPromoteCheck, CliOK, TypeOK, Cli, Live, Registered, DeviceRow
  <2> QED
    BY <2>1, <2>2, <2>3
<1>4. ASSUME CliPromoteWrite
      PROVE  IndInv'
  <2> DEFINE d == cli.device
             row == [dev[d] EXCEPT !.role = "admin"]
  <2>1. d \in Device /\ dev[d].account \in Account
    BY <1>4 DEF CliPromoteWrite, CliOK
  <2>2. row \in DeviceRow /\ row.account = dev[d].account
    <3>1. dev[d] \in DeviceRow
        BY <2>1 DEF TypeOK
    <3> QED
        BY <3>1 DEF DeviceRow, Role
  <2>3. dev' = [dev EXCEPT ![d] = row] /\ UNCHANGED <<mode, inv, calls, pings, faults>>
    BY <1>4, <2>1 DEF TypeOK, CliPromoteWrite
  <2> HIDE DEF row, d
  <2>4. dev' \in [Device -> DeviceRow] /\ AccountsKept /\ RowsOK'
    BY <2>1, <2>2, <2>3, DeviceWriteOK
  <2>5. CallsOK'
    <3>1. ASSUME NEW x \in Request PROVE CallOK(x)'
      <4>1. calls'[x] = calls[x] /\ CallOK(x)
        BY <2>3 DEF CallsOK
      <4>2. \A e \in Device : dev[e].account \in Account
                              => dev'[e].account = dev[e].account
        BY <2>4 DEF AccountsKept
      <4> QED
        BY <4>1, <4>2 DEF CallOK
    <3> QED
        BY <3>1 DEF CallsOK
  <2>6. cli' \in Cli /\ cli'.device = cli.device /\ cli'.pc = "pinging"
    BY <1>4 DEF CliPromoteWrite, TypeOK, Cli
  <2>7. CliOK'
    BY <2>1, <2>4, <2>6 DEF CliOK, AccountsKept, d
  <2> QED
    BY <2>3, <2>4, <2>5, <2>6, <2>7 DEF TypeOK
<1>5. ASSUME CliPing \/ CliDies
      PROVE  IndInv'
  <2>1. CliIdle \in Cli
    BY DEF CliIdle, Cli
  <2>2. pings' \subseteq Device
    BY <1>5 DEF CliPing, CliDies, Woken, DevicesOf, TypeOK
  <2>3. faults' \in 0..MaxFaults
    BY <1>5, FaultsAssumption DEF CliPing, CliDies, TypeOK
  <2>4. TypeOK'
    BY <1>5, <2>1, <2>2, <2>3 DEF CliPing, CliDies, TypeOK
  <2>5. UNCHANGED <<mode, inv, dev, calls>> /\ cli' = CliIdle
    BY <1>5 DEF CliPing, CliDies
  <2>6. CallsOK'
    BY <2>5 DEF CallsOK, CallOK
  <2>7. CliOK' /\ RowsOK'
    BY <2>5 DEF CliOK, CliIdle, RowsOK
  <2> QED
    BY <2>4, <2>6, <2>7
<1> QED
    BY <1>1, <1>2, <1>3, <1>4, <1>5 DEF CliNext

(* The invariant is inductive: every step of the control plane preserves it. *)
LEMMA NextIndInv == IndInv /\ [Next]_vars => IndInv'
<1> SUFFICES ASSUME IndInv, [Next]_vars PROVE IndInv'
    OBVIOUS
<1>1. CASE \E r \in Request : CallNext(r)
    BY <1>1, CallNextOK
<1>2. CASE CliNext
    BY <1>2, CliNextOK
<1>3. CASE \E i \in Invitation : Expire(i)
    BY <1>3, ExpireOK
<1>4. ASSUME NEW d \in Device, PingEnds(d)
      PROVE  IndInv'
    BY <1>4 DEF PingEnds, IndInv, TypeOK, CallsOK, CallOK, CliOK, RowsOK
<1>5. CASE \E r \in Request : RevokeDevice(r)
    BY <1>5, RevokeDeviceOK
<1>6. CASE Crash
    BY <1>6, CrashOK
<1>7. CASE UNCHANGED vars
    BY <1>7 DEF vars, IndInv, TypeOK, CallsOK, CallOK, CliOK, RowsOK
<1> QED
    BY <1>1, <1>2, <1>3, <1>4, <1>5, <1>6, <1>7 DEF Next, AdminNext

(* Every table, call and command of the control plane keeps its type, in   *)
(* every instance: the argument is the inductive invariant IndInv.         *)
THEOREM IndInvHolds == Spec => []IndInv
<1>1. IndInv /\ [Next]_vars => IndInv'
    BY NextIndInv
<1> QED
    BY InitIndInv, <1>1, PTL DEF Spec

(* The type invariant of the control plane, for every instance. *)
THEOREM TypeCorrect == Spec => []TypeOK
<1>1. IndInv => TypeOK
    BY DEF IndInv
<1> QED
    BY IndInvHolds, <1>1, PTL
=============================================================================
