--------------------------- MODULE Administration ---------------------------
(***************************************************************************)
(* The control plane of the relay: accounts, enrolment invitations,        *)
(* devices and their roles, as kept by internal/store/store.go and driven  *)
(* by the signed handlers of internal/server and by the operator's command *)
(* line (main.go).                                                         *)
(*                                                                         *)
(* A signed call is not atomic.  requireSignature reads the caller's row   *)
(* once, and the handler then works with that copy: `role' in a call is    *)
(* the role the device had when it authenticated.  Every store method that *)
(* opens a transaction is one step, because SQLite lets the transaction    *)
(* commit as a whole or fails it.  Announcing an act to the account's      *)
(* other devices is a step after the commit.                               *)
(*                                                                         *)
(* RevokeDevice also retires the queues its target owns; that part of the  *)
(* transaction is in Transport and is joined to this one in Relay.         *)
(***************************************************************************)
EXTENDS Naturals, FiniteSets

CONSTANTS
    Account,      \* account ids that may be provisioned
    Device,       \* device ids that may be drawn by newID
    Invitation,   \* invitation ids (equivalently: tokens)
    Request,      \* slots for API calls in progress at the same time
    None,         \* no device, invitation or account
    Ops,          \* the signed operations clients issue
    Offered,      \* the push endpoints devices register with
    MaxFaults     \* bound: crashes and failed announcements in a behaviour

Role     == {"admin", "member"}
Endpoint == {"", "url"}            \* a push endpoint: cleared, or some URL
SignedOp == {"invite", "uninvite", "revoke", "setRole", "setPush", "setBundle"}

ASSUME NoneAssumption ==
    /\ None \notin Account
    /\ None \notin Device
    /\ None \notin Invitation
ASSUME FiniteAssumption == IsFiniteSet(Device) /\ IsFiniteSet(Invitation)
ASSUME OpsAssumption    == Ops \subseteq SignedOp /\ Offered \subseteq Endpoint
ASSUME FaultsAssumption == MaxFaults \in Nat

VARIABLES
    mode,         \* accounts.admin_mode, "none" while there is no such row
    inv,          \* the invitations table
    dev,          \* the devices table, with the device's row of bundles
    calls,        \* API calls being served
    cli,          \* the operator's command in progress
    pings,        \* devices with a wake-up ping on its way
    faults        \* crashes and failed announcements so far

vars == <<mode, inv, dev, calls, cli, pings, faults>>

-----------------------------------------------------------------------------
(* Rows and calls *)

InvitationRow == [account : Account \cup {None}, grants : Role,
                  consumed : {0, 1}, revoked : {0, 1}, expired : {0, 1}]
DeviceRow == [account : Account \cup {None}, role : Role, revoked : {0, 1},
              push : Endpoint, bundle : {"", "blob"}]

NoInvitation == [account |-> None, grants |-> "member",
                 consumed |-> 0, revoked |-> 0, expired |-> 0]
NoDevice == [account |-> None, role |-> "member", revoked |-> 0,
             push |-> "", bundle |-> ""]

Minted(i)     == inv[i].account # None
Registered(d) == dev[d].account # None
Live(d)       == Registered(d) /\ dev[d].revoked = 0

DevicesOf(a)     == {d \in Device : dev[d].account = a}
LiveDevicesOf(a) == {d \in DevicesOf(a) : dev[d].revoked = 0}
LiveAdminsOf(a)  == {d \in LiveDevicesOf(a) : dev[d].role = "admin"}
SpentOf(a)       == {i \in Invitation : inv[i].account = a /\ inv[i].consumed = 1}

(* What a client may ask for: the operation, the id in its path, its body. *)
SignedRequest ==
    [op : {"invite"},    target : {None},     want : {""} \cup Role] \cup
    [op : {"uninvite"},  target : Invitation, want : {""}] \cup
    [op : {"revoke"},    target : Device,     want : {""}] \cup
    [op : {"setRole"},   target : Device,     want : Role] \cup
    [op : {"setPush"},   target : {None},     want : Endpoint] \cup
    [op : {"setBundle"}, target : {None},     want : {"blob"}]

Call == [pc : {"idle", "authenticated", "targetRead", "wake"},
         op : {"none", "register"} \cup SignedOp,
         caller : Device \cup {None},
         role : Role,                       \* the caller's role when read
         target : Device \cup Invitation \cup {None},
         want : {"", "blob"} \cup Role \cup Endpoint,
         endpoint : Endpoint]               \* the target's endpoint when read

Idle == [pc |-> "idle", op |-> "none", caller |-> None, role |-> "member",
         target |-> None, want |-> "", endpoint |-> ""]

At(r, pc, op) == calls[r].pc = pc /\ calls[r].op = op
AccountOf(r)  == dev[calls[r].caller].account
Reply(r)      == calls' = [calls EXCEPT ![r] = Idle]
Announce(r)   == calls' = [calls EXCEPT ![r].pc = "wake", ![r].want = "",
                                        ![r].role = "member"]  \* not read again

CliIdle == [pc |-> "idle", account |-> None, device |-> None]
Cli == [pc : {"idle", "founding", "promoting", "pinging"},
        account : Account \cup {None}, device : Device \cup {None}]

Init ==
    /\ mode   = [a \in Account |-> "none"]
    /\ inv    = [i \in Invitation |-> NoInvitation]
    /\ dev    = [d \in Device |-> NoDevice]
    /\ calls  = [r \in Request |-> Idle]
    /\ cli    = CliIdle
    /\ pings  = {}
    /\ faults = 0

-----------------------------------------------------------------------------
(* Enrolment *)

(* Mutants: the default role forgotten; the flat account not normalised. *)
GrantsRoleNoDefault(a, want) == IF mode[a] # "managed" THEN "admin" ELSE want
GrantsRoleNotNormalised(a, want) == IF want = "" THEN "member" ELSE want

(* CreateInvitation: an omitted role means member, and a flat account only *)
(* ever grants admin.                                                      *)
GrantsRole(a, want) ==
    IF mode[a] # "managed" THEN "admin"
    ELSE IF want = "" THEN "member" ELSE want

MintedRow(a, want) ==
    [NoInvitation EXCEPT !.account = a, !.grants = GrantsRole(a, want)]

(* Mutant: the token is looked up without "consumed=0". *)
RedeemableTwice(i) == Minted(i) /\ inv[i].revoked = 0 /\ inv[i].expired = 0

(* The WHERE clause that makes a token single-use. *)
Redeemable(i) ==
    /\ Minted(i)
    /\ inv[i].consumed = 0
    /\ inv[i].revoked = 0
    /\ inv[i].expired = 0

(* RegisterDevice: the first device an account ever had is an admin. *)
RegisteredRole(i) ==
    IF mode[inv[i].account] = "managed" /\ DevicesOf(inv[i].account) # {}
    THEN inv[i].grants
    ELSE "admin"

(* handleRegister: consume the token and insert the device, then announce. *)
Register(r, i, d, push) ==
    /\ calls[r].pc = "idle"
    /\ Redeemable(i)
    /\ ~Registered(d)
    /\ inv' = [inv EXCEPT ![i].consumed = 1]
    /\ dev' = [dev EXCEPT ![d] =
                  [account |-> inv[i].account, role |-> RegisteredRole(i),
                   revoked |-> 0, push |-> push, bundle |-> ""]]
    /\ calls' = [calls EXCEPT ![r] = [Idle EXCEPT !.pc = "wake",
                                       !.op = "register", !.caller = d]]
    /\ UNCHANGED <<mode, cli, pings, faults>>

(* The expiry time of a token that is still open passes; that of one spent *)
(* or revoked is never looked at again.                                    *)
Expire(i) ==
    /\ Redeemable(i)
    /\ inv' = [inv EXCEPT ![i].expired = 1]
    /\ UNCHANGED <<mode, dev, calls, cli, pings, faults>>

-----------------------------------------------------------------------------
(* Signed calls *)

(* Mutant: the revoked flag is not looked at. *)
AuthenticateRevoked(r, d, q) ==
    /\ calls[r].pc = "idle"
    /\ Registered(d)
    /\ q.op \in Ops
    /\ calls' = [calls EXCEPT ![r] =
                    [pc |-> "authenticated", op |-> q.op, caller |-> d,
                     role |-> dev[d].role, target |-> q.target,
                     want |-> q.want, endpoint |-> ""]]
    /\ UNCHANGED <<mode, inv, dev, cli, pings, faults>>

(* requireSignature: the caller's row is read here and nowhere later. *)
Authenticate(r, d, q) ==
    /\ calls[r].pc = "idle"
    /\ Live(d)
    /\ q.op \in Ops
    /\ calls' = [calls EXCEPT ![r] =
                    [pc |-> "authenticated", op |-> q.op, caller |-> d,
                     role |-> dev[d].role, target |-> q.target,
                     want |-> q.want, endpoint |-> ""]]
    /\ UNCHANGED <<mode, inv, dev, cli, pings, faults>>

RequireAdmin(r) == calls[r].role = "admin"

(* handleCreateInvitation *)
CreateInvitation(r, i) ==
    /\ At(r, "authenticated", "invite")
    /\ RequireAdmin(r)
    /\ ~Minted(i)
    /\ inv' = [inv EXCEPT ![i] = MintedRow(AccountOf(r), calls[r].want)]
    /\ Announce(r)
    /\ UNCHANGED <<mode, dev, cli, pings, faults>>

(* The WHERE clause of RevokeInvitation; its mutant forgets "consumed=0". *)
RevocableUnlessRevoked(r, i) == inv[i].account = AccountOf(r) /\ inv[i].revoked = 0
Revocable(r, i) ==
    /\ inv[i].account = AccountOf(r)
    /\ inv[i].consumed = 0
    /\ inv[i].revoked = 0

(* handleRevokeInvitation: open to every device, and not announced. *)
RevokeInvitation(r) ==
    LET i == calls[r].target IN
    /\ At(r, "authenticated", "uninvite")
    /\ Revocable(r, i)
    /\ inv' = [inv EXCEPT ![i].revoked = 1]
    /\ Reply(r)
    /\ UNCHANGED <<mode, dev, cli, pings, faults>>

(* Mutants: revoked admins counted; the empty-account exception extended *)
(* to demotions.                                                         *)
NotLastAdminCountsRevoked(d, allowIfAccountEmpties) ==
    LET a == dev[d].account IN
    \/ {e \in DevicesOf(a) : dev[e].role = "admin"} \ {d} # {}
    \/ allowIfAccountEmpties /\ LiveDevicesOf(a) \ {d} = {}
NotLastAdminUnlessEmpty(d, allowIfAccountEmpties) ==
    LET a == dev[d].account IN
    LiveAdminsOf(a) \ {d} # {} \/ LiveDevicesOf(a) \ {d} = {}

(* assertNotLastAdmin, as a predicate: TRUE when the act may go on. *)
NotLastAdmin(d, allowIfAccountEmpties) ==
    LET a == dev[d].account IN
    \/ LiveAdminsOf(a) \ {d} # {}
    \/ allowIfAccountEmpties /\ LiveDevicesOf(a) \ {d} = {}

(* handleSetRole *)
RoleChangeAllowed(r) ==
    LET d == calls[r].target IN
    /\ RequireAdmin(r)
    /\ mode[AccountOf(r)] = "managed"
    /\ dev[d].account = AccountOf(r)
    /\ dev[d].revoked = 0
    /\ dev[d].role = "admin" /\ calls[r].want = "member" => NotLastAdmin(d, FALSE)

SetDeviceRole(r) ==
    /\ At(r, "authenticated", "setRole")
    /\ RoleChangeAllowed(r)
    /\ dev' = [dev EXCEPT ![calls[r].target].role = calls[r].want]
    /\ Announce(r)
    /\ UNCHANGED <<mode, inv, cli, pings, faults>>

(* Mutant: the target's account is not compared with the caller's. *)
TargetAllowedAnywhere(r) == calls[r].target # calls[r].caller => RequireAdmin(r)

(* handleRevoke up to the transaction: find the target, check the caller's *)
(* right to revoke it, remember where to ping it.                          *)
TargetAllowed(r) ==
    LET d == calls[r].target IN
    /\ dev[d].account = AccountOf(r)
    /\ d # calls[r].caller => RequireAdmin(r)

ReadTarget(r) ==
    /\ At(r, "authenticated", "revoke")
    /\ TargetAllowed(r)
    /\ calls' = [calls EXCEPT ![r].pc = "targetRead",
                              ![r].endpoint = dev[calls[r].target].push]
    /\ UNCHANGED <<mode, inv, dev, cli, pings, faults>>

(* The checks inside the RevokeDevice transaction. *)
RevocationAllowed(r) ==
    LET d == calls[r].target IN
    (d # calls[r].caller /\ dev[d].revoked = 0 /\ dev[d].role = "admin")
        => NotLastAdmin(d, TRUE)

RevokeDevice(r) ==
    /\ At(r, "targetRead", "revoke")
    /\ RevocationAllowed(r)
    /\ dev' = [dev EXCEPT ![calls[r].target].revoked = 1,
                          ![calls[r].target].push = "",
                          ![calls[r].target].bundle = ""]
    /\ Announce(r)
    /\ UNCHANGED <<mode, inv, cli, pings, faults>>

(* handleUpdatePush *)
UpdatePush(r) ==
    /\ At(r, "authenticated", "setPush")
    /\ dev' = [dev EXCEPT ![calls[r].caller].push = calls[r].want]
    /\ Reply(r)
    /\ UNCHANGED <<mode, inv, cli, pings, faults>>

(* handleSetBundle *)
SetBundle(r) ==
    /\ At(r, "authenticated", "setBundle")
    /\ dev' = [dev EXCEPT ![calls[r].caller].bundle = calls[r].want]
    /\ Reply(r)
    /\ UNCHANGED <<mode, inv, cli, pings, faults>>

(* The handler's error replies: 403, 404, 409. *)
Refused(r) ==
    \/ At(r, "authenticated", "invite") /\ ~RequireAdmin(r)
    \/ At(r, "authenticated", "uninvite") /\ ~Revocable(r, calls[r].target)
    \/ At(r, "authenticated", "setRole") /\ ~RoleChangeAllowed(r)
    \/ At(r, "authenticated", "revoke") /\ ~TargetAllowed(r)
    \/ At(r, "targetRead", "revoke") /\ ~RevocationAllowed(r)

Refuse(r) ==
    /\ Refused(r)
    /\ Reply(r)
    /\ UNCHANGED <<mode, inv, dev, cli, pings, faults>>

(* Mutant: the announcement runs on the request's own context. *)
AbortableWhileWaking(r) == calls[r].pc # "idle"

(* A store call fails: SQLITE_BUSY, an I/O error, or the request's context *)
(* cancelled because the client hung up.  Nothing has been written.  The   *)
(* announcement runs on context.Background(), so it is out of reach.       *)
Abortable(r) == calls[r].pc \in {"authenticated", "targetRead"}

Abort(r) ==
    /\ Abortable(r)
    /\ Reply(r)
    /\ UNCHANGED <<mode, inv, dev, cli, pings, faults>>

-----------------------------------------------------------------------------
(* Announcing an act *)

(* Mutant: a cleared endpoint is taken for all there is to a revocation. *)
ReachableUnlessCleared(d) == Registered(d) /\ dev[d].push # ""

Reachable(d) == Live(d) /\ dev[d].push # ""

(* wakeAccountDevices *)
Woken(a, except) == {d \in DevicesOf(a) \ {except} : Reachable(d)}

(* Mutant: the endpoint is read after the transaction cleared it. *)
TargetPingFromRow(r) ==
    IF /\ calls[r].op = "revoke"
       /\ dev[calls[r].target].push # ""
       /\ calls[r].target # calls[r].caller
    THEN {calls[r].target} ELSE {}

(* The ping handleRevoke owes its target, at the endpoint it had. *)
TargetPing(r) ==
    IF /\ calls[r].op = "revoke"
       /\ calls[r].endpoint # ""
       /\ calls[r].target # calls[r].caller
    THEN {calls[r].target} ELSE {}

WakeAccount(r) ==
    /\ calls[r].pc = "wake"
    /\ pings' = pings \cup Woken(AccountOf(r), calls[r].caller) \cup TargetPing(r)
    /\ Reply(r)
    /\ UNCHANGED <<mode, inv, dev, cli, faults>>

(* ListDevices fails: logged, and only the target's own ping goes out. *)
WakeFails(r) ==
    /\ calls[r].pc = "wake"
    /\ faults < MaxFaults
    /\ faults' = faults + 1
    /\ pings' = pings \cup TargetPing(r)
    /\ Reply(r)
    /\ UNCHANGED <<mode, inv, dev, cli>>

(* A ping goroutine ends: delivered, refused or timed out. *)
PingEnds(d) ==
    /\ d \in pings
    /\ pings' = pings \ {d}
    /\ UNCHANGED <<mode, inv, dev, calls, cli, faults>>

(* The server process dies and comes back: the database survives. *)
Crash ==
    /\ faults < MaxFaults
    /\ faults' = faults + 1
    /\ calls' = [r \in Request |-> Idle]
    /\ pings' = {}
    /\ UNCHANGED <<mode, inv, dev, cli>>

-----------------------------------------------------------------------------
(* The operator's command line, a process of its own on the same database *)

CliCreateAccount(a, m) ==
    /\ cli.pc = "idle"
    /\ mode[a] = "none"
    /\ mode' = [mode EXCEPT ![a] = m]
    /\ cli' = [cli EXCEPT !.pc = "founding", !.account = a]
    /\ UNCHANGED <<inv, dev, calls, pings, faults>>

(* The founding invitation asks for admin, whatever the mode. *)
CliCreateInvitation(i) ==
    /\ cli.pc = "founding"
    /\ ~Minted(i)
    /\ inv' = [inv EXCEPT ![i] = MintedRow(cli.account, "admin")]
    /\ cli' = CliIdle
    /\ UNCHANGED <<mode, dev, calls, pings, faults>>

(* PromoteDevice is two statements without a transaction: this one checks, *)
CliPromoteCheck(d) ==
    /\ cli.pc = "idle"
    /\ Live(d)
    /\ mode[dev[d].account] = "managed"
    /\ cli' = [cli EXCEPT !.pc = "promoting", !.device = d]
    /\ UNCHANGED <<mode, inv, dev, calls, pings, faults>>

(* and this one writes. *)
CliPromoteWrite ==
    /\ cli.pc = "promoting"
    /\ dev' = [dev EXCEPT ![cli.device].role = "admin"]
    /\ cli' = [cli EXCEPT !.pc = "pinging"]
    /\ UNCHANGED <<mode, inv, calls, pings, faults>>

(* pingAccount: the operator has no device of its own to leave out. *)
CliPing ==
    /\ cli.pc = "pinging"
    /\ pings' = pings \cup Woken(dev[cli.device].account, None)
    /\ cli' = CliIdle
    /\ UNCHANGED <<mode, inv, dev, calls, faults>>

CliDies ==
    /\ cli.pc # "idle"
    /\ faults < MaxFaults
    /\ faults' = faults + 1
    /\ cli' = CliIdle
    /\ UNCHANGED <<mode, inv, dev, calls, pings>>

CliNext ==
    \/ \E a \in Account, m \in {"flat", "managed"} : CliCreateAccount(a, m)
    \/ \E i \in Invitation : CliCreateInvitation(i)
    \/ \E d \in Device : CliPromoteCheck(d)
    \/ CliPromoteWrite
    \/ CliPing
    \/ CliDies

-----------------------------------------------------------------------------
(* One step of the call in slot r, its arrival included; RevokeDevice is   *)
(* apart because it is the one step that also writes transport tables.     *)
CallNext(r) ==
    \/ \E i \in Invitation, d \in Device, push \in Offered : Register(r, i, d, push)
    \/ \E d \in Device, q \in SignedRequest : Authenticate(r, d, q)
    \/ \E i \in Invitation : CreateInvitation(r, i)
    \/ RevokeInvitation(r)
    \/ SetDeviceRole(r)
    \/ ReadTarget(r)
    \/ UpdatePush(r)
    \/ SetBundle(r)
    \/ Refuse(r)
    \/ Abort(r)
    \/ WakeAccount(r)
    \/ WakeFails(r)

AdminNext ==
    \/ \E r \in Request : CallNext(r)
    \/ CliNext
    \/ \E i \in Invitation : Expire(i)
    \/ \E d \in Device : PingEnds(d)

Next ==
    \/ AdminNext
    \/ \E r \in Request : RevokeDevice(r)
    \/ Crash

Spec == Init /\ [][Next]_vars

(* A handler that has committed is a running goroutine, and the command    *)
(* line a running process: both take their next step.  Clients, expiry,    *)
(* failures and crashes are under no such obligation.                      *)
Fairness == (\A r \in Request : WF_vars(WakeAccount(r))) /\ WF_vars(CliPing)
FairSpec == Spec /\ Fairness

-----------------------------------------------------------------------------
(* Properties *)

(* Every table, call and command keeps its type: in particular the role a  *)
(* row of invitations or devices holds is always admin or member, although *)
(* a request may leave it out.                                             *)
TypeOK ==
    /\ mode \in [Account -> {"none", "flat", "managed"}]
    /\ inv \in [Invitation -> InvitationRow]
    /\ dev \in [Device -> DeviceRow]
    /\ calls \in [Request -> Call]
    /\ cli \in Cli
    /\ pings \subseteq Device
    /\ faults \in 0..MaxFaults

(* A flat account has only admins, and no invitation into it says          *)
(* otherwise: no interleaving of mints, registrations, role changes and    *)
(* the operator's promote walks a flat account into a managed one.         *)
FlatAllAdmin ==
    /\ \A d \in Device : Registered(d) /\ mode[dev[d].account] = "flat"
                            => dev[d].role = "admin"
    /\ \A i \in Invitation : Minted(i) /\ mode[inv[i].account] = "flat"
                            => inv[i].grants = "admin"

(* An invitation enrols exactly one device: in every account the devices   *)
(* ever registered are as many as the tokens spent, whatever registrations *)
(* race for the same token or against its revocation and expiry.           *)
OneDevicePerToken ==
    \A a \in Account : Cardinality(DevicesOf(a)) = Cardinality(SpentOf(a))

(* A token is never both spent and revoked: RevokeInvitation and           *)
(* RegisterDevice cannot both win.                                         *)
SpentOrRevoked ==
    \A i \in Invitation : ~(inv[i].consumed = 1 /\ inv[i].revoked = 1)

(* While none of an account's devices has been revoked, one of them is an  *)
(* admin: the first one was, and demotions never remove the last.          *)
AdminUntilRevocation ==
    \A a \in Account :
        DevicesOf(a) # {} /\ DevicesOf(a) = LiveDevicesOf(a)
            => LiveAdminsOf(a) # {}

(* d's own call revokes d in this step. *)
SelfRevocation(d) ==
    \E r \in Request :
        /\ At(r, "targetRead", "revoke")
        /\ calls[r].caller = d
        /\ calls[r].target = d
        /\ calls'[r].pc = "wake"

(* An account that keeps live devices loses its last admin only when that  *)
(* admin revokes itself, never to an act on another device: the last-admin *)
(* rule that RevokeDevice and SetDeviceRole check in their transactions.   *)
LastAdminStep ==
    \A a \in Account :
        LiveAdminsOf(a) # {} /\ LiveAdminsOf(a)' = {} /\ LiveDevicesOf(a)' # {}
            => \E d \in LiveAdminsOf(a) : SelfRevocation(d)
LastAdminKept == [][LastAdminStep]_vars

(* Revocation is final once what was under way has ended.  A call of d     *)
(* that authenticated before, or a promotion that had checked d, may still *)
(* write its endpoint, its bundle or its role; after them nothing does: no *)
(* call of d authenticates, and no act on d changes its row.               *)
Settled(d) ==
    /\ dev[d].revoked = 1 /\ dev[d].push = "" /\ dev[d].bundle = ""
    /\ \A r \in Request : calls[r].caller = d => calls[r].pc \in {"idle", "wake"}
    /\ ~(cli.pc = "promoting" /\ cli.device = d)
SettledStep ==
    \A d \in Device : Settled(d) => Settled(d)' /\ dev'[d].role = dev[d].role
RevocationSettles == [][SettledStep]_vars

(* The rows a step changes. *)
TouchedAccounts ==
    {dev[d].account : d \in {e \in Device : Registered(e) /\ dev'[e] # dev[e]}} \cup
    {inv'[i].account : i \in {j \in Invitation : inv'[j] # inv[j]}}

(* A signed call changes rows of its caller's account only, whatever ids   *)
(* its path names: the tenant isolation of handleRevoke, handleSetRole and *)
(* handleRevokeInvitation.                                                 *)
TenantStep ==
    \A r \in Request :
        calls[r].pc # "idle" /\ calls'[r] # calls[r]
            => TouchedAccounts \subseteq {AccountOf(r)}
TenantIsolation == [][TenantStep]_vars

(* An administrative act, once committed, is announced to every other      *)
(* device of the account that stays reachable, and the operator's promote  *)
(* to all of them: a client that hangs up cannot keep its act quiet.  Only *)
(* a fault (a crash, or a failed read of the device list) can.             *)
Announcing(d) ==
    \/ \E r \in Request : calls[r].pc = "wake" /\ d \in Woken(AccountOf(r), calls[r].caller)
    \/ cli.pc = "pinging" /\ d \in Woken(dev[cli.device].account, None)
ActsAnnounced ==
    \A d \in Device, n \in 0..MaxFaults :
        (Announcing(d) /\ faults = n) ~> (d \in pings \/ ~Reachable(d) \/ faults > n)

(* A device revoked by another is told so at the endpoint it had when the  *)
(* handler looked it up, although the transaction has cleared it by then.  *)
TargetTold ==
    \A r \in Request, d \in Device, n \in 0..MaxFaults :
        (/\ At(r, "wake", "revoke") /\ calls[r].target = d /\ calls[r].caller # d
         /\ calls[r].endpoint # "" /\ faults = n)
            ~> (d \in pings \/ faults > n)

-----------------------------------------------------------------------------
(* What the documents promise and the code does not keep *)

(* "An account never loses its last admin to an act performed on another   *)
(* device", with no exception for an account that empties: RevokeDevice    *)
(* makes one, and a revoked admin's call already in progress reaches it.   *)
LastAdminLossStep ==
    \A a \in Account :
        LiveAdminsOf(a) # {} /\ LiveAdminsOf(a)' = {}
            => \E d \in LiveAdminsOf(a) : SelfRevocation(d)
LastAdminNeverTaken == [][LastAdminLossStep]_vars
=============================================================================
