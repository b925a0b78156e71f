# Sund relay: TLA+ verification

Sund is a blind message relay: devices of an account enrol with one-time
tokens, administer each other, and receive ciphertext through queues that
senders reach without an identity. One Go process serves HTTP over one SQLite
database; the operator's commands open the same database from processes of
their own. This directory models what the server stores and the order in which
handlers, commands, the sweeper and crashes touch it.

## Inventory

| Part | Source | State | Operations | What makes it correct |
|---|---|---|---|---|
| Accounts, invitations, devices, roles | `internal/store/store.go`, `internal/server/devices.go`, `auth.go` | tables `accounts`, `invitations`, `devices` | register, invite, uninvite, set role, revoke | a token enrols one device; a flat account stays flat; the last admin goes only by its own hand; accounts do not touch each other |
| Push endpoints and bundles | `push.go`, `bundles.go`, `store/bundle.go` | columns of `devices`, table `bundles` | set, clear at revocation | a revoked device has neither |
| Wake-up pings | `server/push.go`, `internal/push` | goroutines | after register, invite, role, revoke, send | an act that committed is announced, whatever the client does; a revoked device is left alone |
| Operator command line | `main.go` | one process per command | account create, device promote, device quota | the operator cannot act in silence; promote works on live devices |
| Queues and messages | `store/queue.go`, `server/transport.go` | tables `queues`, `messages` | create, send (bind, append), recv, ack, retire, set ceiling | one sender per queue; nothing is lost before delivery, expiry or retirement; ceilings hold |
| Sweeper | `server.go` `RunPurgeLoop` | – | delete expired messages | expired messages go, also from abandoned queues |
| Relay | all of the above | one database, one process | revocation over both planes, crash | revocation is atomic; the transport plane keeps its promises under the control plane |
| Signed requests, nonce cache | `auth.go`, `internal/sigauth`, `client/conn.go` | in-memory map | sign, judge the timestamp, check and record the nonce | a request is served once within its window; nobody is taken for somebody else's replay |
| Statement log | `store.go`, `statements.go`, `client/device.go` | table `statements` | append with trimming, page | the log is the most recent window of the account's history; a reader misses only what was trimmed |
| Message TTL | `transport.go`, `client/queue.go` | – | clamp, truncate to seconds | nothing lives longer than the maximum; what the client asks for is what it gets |
| Client library: queues | `client/queue.go`, `client/conn.go` | one call at a time | send, recv, ack | at-least-once delivery in order, over calls that fail |
| Schema and migration | `store.go` | tables, columns, index | open, create, alter | an open database has the current schema |
| TLS identity | `internal/tlsid` | four files | load, create, renew; the pinned client's check | the fingerprint is stable; what is presented is accepted |
| Processes | `main.go` | – | serve, cert, admin; killed and restarted | the server comes up |
| Client library: devices, addresses | `client/device.go`, `client/address.go` | keys, ids | one signed request per method; parsing | the requests are calls of the modules above; the strings are left out |
| Quota classes, HTTP plumbing, health | `store/quota.go`, `server.go`, `main.go` | – | – | left out: constants, or no state |

The two planes meet in the `devices` table. The transport plane reads from it
who owns a queue, whether that device is revoked and where to ping it. One
transaction, `RevokeDevice`, writes tables of both.

What is hard here: a handler is a sequence of statements and transactions, and
the row it was authorised by is read once, at the start. Everything that
commits between is invisible to it. Clients hang up, the process crashes, the
operator runs commands beside it. `PROJECT.json` lists each such place under
`hazards`.

## Modules

| Module | Role |
|---|---|
| `Administration` | control plane: tables, signed calls step by step, pings, operator commands, crash |
| `MCAdministration` | instances for TLC |
| `AdministrationProofs` | inductive invariant and type correctness, by TLAPS |
| `AdministrationSafety` | the safety properties, by TLAPS |
| `Transport` | transport plane: queues, messages, ceilings, sweeper, quota command |
| `TransportProofs` | its invariants and action properties, by TLAPS |
| `MCTransport` | instances for TLC |
| `Relay` | both planes over one database; refinement of `Transport` |
| `RelayProofs` | the refinement, what carries over by it, the revocation transaction and the pings after it, by TLAPS |
| `MCRelay` | instances for TLC |
| `SignedRequests` | what admits a signed request: window, nonce cache, repeated and late deliveries, restart |
| `SignedRequestsProofs` | its invariants and action properties, by TLAPS |
| `StatementLog`, `MCStatementLog` | the statement log behind it, with polling readers; instance for TLC |
| `StatementLogProofs` | the log's invariants, by TLAPS |
| `MessageTTL` | the TTL arithmetic of client and server, with the integer width kept |
| `AtLeastOnce` | abstract: what a queue promises its two ends |
| `Mailbox` | the client library's two ends of a queue and the relay between them; refinement of `AtLeastOnce` |
| `MailboxProofs` | TTL arithmetic, order of handling and the refinement, by TLAPS |
| `Processes` | the processes of an installation |
| `SchemaMigration` | `Open` and `migrate`, by several processes at a time |
| `TlsIdentity` | `tlsid.Load`, by several processes at a time |
| `Startup`, `MCStartup` | both under `serve`, `cert` and `admin`, killed and restarted; instance for TLC |
| `StartupProofs` | schema, leaf and fingerprint, by TLAPS |

### Administration

`mode`, `inv` and `dev` are the tables; a device's bundle is a column of its
row. `calls[r]` is an API call in progress: where it is (`pc`), and what it
carries from one step to the next: caller, the caller's role *as it was read*,
target, requested value, and the target's endpoint as it was read. `cli` is the
command in progress, `pings` the devices with a ping on its way, and `faults`
counts crashes and failed announcements against `MaxFaults`.

| Action | Code |
|---|---|
| `Register` | `handleRegister`, `RegisterDevice` (one transaction) |
| `Authenticate` | `requireSignature` |
| `CreateInvitation`, `RevokeInvitation`, `SetDeviceRole` | the handlers and their store methods |
| `ReadTarget`, `RevokeDevice` | `handleRevoke`: lookup and checks, then the transaction |
| `UpdatePush`, `SetBundle` | the handlers and their single statements |
| `Refuse`, `Abort` | error replies; a store error or a cancelled request |
| `WakeAccount`, `WakeFails`, `PingEnds` | `wakeAccountDevices`, `dispatchPing`, and the ping owed to a revoked target |
| `CliCreateAccount`, `CliCreateInvitation` | `sund admin account create`: two separate writes |
| `CliPromoteCheck`, `CliPromoteWrite`, `CliPing`, `CliDies` | `sund admin device promote` |
| `Expire`, `Crash` | time; the process |

A store method that opens a transaction is one step: in WAL mode a deferred
transaction reads from one snapshot, and a write on a snapshot that is no longer
current fails with `SQLITE_BUSY`, which is `Abort`. A ping that ends is delivered or
lost; the code does not distinguish, and so a crash that drops pings adds
nothing to `PingEnds`, also for pings the operator's process had under way.

### Transport

`queues` and `msgs` are the tables, `deviceLimit` the ceiling column of
`devices`, `xcalls` the calls in progress, `quotaCmd` the operator's quota
command, `clock` the time in seconds (timestamps are stored to the second).
`home`, `gone` and `reach` are what it reads of the devices table. `accepted`
and `inbox` are histories: what was ever stored, and what recipients got hold
of. `from` in a message is a history too; the table has no such column.

| Action | Code |
|---|---|
| `AuthenticateOwner`, `CreateQueue` | `requireSignature`, `handleCreateQueue` |
| `LookupSend`, `BindSenderKey`, `BindLost`, | `handleSend` up to the bind |
| `AppendMessage`, `QuotaExceeded` | the transaction of `AppendMessage`, at a time `now` read before it |
| `WakeOwner`, `WakeOwnerFails`, `WakeEnds` | `wakeQueueOwner`, `dispatchPing` |
| `AuthorizeRecipient`, `DrainPurge`, `DrainSelect`, `DeleteMessages`, `RetireQueue`, `SetQueueQuota` | the recipient's handlers |
| `QuotaCmdStart`, `SetDeviceQuota`, `QuotaCmdPing`, `QuotaCmdDies` | `sund admin device quota` |
| `PurgeExpired`, `Tick`, `XCrash`, `XAbort` | sweeper, time, process, failures |
| `OwnerEnrols`, `OwnerSetsPush`, `RevokeOwner` | the control plane, as the environment |

`DrainSelect` either reaches the recipient or its response is lost. A recipient
acknowledges ids it was given, not necessarily at the right queue. The time is
read in the step that uses it, except in `AppendMessage`, where the ceilings
depend on the difference.

### Relay

`Relay` extends `Administration` and instantiates `Transport` with `home`,
`gone` and `reach` computed from `dev`. A step is a step of the control plane,
a step of the transport plane, the `RevokeDevice` transaction of both, or a
crash of the process. That it behaves as `Administration` says holds by this
composition (`RelayAdministers` is the lemma that uses it). That it behaves as
`Transport` says is `ImplementsTransport`: the control plane does to the devices
table only what `Transport` assumes of its environment.

`RevokedStaysQuiet` joins the two planes: a `setPush` that was under way may put
an endpoint back into a revoked row, where an announcement, a promotion, a send
that was under way and the quota command can find it. None of them pings it. A
second revocation of the device does, once, and clears the endpoint again.

### SignedRequests and StatementLog

`signed` is what clients have signed; all of it stays on the wire, so that any
request may arrive late, twice or never. `handlers[h]` is a request on its way
through the server: `Extract` judges the timestamp, `ReadNow` reads the clock
for the cache, and `Admit` or `RejectReplay` is what happens under the mutex,
with the sweep of whatever has expired by the time read before. `Restart`
empties the cache. Clients' clocks run ahead by any of `Drifts`.

`StatementLog` extends it. An admitted request reaches `AppendStatement` (one
transaction: number, insert, trim) or `NotAppended`; `Statements(d)` is a poll
by a reader with the highest number it has. `appended` and `got` are histories.

`ServedOnceInItsWindow` is not "served once". A second delivery that passes the
window just before its timestamp runs out finds its nonce forgotten, since the
cache reads a later clock; and a restart forgets everything. The property says
that these are the only two ways. The comment at `auth.go:67-69` says that a
nonce "need only be remembered for the skew window, since a stale timestamp is
already rejected by extractSignature"; the first way is where that argument is
short by the time between the two readings of the clock.

### MessageTTL, AtLeastOnce and Mailbox

`Mailbox` is one queue end to end. Each program has one call outstanding, which
is a request, its service and a response; a call that fails leaves the caller
not knowing which of them happened, and a request not yet served stays in `late`
and may be served at any later time (`ServeLate`). Each has a nonce of its own,
as `conn.go` draws one, so that two failed sends of one body are two late
requests. What `Transport` does in
several steps is one here: the question is what the two ends can rely on.

| Action | Code |
|---|---|
| `CallSend`, `SendReturns`, `SendFails` | `Sender.Send`; the program retries or goes on |
| `CallRecv`, `RecvReturns` | `Recipient.Recv`, with `maxResponseBytes` counted in messages |
| `CallAck`, `AckReturns` | `Recipient.Ack`, for some or all of the batch |
| `ConsumerFails` | a failed call, or the receiving program crashes |
| `Handle` | what that program does with a message (external) |
| `ServeSend`, `ServeRecv`, `ServeAck`, `Sweep` | the relay |

`ImplementsAtLeastOnce` maps the stored messages to their numbers and the
expired ones to `lapsed`. `MessageTTL` has the arithmetic, with integers that
wrap at `MaxInt`; `TTLAsPromised` quantifies over every machine integer and
every duration, for the narrow integers of the instance. It records two edges:
a TTL below one second is a zero TTL, which means the default; and a `ttl`
field beyond what `time.Duration` can count, which the library cannot send, may
give a message that has expired already.

### Processes, SchemaMigration, TlsIdentity and Startup

`migrate` is a list of statements, and each process that opens the database is
at one of them. `ensureColumn` and `dropColumn` are two steps, the look and the
`ALTER`; the `ALTER` fails if another process was faster, and with it `Open`.
Of a table only the columns that have come or gone are told apart.

`tlsid.Load` works on four files. Writing one is two steps, truncate and fill,
and a certificate is the number of its key with the number of the key that
signed it. `VerifyPinned` is what a client that has the fingerprint checks.

`Startup` runs both in the order of `main.go`: `serve` opens, loads and
listens; `cert fingerprint` loads; `admin` opens. There is one TLS directory, as
the image and `compose.yaml` set it with `SUND_TLS_DIR`. Started with neither the
variable nor the flag, `serve` uses `tls` (`main.go:86`, `main.go:367`) and
`cert fingerprint` uses `certs` (`main.go:146`): then the command prints the
fingerprint of a CA of its own, and nothing here speaks of that. `Kill` ends a process at any
step; `LeafEvent` is the operator who deletes a leaf file, or the leaf's
expiry. `raced` remembers that two processes were creating a CA at the same
time, which is the exception `PinIsStable` makes.

## Runs

| Run | Question | Instance |
|---|---|---|
| `administration` | roles, tokens and the last admin under interleaved calls; finality of revocation | 1 account, 3 devices, 3 tokens, 2 calls; invite, revoke, setRole |
| `administration_announced` | token redemption against revocation; isolation of two accounts; announcements (liveness), with crash | 2 accounts, 2 devices, 2 tokens, 1 call, 1 fault; every operation; from an account with its first device |
| `transport` | sender binding, delivery, closed queues | 2 queues, 2 keys, 2 calls, 2 messages |
| `transport_quota` | queue, device and account ceilings, changed under way; a revocation beside another device's queues | 2 accounts (one with a ceiling), 2 devices, 2 queues, 1 call, the operator's command |
| `transport_live` | sweeping and wake-ups (liveness), with crash | 1 queue, 2 calls, 1 failure |
| `relay` | the transport plane is implemented; revocation spans both planes; calls that straddle it: who is pinged, what becomes of the row | 1 device, 1 queue, 1 message, 2 control calls (revoke, setPush, setBundle), 1 transport call (create, send), the quota command, 1 crash, 1 failure |
| `statement_log` | replays, and the log behind the nonce cache | 2 devices (admin; member and reader), 2 nonces, 2 handlers, window 1, clocks ahead by 0 or 2, 2 requests, 3 ticks, 1 restart, a log of 2 |
| `mailbox` | at-least-once over failing calls; TTLs; progress (liveness) | 2 bodies, 3 stored messages, responses of 2, 1 tick, 2 faults, 6-bit integers |
| `startup` | migration and TLS identity under concurrent starts and crashes; the server comes up (liveness) | `serve`, one `cert`, one `admin`; a new or the oldest database, 1 kill, 1 leaf event |

The bounds. Three devices are the least with which an act by one on another
leaves a third behind; two calls at a time are the least that interleave, and
every property speaks of at most two. `transport_quota` has one call beside the
operator's command: the three ceilings are checked in the transaction that
stores the message, so a second send is only ever before it or after it. With
two sends at a time the instance is beyond eight million states; `CeilingsKept`
covers any number of them. For the same reason `administration` leaves out
`setPush`, `setBundle` and `uninvite`. What the first two do to
`RevocationSettles` is checked in `relay`; the third is one conditional `UPDATE`
that carries over nothing about the token, so that one call at a time, in
`administration_announced`, is enough to have it before and after a redemption.
That run starts when an account has its first device (`Founded` in
`MCAdministration`), which may be any of the ids: symmetry, which is not sound
under fairness, is broken by hand. In `relay` one device is enough, since it may revoke itself and each property of the run
speaks of one device; that a revocation leaves the others' messages alone is
checked with two devices in `transport_quota`, and proved. Two queues distinguish "its own queue"
from "some queue", two keys a race to bind. Two messages of size 2 under a
ceiling of 2 or 3 make the second one too many; the account without a ceiling lets
the ceilings of its devices and queues decide. One tick lets a message of
lifetime 1 expire before, during and after a call. Two requests
of one admin, with a restart between, give four appends to a log of two, so that
it is trimmed twice; three ticks are more than the two windows a post-dated
request stays in the cache, and a clock ahead by 2 is one the window refuses at
first and accepts later. Three stored messages are one more than a response
carries, and two faults a lost send and a lost acknowledgement in one behaviour.
One kill leaves any file half written, and the `cert` command then loads beside
the restarted server; `leaf_mismatch` has a second one, because there a server
that is up has to go down before it writes a new leaf. One fault is
enough in the other runs because the liveness properties name it as the only excuse, and a second would only
excuse again. Runs without fairness use symmetry; the liveness runs do not.
`CHECK_DEADLOCK FALSE` is right everywhere: ids, time and faults are bounded,
so a behaviour ends when they are used up, and an idle server is a good state.

### Fairness

`FairSpec`, and `FoundedSpec` in its run: weak fairness of `WakeAccount(r)` and of `CliPing`. A handler past
its commit is a goroutine that runs on without looking at the request's context
(`context.Background()` in `wakeAccountDevices`), and the command a process.
`TFairSpec`: weak fairness of `WakeOwner(s)` and `QuotaCmdPing` for the same
reasons, and of `PurgeExpired`, which the ticker of `RunPurgeLoop` repeats for
as long as the process lives. The last is an assumption about the deployment:
the first tick comes `PurgeInterval` after the start. No client call, expiry,
tick, failure or crash is fair.

`MSpec`: weak fairness of the receiving program's own steps and of the server's
answers to it. That the program keeps calling `Recv` is an assumption about it;
`OwnerWoken` is what wakes it. `USpec`: weak fairness of starting the server,
which `compose.yaml` asks for (`restart: unless-stopped`), and of the server's
own steps. No sender, command, kill or clock is fair.

### Disagreements

Three runs expect a violation. Each checks a sentence of the documents, or of a
comment, against the code; `findings` in `PROJECT.json` has the quotation.

| Run | What happens |
|---|---|
| `last_admin_taken` | the only two devices of an account, both admins, revoke each other and both succeed |
| `revoked_not_cut_off` | a call that straddles a revocation leaves the revoked device with a live queue, or writes its endpoint or bundle |
| `leaf_mismatch` | a new leaf certificate beside the old key is loaded and served |

The first two have one cause: what was checked when a row was read is not
checked again where it is written. The same cause lets a send store its message
in a queue retired meanwhile, `PromoteDevice` promote a device revoked between
its two statements, and an admin that is demoted while its call is under way
mint an invitation. `RevocationSettles` and `ClosedStaysClosed` bound the
damage, and hold: only what was under way gets through, and once it has ended
nothing does. A related race refuses the slower of two first sends that bring
the same key (`BindLost`). `LastAdminKept` states the last-admin rule with the
exception that the code makes (an account that empties), and it holds.

Some properties state what the code does where a reader may expect more:
`EventuallyHandled` excepts a backlog larger than one response, which no `Recv`
can decode until enough of it has expired; `ServerComesUp` excepts a CA file
that a crash left half written, which nothing repairs, and a CA whose
certificate and key come from two processes.

## Proofs

Every safety property that a passing run checks is a theorem, for every value of
the constants. The runs show it on an instance and, with a mutant each, that it
can fail; the theorems remove the bounds.

| Module | Theorem | Statement |
|---|---|---|
| `AdministrationProofs` | `TypeCorrect` | `Spec => []TypeOK` |
| | `IndInvHolds` | `Spec => []IndInv`, the invariant behind the rest |
| `AdministrationSafety` | `FlatStaysFlat` | `Spec => []FlatAllAdmin` |
| | `SpentXorRevoked` | `Spec => []SpentOrRevoked` |
| | `TokensAreSingleUse` | `Spec => []OneDevicePerToken` |
| | `AdminUntilRevoked` | `Spec => []AdminUntilRevocation` |
| | `LastAdminIsKept` | `Spec => LastAdminKept` |
| | `RevocationIsFinal` | `Spec => RevocationSettles` |
| | `TenantsAreIsolated` | `Spec => TenantIsolation` |
| `TransportProofs` | `TransportTypes` | `TSpec => []TTypeOK` |
| | `OneSender` | `TSpec => []OneSenderPerQueue` |
| | `NoMessageLost` | `TSpec => []NothingLost` |
| | `RowsGoForAReason` | `TSpec => RemovedForAReason` |
| | `ClosedForGood` | `TSpec => ClosedStaysClosed` |
| | `CeilingsKept` | `TSpec => CeilingsHold` |
| `RelayProofs` | `RelayTransports` | `RelaySpec => ImplementsTransport` |
| | `RelayIsolatesTenants` | `RelaySpec => TenantIsolation` |
| | `RelayKeepsMessages` | the six results on `Transport`, of `RelaySpec` |
| | `RevocationAtomic` | `RelaySpec => RevocationIsAtomic` |
| | `RevokedQuiet` | `RelaySpec => RevokedStaysQuiet` |
| `SignedRequestsProofs` | `AdmissionTypes` | `SSpec => []STypeOK` |
| | `CacheBounded` | `SSpec => []CacheIsBounded` |
| | `ServedOnce` | `SSpec => ServedOnceInItsWindow` |
| | `ReplayIsReplay` | `SSpec => NoFalseReplay` |
| `StatementLogProofs` | `RecentWindow` | `LSpec => []LogIsRecentWindow` |
| | `ReadersMissOnlyTrimmed` | `LSpec => []MissesOnlyTrimmed` |
| `MailboxProofs` | `TTLKept` | `MSpec => []TTLAsPromised` |
| | `ConfirmedInOrder` | `MSpec => []HandledInOrder` |
| | `MailboxKeepsPromise` | `MSpec => ImplementsAtLeastOnce` |
| `StartupProofs` | `OpenIsCurrent` | `USpec => []OpenMeansCurrent` |
| | `LoadedAccepted` | `USpec => LoadedIsAccepted` |
| | `PinStable` | `USpec => []PinIsStable` |

All rest on the named assumptions of the modules, which TLC evaluates in the
runs: `None` is no id, operations and bounds are what their names say. Four are
more than typing. `OneDevicePerToken` counts devices and tokens, so these are
finitely many. The default and the maximum TTL are whole seconds, as the
constants of `transport.go` are (`TTLAssumption`). A database file that `Open`
finds was written by some version of this program, so that a table has no
columns but today's and `messages.status` (`DatabaseAssumption`); without it
`CREATE TABLE IF NOT EXISTS` accepts any table of the right name.
`TransportAssumption` in `Relay` repeats for its constants what `Transport`
assumes of its own.

### The inductive invariants

None of the properties is inductive as it stands. What each needs besides:

- **`Administration`: `IndInv`.** A call writes what it carries into the tables,
  so what it carries has to fit its operation (`CallsOK`): a `setRole` call wants
  a role, an authenticated caller is registered, and the target of a revocation
  past its lookup is in the caller's account. The same for the command in
  progress (`CliOK`); and rows name provisioned accounts (`RowsOK`). The safety
  proofs sort the steps in two: *quiet* ones, which change no column the
  properties look at, and eight *loud* ones, each with a lemma on its effect.
  `OneDevicePerToken` follows by counting: a registration adds one element to
  each of two finite sets. `LastAdminKept` needs no more than `IndInv`, because
  `assertNotLastAdmin` runs in the transaction that writes. `TenantIsolation` of
  `handleRevoke`, which checks the account before its transaction, holds because
  no device changes its account.
- **`Transport`: `TIndInv`.** A send past the bind carries the key its queue is
  bound to, a create the device it is for, an acknowledgement ids that were
  handed out (`CallsFit`); the quota command names a device (`CmdFits`); only a
  queue that was created is bound, retired or sent to (`RowsFit`). With that no
  step takes a queue from its owner, frees it of its key or opens it again, and
  the three reasons for which an accepted message may be gone are never undone:
  ids stay handed out, the clock does not go back, a retired queue stays retired.
  `CeilingsHold` is about sums over sets of rows. That such a sum grows by the
  size of a row added, and by none removed, is an induction over data, which the
  library's induction theorems, with their operator parameters, do not give here;
  it goes by a least counterexample instead (`LeastSubset`), first for the
  existence of the function that `Bytes` is defined by, then for its value being
  independent of the order. `CeilingInv` adds that the rows are finitely many and
  that the owner of a queue has an account.
- **`Relay`: `RelayInv`.** Beyond `IndInv`: a revoked device is one that was
  registered (`RevokedRegistered`), and the operation of a call is one that was
  asked for (`OpsIssued`). So `home` and `gone`, computed from the devices table,
  change only in the ways `Transport` allows its environment; each step is
  mapped to a step of `Transport`, and its theorems carry over through the
  instance. `RevokedStaysQuiet` needs that the revoked flag is never taken back,
  and then asks of each step that starts a ping, in either plane, whose row it
  looked at.
- **`SignedRequests`: `SIndInv`.** A nonce under a key is used for one request
  (`KeysUnique`); what a handler works on is not post-dated by more than the skew,
  and the time it read is past (`HandlersFit`); and the cache knows every request
  it served until its timestamp leaves the window (`Remembered`), and nothing else
  (`NothingElse`), whichever handlers swept it with whatever `now`.
- **`StatementLog`: `LIndInv`.** The rows are a contiguous run that ends at the
  last number given, so that `COALESCE(MAX(seq), 0) + 1` counts on; this needs
  that the limit is at least one.
- **`Mailbox`: `MIndInv`.** No message is missing that was neither handled nor
  has lapsed, and the handled ones leave no gap that still lives (`NoGaps`); with a
  message the consumer got every earlier one that is not done with, and what it
  has dealt with, or asked late to delete, was handled (`BatchFits`); no body is
  stored before its turn, late requests included, so that a confirmed body has a
  copy before every copy of a later one (`BodiesFit`). The TTL results are
  arithmetic: division by a symbolic second and the wrap at a symbolic width.
- **`Startup`: three invariants.** `DIndInv`: the statements of `migrate` that a
  process has left behind stay in effect whatever the others execute. `LeafInv`: key
  numbers are not reused, and a leaf that is being written is fresh and signed
  with the CA key its process holds. `CAInv`: unless
  two processes raced, all CAs in files and memories are one, because `ca.key` is
  created last and never deleted.

### Only model-checked

Liveness under fairness is out of the prover's reach: `ActsAnnounced`,
`TargetTold`, `ExpiredAreDeleted`, `OwnerWoken`, `CappedIsTold`,
`EventuallyHandled`, `ServerComesUp`. The three runs that show a disagreement
are counterexamples and prove nothing beyond.

## Not modelled

Payloads and their encryption; signatures, taken as unforgeable; priorities and
`last_seen`; the read-only lists; quota classes (two constants); addresses and
other parsing; plain-HTTP mode, flags and the environment; HTTP details and
logging. The ten-year expiry of the CA, and a leaf that expires while the
server that loaded it runs on, which nothing in the code looks at. The
concurrent commands of one plane: one at a time.

## Plan

1. `Mailbox` serves a request in one step where `Transport` takes several: show
   that `Transport`, seen from one queue, stores, drains and deletes as `Mailbox`
   has it, so that `MailboxKeepsPromise` rests on the detailed plane.
2. The safety halves of the liveness properties, which can be proved: a call
   that has written and not yet announced stays so until it has, or has failed.
