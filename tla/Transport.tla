------------------------------ MODULE Transport ------------------------------
(***************************************************************************)
(* The transport plane of the relay: queues and the messages they hold, as *)
(* kept by internal/store/queue.go and driven by the handlers of           *)
(* internal/server/transport.go, with the sweeper of server.go.            *)
(*                                                                         *)
(* A handler reads the queue's row, checks the request against it, and     *)
(* then writes: other calls run between.  One statement, or one            *)
(* transaction, is one step.                                               *)
(*                                                                         *)
(* The devices that own queues are the environment: `home', `gone' and     *)
(* `reach' say what the transport plane reads of the devices table, and    *)
(* Relay maps them to it.                                                  *)
(***************************************************************************)
EXTENDS FiniteSetsExt

CONSTANTS
    Account,       \* accounts
    Device,        \* devices, the owners of queues
    Queue,         \* queues, each with its recipient id and its sender id
    Key,           \* sender keys
    Slot,          \* slots for transport calls in progress at the same time
    None,          \* no account, device, queue or key
    TransportOps,  \* the operations clients issue
    Pushable,      \* the devices that may have a push endpoint
    AccountLimit,  \* accounts.quota_bytes, fixed when the account is made
    Limits,        \* the ceilings that devices and queues may be given
    Sizes,         \* payload sizes
    TTLs,          \* message lifetimes, as clamped by clampMessageTTL
    MaxSeq,        \* bound: messages ever accepted
    MaxTime,       \* bound: the clock
    MaxFailures    \* bound: crashes and failed wake-ups in a behaviour

RecipientOp == {"recv", "ack", "retire", "setQuota"}
TransportOp == {"create", "send"} \cup RecipientOp
OperatorOp  == {"cap"}             \* `sund admin device quota'

ASSUME TransportNone ==
    None \notin Account /\ None \notin Device /\ None \notin Queue /\ None \notin Key
ASSUME TransportOpsAssumption ==
    TransportOps \subseteq TransportOp \cup OperatorOp /\ Pushable \subseteq Device
ASSUME LimitAssumption ==
    AccountLimit \in [Account -> Nat] /\ Limits \subseteq Nat /\ 0 \in Limits
ASSUME MessageAssumption == Sizes \subseteq Nat \ {0} /\ TTLs \subseteq Nat \ {0}
ASSUME BoundAssumption   == MaxSeq \in Nat /\ MaxTime \in Nat /\ MaxFailures \in Nat

VARIABLES
    home,         \* the account a device is registered in, None before
    gone,         \* the revoked devices
    reach,        \* the live devices with a push endpoint
    deviceLimit,  \* devices.quota_bytes
    queues,       \* the queues table
    msgs,         \* the messages table
    nextSeq,      \* its AUTOINCREMENT counter
    clock,        \* time.Now(), in seconds
    xcalls,       \* transport calls being served
    quotaCmd,     \* the operator's quota command in progress
    wakes,        \* devices with a wake-up ping on its way
    failures,     \* crashes and failed wake-ups so far
    accepted,     \* history: every message ever stored
    inbox         \* history: the messages recipients have got hold of

owners == <<home, gone, reach>>
tables == <<deviceLimit, queues, msgs, nextSeq>>
history == <<accepted, inbox>>
tvars  == <<owners, tables, clock, xcalls, quotaCmd, wakes, failures, history>>

-----------------------------------------------------------------------------
(* Rows and calls *)

QueueRow == [owner : Device \cup {None}, key : Key \cup {None},
             retired : {0, 1}, limit : Limits]
NoQueue  == [owner |-> None, key |-> None, retired |-> 0, limit |-> 0]

(* `from' is the key that signed the message: the table has no such column *)
(* and no action reads it.                                                 *)
Message == [queue : Queue, seq : 1..MaxSeq, size : Sizes,
            expires : Nat, from : Key]

Created(q)  == queues[q].owner # None
Expired(m)  == m.expires <= clock
MessagesOf(q)       == {m \in msgs : m.queue = q}
DeviceMessages(d)   == {m \in msgs : queues[m.queue].owner = d}
AccountMessages(a)  == {m \in msgs : home[queues[m.queue].owner] = a}
Bytes(M)            == MapThenSumSet(LAMBDA m : m.size, M)

XCall == [pc : {"idle", "create", "bind", "append", "wake",
                "authorized", "drain"},
          op : {"none"} \cup TransportOp,
          owner : Device \cup {None}, queue : Queue \cup {None},
          key : Key \cup {None}, size : Sizes \cup {0}, ttl : TTLs \cup {0},
          since : 0..MaxTime,               \* when the call got this far
          ids : SUBSET (1..MaxSeq), limit : Limits \cup {-1}]

XIdle == [pc |-> "idle", op |-> "none", owner |-> None, queue |-> None,
          key |-> None, size |-> 0, ttl |-> 0, since |-> 0, ids |-> {}, limit |-> 0]

QuotaCmd == [pc : {"idle", "read", "written"}, device : Device \cup {None},
             limit : Limits, endpoint : BOOLEAN]
QuotaCmdIdle == [pc |-> "idle", device |-> None, limit |-> 0, endpoint |-> FALSE]

XAt(s, pc, op) == xcalls[s].pc = pc /\ xcalls[s].op = op
XReply(s)      == xcalls' = [xcalls EXCEPT ![s] = XIdle]
XGoto(s, pc)   == xcalls' = [xcalls EXCEPT ![s].pc = pc]

TInit ==
    /\ home = [d \in Device |-> None]
    /\ gone = {}
    /\ reach = {}
    /\ deviceLimit = [d \in Device |-> 0]
    /\ queues = [q \in Queue |-> NoQueue]
    /\ msgs = {}
    /\ nextSeq = 1
    /\ clock = 0
    /\ xcalls = [s \in Slot |-> XIdle]
    /\ quotaCmd = QuotaCmdIdle
    /\ wakes = {}
    /\ failures = 0
    /\ accepted = {}
    /\ inbox = {}

-----------------------------------------------------------------------------
(* The devices table, seen from here *)

OwnerEnrols(d, a) ==
    /\ home[d] = None
    /\ home' = [home EXCEPT ![d] = a]
    /\ \E R \in SUBSET ({d} \cap Pushable) : reach' = reach \cup R
    /\ UNCHANGED <<gone, tables, clock, xcalls, quotaCmd, wakes, failures, history>>

OwnerSetsPush(d) ==
    /\ home[d] # None
    /\ d \notin gone
    /\ \E R \in SUBSET ({d} \cap Pushable) : reach' = (reach \ {d}) \cup R
    /\ UNCHANGED <<home, gone, tables, clock, xcalls, quotaCmd, wakes, failures, history>>

(* Mutant: the messages go by the account of the device. *)
RevokeOwnerInAccount(d) ==
    /\ home[d] # None
    /\ gone' = gone \cup {d}
    /\ reach' = reach \ {d}
    /\ msgs' = msgs \ AccountMessages(home[d])
    /\ queues' = [q \in Queue |-> IF queues[q].owner = d
                                  THEN [queues[q] EXCEPT !.retired = 1]
                                  ELSE queues[q]]
    /\ UNCHANGED <<home, deviceLimit, nextSeq, clock, xcalls, quotaCmd, wakes, failures, history>>

(* The transport half of the RevokeDevice transaction: every queue of d is *)
(* retired and its messages deleted.                                       *)
RevokeOwner(d) ==
    /\ home[d] # None
    /\ gone' = gone \cup {d}
    /\ reach' = reach \ {d}
    /\ msgs' = msgs \ DeviceMessages(d)
    /\ queues' = [q \in Queue |-> IF queues[q].owner = d
                                  THEN [queues[q] EXCEPT !.retired = 1]
                                  ELSE queues[q]]
    /\ UNCHANGED <<home, deviceLimit, nextSeq, clock, xcalls, quotaCmd, wakes, failures, history>>

(* The operator's `sund admin device quota', a process of its own: it      *)
(* reads the device's row, *)
QuotaCmdStart(d, n) ==
    /\ "cap" \in TransportOps
    /\ quotaCmd.pc = "idle"
    /\ home[d] # None
    /\ quotaCmd' = [pc |-> "read", device |-> d, limit |-> n,
                    endpoint |-> d \in reach]
    /\ UNCHANGED <<owners, tables, clock, xcalls, wakes, failures, history>>

(* writes the ceiling unless the device is revoked by now, *)
SetDeviceQuota ==
    /\ quotaCmd.pc = "read"
    /\ IF quotaCmd.device \in gone
       THEN deviceLimit' = deviceLimit /\ quotaCmd' = QuotaCmdIdle
       ELSE /\ deviceLimit' = [deviceLimit EXCEPT ![quotaCmd.device] = quotaCmd.limit]
            /\ quotaCmd' = [quotaCmd EXCEPT !.pc = "written"]
    /\ UNCHANGED <<owners, queues, msgs, nextSeq, clock, xcalls, wakes, failures, history>>

(* Mutant: the endpoint is looked up again after the write. *)
QuotaCmdPingFromRow ==
    /\ quotaCmd.pc = "written"
    /\ wakes' = wakes \cup ({quotaCmd.device} \cap reach)
    /\ quotaCmd' = QuotaCmdIdle
    /\ UNCHANGED <<owners, tables, clock, xcalls, failures, history>>

(* and pings the capped device, at the endpoint it read. *)
QuotaCmdPing ==
    /\ quotaCmd.pc = "written"
    /\ wakes' = IF quotaCmd.endpoint THEN wakes \cup {quotaCmd.device} ELSE wakes
    /\ quotaCmd' = QuotaCmdIdle
    /\ UNCHANGED <<owners, tables, clock, xcalls, failures, history>>

QuotaCmdDies ==
    /\ quotaCmd.pc # "idle"
    /\ failures < MaxFailures
    /\ failures' = failures + 1
    /\ quotaCmd' = QuotaCmdIdle
    /\ UNCHANGED <<owners, tables, clock, xcalls, wakes, history>>

-----------------------------------------------------------------------------
(* Creating a queue: the one transport call signed with a device key *)

AuthenticateOwner(s, d) ==
    /\ "create" \in TransportOps
    /\ xcalls[s].pc = "idle"
    /\ home[d] # None
    /\ d \notin gone
    /\ xcalls' = [xcalls EXCEPT ![s] = [XIdle EXCEPT !.pc = "create",
                                         !.op = "create", !.owner = d]]
    /\ UNCHANGED <<owners, tables, clock, quotaCmd, wakes, failures, history>>

CreateQueue(s, q) ==
    /\ xcalls[s].pc = "create"
    /\ ~Created(q)
    /\ queues' = [queues EXCEPT ![q] = [NoQueue EXCEPT !.owner = xcalls[s].owner]]
    /\ XReply(s)
    /\ UNCHANGED <<owners, deviceLimit, msgs, nextSeq, clock, quotaCmd, wakes, failures, history>>

-----------------------------------------------------------------------------
(* Sending *)

(* Mutant: the retired flag is not looked at. *)
LookupSendRetired(s, q, k, n, ttl) ==
    /\ "send" \in TransportOps
    /\ xcalls[s].pc = "idle"
    /\ Created(q)
    /\ queues[q].key \in {None, k}
    /\ xcalls' = [xcalls EXCEPT ![s] =
                     [pc |-> IF queues[q].key = None THEN "bind" ELSE "append",
                      op |-> "send", owner |-> queues[q].owner, queue |-> q,
                      key |-> k, size |-> n, ttl |-> ttl, since |-> clock,
                      ids |-> {}, limit |-> 0]]
    /\ UNCHANGED <<owners, tables, clock, quotaCmd, wakes, failures, history>>

(* handleSend up to the first write: the queue is looked up by its sender  *)
(* id, and the request verified against the key bound to it, or against    *)
(* the one it brings if none is (resolveSenderKey).                        *)
LookupSend(s, q, k, n, ttl) ==
    /\ "send" \in TransportOps
    /\ xcalls[s].pc = "idle"
    /\ Created(q)
    /\ queues[q].retired = 0
    /\ queues[q].key \in {None, k}
    /\ xcalls' = [xcalls EXCEPT ![s] =
                     [pc |-> IF queues[q].key = None THEN "bind" ELSE "append",
                      op |-> "send", owner |-> queues[q].owner, queue |-> q,
                      key |-> k, size |-> n, ttl |-> ttl, since |-> clock,
                      ids |-> {}, limit |-> 0]]
    /\ UNCHANGED <<owners, tables, clock, quotaCmd, wakes, failures, history>>

(* Mutant: the UPDATE without "sender_key IS NULL". *)
BindableAgain(q) == queues[q].retired = 0

(* BindSenderKey: the conditional UPDATE. *)
Bindable(q) == queues[q].key = None /\ queues[q].retired = 0

BindSenderKey(s) ==
    /\ xcalls[s].pc = "bind"
    /\ Bindable(xcalls[s].queue)
    /\ queues' = [queues EXCEPT ![xcalls[s].queue].key = xcalls[s].key]
    /\ XGoto(s, "append")
    /\ UNCHANGED <<owners, deviceLimit, msgs, nextSeq, clock, quotaCmd, wakes, failures, history>>

(* 401: the race to bind is lost, or the queue was retired meanwhile.  The *)
(* loser may have brought the very key that is bound now.                  *)
BindLost(s) ==
    /\ xcalls[s].pc = "bind"
    /\ ~Bindable(xcalls[s].queue)
    /\ XReply(s)
    /\ UNCHANGED <<owners, tables, clock, quotaCmd, wakes, failures, history>>

(* One ceiling of AppendMessage: 0 is no ceiling, expired rows do not      *)
(* count, and landing exactly on the ceiling is fine.                      *)
FitsUnder(limit, M, now, n) ==
    limit = 0 \/ Bytes({m \in M : m.expires > now}) + n <= limit

(* Mutant: a device's use is taken for that of the one queue sent to. *)
FitsQueueByQueue(s, now) ==
    LET q == xcalls[s].queue
        d == queues[q].owner
        n == xcalls[s].size
    IN  /\ FitsUnder(queues[q].limit, MessagesOf(q), now, n)
        /\ FitsUnder(deviceLimit[d], MessagesOf(q), now, n)
        /\ FitsUnder(AccountLimit[home[d]], AccountMessages(home[d]), now, n)

(* The three ceilings, at the time `now' that was read before the          *)
(* transaction began.                                                      *)
Fits(s, now) ==
    LET q == xcalls[s].queue
        d == queues[q].owner
        n == xcalls[s].size
    IN  /\ FitsUnder(queues[q].limit, MessagesOf(q), now, n)
        /\ FitsUnder(deviceLimit[d], DeviceMessages(d), now, n)
        /\ FitsUnder(AccountLimit[home[d]], AccountMessages(home[d]), now, n)

AppendMessage(s, now) ==
    /\ xcalls[s].pc = "append"
    /\ nextSeq <= MaxSeq
    /\ Fits(s, now)
    /\ LET m == [queue |-> xcalls[s].queue, seq |-> nextSeq,
                 size |-> xcalls[s].size, expires |-> now + xcalls[s].ttl,
                 from |-> xcalls[s].key]
       IN  msgs' = msgs \cup {m} /\ accepted' = accepted \cup {m}
    /\ nextSeq' = nextSeq + 1
    /\ XGoto(s, "wake")
    /\ UNCHANGED <<owners, deviceLimit, queues, clock, quotaCmd, wakes, failures, inbox>>

(* 507: one of the ceilings is in the way. *)
QuotaExceeded(s, now) ==
    /\ xcalls[s].pc = "append"
    /\ ~Fits(s, now)
    /\ XReply(s)
    /\ UNCHANGED <<owners, tables, clock, quotaCmd, wakes, failures, history>>

(* Mutant: the request's context, cancelled by a client that hung up, is  *)
(* used to look the owner up.                                             *)
WakeOwnerUnlessHungUp(s) ==
    /\ xcalls[s].pc = "wake"
    /\ \E W \in {{}, {xcalls[s].owner} \cap reach} : wakes' = wakes \cup W
    /\ XReply(s)
    /\ UNCHANGED <<owners, tables, clock, quotaCmd, failures, history>>

(* wakeQueueOwner, then 202. *)
WakeOwner(s) ==
    /\ xcalls[s].pc = "wake"
    /\ wakes' = wakes \cup ({xcalls[s].owner} \cap reach)
    /\ XReply(s)
    /\ UNCHANGED <<owners, tables, clock, quotaCmd, failures, history>>

(* GetDevice fails: no ping, and 202 all the same. *)
WakeOwnerFails(s) ==
    /\ xcalls[s].pc = "wake"
    /\ failures < MaxFailures
    /\ failures' = failures + 1
    /\ XReply(s)
    /\ UNCHANGED <<owners, tables, clock, quotaCmd, wakes, history>>

WakeEnds(d) ==
    /\ d \in wakes
    /\ wakes' = wakes \ {d}
    /\ UNCHANGED <<owners, tables, clock, xcalls, quotaCmd, failures, history>>

-----------------------------------------------------------------------------
(* The recipient's calls *)

(* authorizeRecipient, with the ids to acknowledge or the ceiling to set. *)
AuthorizeRecipient(s, q, op, ids, limit) ==
    /\ op \in TransportOps
    /\ xcalls[s].pc = "idle"
    /\ Created(q)
    /\ queues[q].retired = 0
    /\ xcalls' = [xcalls EXCEPT ![s] = [XIdle EXCEPT !.pc = "authorized",
                    !.op = op, !.queue = q, !.ids = ids, !.limit = limit]]
    /\ UNCHANGED <<owners, tables, clock, quotaCmd, wakes, failures, history>>

(* DrainMessages is two statements: it deletes what has expired, *)
DrainPurge(s) ==
    /\ XAt(s, "authorized", "recv")
    /\ msgs' = {m \in msgs : ~(m.queue = xcalls[s].queue /\ Expired(m))}
    /\ XGoto(s, "drain")
    /\ UNCHANGED <<owners, deviceLimit, queues, nextSeq, clock, quotaCmd, wakes, failures, history>>

(* Mutant: a drain deletes what it returns. *)
DrainSelectDeletes(s, received) ==
    /\ xcalls[s].pc = "drain"
    /\ inbox' = IF received
                THEN inbox \cup {m.seq : m \in MessagesOf(xcalls[s].queue)}
                ELSE inbox
    /\ msgs' = msgs \ MessagesOf(xcalls[s].queue)
    /\ XReply(s)
    /\ UNCHANGED <<owners, deviceLimit, queues, nextSeq, clock, quotaCmd, wakes, failures, accepted>>

(* and then returns what is there; the table is left alone.  The response  *)
(* reaches the recipient, or is lost on the way.                           *)
DrainSelect(s, received) ==
    /\ xcalls[s].pc = "drain"
    /\ inbox' = IF received
                THEN inbox \cup {m.seq : m \in MessagesOf(xcalls[s].queue)}
                ELSE inbox
    /\ XReply(s)
    /\ UNCHANGED <<owners, tables, clock, quotaCmd, wakes, failures, accepted>>

(* Mutant: the DELETE without "queue_id=?". *)
AckedAnywhere(s) == {m \in msgs : m.seq \in xcalls[s].ids}

(* DeleteMessages: only rows of the caller's own queue. *)
Acked(s) == {m \in MessagesOf(xcalls[s].queue) : m.seq \in xcalls[s].ids}

DeleteMessages(s) ==
    /\ XAt(s, "authorized", "ack")
    /\ msgs' = msgs \ Acked(s)
    /\ XReply(s)
    /\ UNCHANGED <<owners, deviceLimit, queues, nextSeq, clock, quotaCmd, wakes, failures, history>>

RetireQueue(s) ==
    /\ XAt(s, "authorized", "retire")
    /\ msgs' = msgs \ MessagesOf(xcalls[s].queue)
    /\ queues' = [queues EXCEPT ![xcalls[s].queue].retired = 1]
    /\ XReply(s)
    /\ UNCHANGED <<owners, deviceLimit, nextSeq, clock, quotaCmd, wakes, failures, history>>

(* handleSetQueueQuota: 400 for a negative ceiling, and 404 if the queue   *)
(* was retired meanwhile.  The mutant forgets the first.                   *)
QuotaChangesAnyhow(s) == queues[xcalls[s].queue].retired = 0
QuotaChanges(s) == xcalls[s].limit >= 0 /\ queues[xcalls[s].queue].retired = 0

SetQueueQuota(s) ==
    /\ XAt(s, "authorized", "setQuota")
    /\ queues' = IF QuotaChanges(s)
                 THEN [queues EXCEPT ![xcalls[s].queue].limit = xcalls[s].limit]
                 ELSE queues
    /\ XReply(s)
    /\ UNCHANGED <<owners, deviceLimit, msgs, nextSeq, clock, quotaCmd, wakes, failures, history>>

(* The call ends before its next write: a store error, a client that hung  *)
(* up, or, after BindSenderKey, a body that does not decode.               *)
XAbort(s) ==
    /\ xcalls[s].pc \in {"create", "bind", "append", "authorized", "drain"}
    /\ XReply(s)
    /\ UNCHANGED <<owners, tables, clock, quotaCmd, wakes, failures, history>>

-----------------------------------------------------------------------------
(* RunPurgeLoop and time *)

(* Mutant: the sweep goes by the live queues. *)
PurgeExpiredInLiveQueues ==
    /\ \E m \in msgs : Expired(m) /\ queues[m.queue].retired = 0
    /\ msgs' = {m \in msgs : ~(Expired(m) /\ queues[m.queue].retired = 0)}
    /\ UNCHANGED <<owners, deviceLimit, queues, nextSeq, clock, xcalls, quotaCmd,
                   wakes, failures, history>>

PurgeExpired ==
    /\ \E m \in msgs : Expired(m)
    /\ msgs' = {m \in msgs : ~Expired(m)}
    /\ UNCHANGED <<owners, deviceLimit, queues, nextSeq, clock, xcalls, quotaCmd,
                   wakes, failures, history>>

Tick ==
    /\ clock < MaxTime
    /\ clock' = clock + 1
    /\ UNCHANGED <<owners, tables, xcalls, quotaCmd, wakes, failures, history>>

(* The server process dies: the calls and pings it had are lost. *)
XCrash ==
    /\ failures < MaxFailures
    /\ failures' = failures + 1
    /\ xcalls' = [s \in Slot |-> XIdle]
    /\ wakes' = {}
    /\ UNCHANGED <<owners, tables, clock, quotaCmd, history>>

OwnerNext ==
    \/ \E d \in Device, a \in Account : OwnerEnrols(d, a)
    \/ \E d \in Device : OwnerSetsPush(d)
    \/ \E d \in Device : RevokeOwner(d)

(* The arguments an operation of the recipient comes with: a recipient     *)
(* acknowledges ids it was given, if not always by the right queue.        *)
AckIds(op)     == IF op = "ack" THEN SUBSET inbox \ {{}} ELSE {{}}
QuotaBytes(op) == IF op = "setQuota" THEN Limits \cup {-1} ELSE {0}

XCallNext(s) ==
    \/ \E d \in Device : AuthenticateOwner(s, d)
    \/ \E q \in Queue : CreateQueue(s, q)
    \/ \E q \in Queue, k \in Key, n \in Sizes, ttl \in TTLs : LookupSend(s, q, k, n, ttl)
    \/ BindSenderKey(s)
    \/ BindLost(s)
    \/ \E now \in xcalls[s].since..clock : AppendMessage(s, now)
    \/ \E now \in xcalls[s].since..clock : QuotaExceeded(s, now)
    \/ WakeOwner(s)
    \/ WakeOwnerFails(s)
    \/ \E q \in Queue, op \in RecipientOp :
           \E ids \in AckIds(op), limit \in QuotaBytes(op) :
               AuthorizeRecipient(s, q, op, ids, limit)
    \/ DrainPurge(s)
    \/ \E received \in BOOLEAN : DrainSelect(s, received)
    \/ DeleteMessages(s)
    \/ RetireQueue(s)
    \/ SetQueueQuota(s)
    \/ XAbort(s)

ServerNext ==
    \/ \E s \in Slot : XCallNext(s)
    \/ \E d \in Device, n \in Limits : QuotaCmdStart(d, n)
    \/ SetDeviceQuota
    \/ QuotaCmdPing
    \/ QuotaCmdDies
    \/ \E d \in Device : WakeEnds(d)
    \/ PurgeExpired
    \/ Tick

TNext == OwnerNext \/ ServerNext \/ XCrash

TSpec == TInit /\ [][TNext]_tvars

(* The sweeper's ticker, a handler that has stored a message and a command *)
(* that has written a ceiling all run on; nothing makes a client call or   *)
(* the clock advance.                                                      *)
TFairSpec ==
    /\ TSpec
    /\ WF_tvars(PurgeExpired)
    /\ \A s \in Slot : WF_tvars(WakeOwner(s))
    /\ WF_tvars(QuotaCmdPing)

-----------------------------------------------------------------------------
(* Properties *)

(* Tables, calls and histories keep their types: in particular no queue    *)
(* ends up with a ceiling below zero, which a request may well ask for.    *)
TTypeOK ==
    /\ home \in [Device -> Account \cup {None}]
    /\ gone \subseteq Device /\ reach \subseteq Device /\ wakes \subseteq Device
    /\ deviceLimit \in [Device -> Limits]
    /\ queues \in [Queue -> QueueRow]
    /\ msgs \subseteq accepted
    /\ accepted \subseteq Message
    /\ nextSeq \in 1..(MaxSeq + 1)
    /\ clock \in 0..MaxTime
    /\ failures \in 0..MaxFailures
    /\ xcalls \in [Slot -> XCall]
    /\ quotaCmd \in QuotaCmd
    /\ inbox \subseteq 1..MaxSeq

(* All messages a queue ever accepted were signed with one key, the one    *)
(* bound to it: of two first sends that race to bind different keys only   *)
(* one stores anything, and a bound key is never replaced.                 *)
OneSenderPerQueue == \A m \in accepted : queues[m.queue].key = m.from

(* A message that was accepted and is no longer stored was handed to its   *)
(* recipient, or expired, or its queue was retired: a lost response, a     *)
(* crash between recv and ack or an ack meant for another queue loses      *)
(* nothing (client/queue.go, Recv: "a crash between Recv and Ack           *)
(* redelivers them").                                                      *)
NothingLost ==
    \A m \in accepted \ msgs :
        m.seq \in inbox \/ Expired(m) \/ queues[m.queue].retired = 1

(* A row of messages goes only when it has expired, when its own queue is  *)
(* retired, or when a call on its own queue acknowledges it.               *)
RemovalStep ==
    \A m \in msgs \ msgs' :
        \/ Expired(m)
        \/ queues'[m.queue].retired = 1
        \/ \E s \in Slot : XAt(s, "authorized", "ack") /\ xcalls[s].queue = m.queue
                           /\ m.seq \in xcalls[s].ids
RemovedForAReason == [][RemovalStep]_tvars

(* A retired queue is closed for good, and so are the queues of a revoked  *)
(* device, once what was under way has ended.  A send that had looked the  *)
(* queue up before, or a create that had authenticated, may still land;    *)
(* after them no message is stored in the queue and no queue is opened for *)
(* the device.                                                             *)
Closed(q) ==
    /\ queues[q].retired = 1 /\ MessagesOf(q) = {}
    /\ \A s \in Slot : xcalls[s].queue = q => xcalls[s].pc \notin {"bind", "append"}
Severed(d) ==
    /\ d \in gone
    /\ \A q \in Queue : queues[q].owner = d => queues[q].retired = 1
    /\ \A s \in Slot : xcalls[s].owner = d => xcalls[s].pc # "create"
ClosedStep ==
    /\ \A q \in Queue : Closed(q) => Closed(q)'
    /\ \A d \in Device : Severed(d) => Severed(d)'
ClosedStaysClosed == [][ClosedStep]_tvars

(* Storing a message never leaves more unexpired bytes than a ceiling of   *)
(* its queue, its owner or its account allows: not when other queues of    *)
(* the account take the room meanwhile, when a ceiling is lowered while    *)
(* the send is under way, or when time passes between reading the clock    *)
(* and the transaction.                                                    *)
LiveBytes(M) == Bytes({m \in M : ~Expired(m)})
CeilingStep ==
    \A m \in msgs' \ msgs :
        LET q == m.queue
            d == queues[q].owner
        IN  /\ queues[q].limit # 0 => LiveBytes(MessagesOf(q))' <= queues[q].limit
            /\ deviceLimit[d] # 0 => LiveBytes(DeviceMessages(d))' <= deviceLimit[d]
            /\ AccountLimit[home[d]] # 0
                  => LiveBytes(AccountMessages(home[d]))' <= AccountLimit[home[d]]
CeilingsHold == [][CeilingStep]_tvars

(* An expired message is deleted in the end, also on a queue that nobody   *)
(* drains any more, or that was retired while the send was under way.      *)
ExpiredAreDeleted ==
    \A n \in 1..MaxSeq :
        (\E m \in msgs : m.seq = n /\ Expired(m)) ~> (\A m \in msgs : m.seq # n)

(* A stored message wakes the owner of its queue, unless the owner cannot  *)
(* be reached or the server fails at that very point: a sender that hangs  *)
(* up after the commit does not suppress the ping.                         *)
OwnerWoken ==
    \A s \in Slot, d \in Device, n \in 0..MaxFailures :
        (xcalls[s].pc = "wake" /\ xcalls[s].owner = d /\ d \in reach /\ failures = n)
            ~> (d \in wakes \/ d \notin reach \/ failures > n)

(* The operator cannot cap a device in silence: once the ceiling is        *)
(* written, the device is pinged at the endpoint it had when the command   *)
(* looked it up, also if it is revoked or moves in between.                *)
CappedIsTold ==
    \A d \in Device, n \in 0..MaxFailures :
        (/\ quotaCmd.pc = "written" /\ quotaCmd.device = d
         /\ quotaCmd.endpoint /\ failures = n)
            ~> (d \in wakes \/ failures > n)
==============================================================================
