------------------------------- MODULE Mailbox -------------------------------
(***************************************************************************)
(* One queue end to end: a program that uses Sender.Send, the relay, and a *)
(* program that uses Recipient.Recv and Recipient.Ack (client/queue.go,    *)
(* over Conn.do of client/conn.go).                                        *)
(*                                                                         *)
(* Each program has one call outstanding.  A call is a request, its        *)
(* service (the store call of the handler, one step here; Transport has    *)
(* the steps inside) and a response.  A call that fails, by timeout or by  *)
(* a broken connection, tells its caller nothing: the service may have     *)
(* happened, may never happen, or may still happen.  Such a request stays  *)
(* behind in `late', two that are otherwise equal told apart by the nonces *)
(* they were signed with; the nonce cache sees to it that it is served     *)
(* once at most (SignedRequests).  A crash of the server is a failed call. *)
(* What the two programs do between calls is external.                     *)
(***************************************************************************)
EXTENDS MessageTTL, Sequences, FiniteSets

CONSTANTS
    LastBody,    \* the sender has bodies 1..LastBody to send, in that order
    Durations,   \* the TTLs the sender uses
    RawSeconds,  \* the ttl fields of senders that do not use the library
    RespLimit,   \* maxResponseBytes, in messages
    MaxStored,   \* bound: messages ever stored
    MaxTime,     \* bound: the clock
    MaxFaults    \* bound: failed calls and crashes

ASSUME MailboxAssumption ==
    /\ {LastBody, RespLimit, MaxStored, MaxTime, MaxFaults} \subseteq Nat
    /\ Durations \subseteq MachineInt /\ RawSeconds \subseteq MachineInt

VARIABLES
    clock,      \* time.Now() at the server, in seconds
    stored,     \* every message ever stored, in the order of its seq
    kept,       \* which of them the messages table still has
    sender,     \* the sending program and its call
    consumer,   \* the receiving program and its call
    late,       \* requests whose caller has given up on them
    handled,    \* which messages the receiving program has dealt with
    confirmed,  \* history: the bodies for which Send has returned an id
    faults      \* failed calls and crashes so far

mvars == <<clock, stored, kept, sender, consumer, late, handled, confirmed, faults>>

(* The fields of a stored message that matter: its body and its expires.   *)
Lapsed == {n \in 1..Len(stored) : stored[n].expires <= clock}

(* The values the ttl field of a send may have. *)
SentSeconds == {ClientSeconds(ttl) : ttl \in Durations} \cup RawSeconds

SenderIdle(b)  == [pc |-> "idle", body |-> b, seconds |-> 0]
ConsumerIdle   == [pc |-> "idle", batch |-> {}, todo |-> {}]

MInit ==
    /\ clock = 0
    /\ stored = <<>>
    /\ kept = {}
    /\ sender = SenderIdle(1)
    /\ consumer = ConsumerIdle
    /\ late = {}
    /\ handled = {}
    /\ confirmed = {}
    /\ faults = 0

Fault == faults < MaxFaults /\ faults' = faults + 1

-----------------------------------------------------------------------------
(* The sending program *)

CallSend(seconds) ==
    /\ sender.pc = "idle"
    /\ sender.body <= LastBody
    /\ sender' = [sender EXCEPT !.pc = "request", !.seconds = seconds]
    /\ UNCHANGED <<clock, stored, kept, consumer, late, handled, confirmed, faults>>

(* now.Add(ttl), to the second. *)
ExpiresAt(seconds) == clock + (ClampMessageTTL(seconds) \div Second)

(* AppendMessage: a new row, with a new id even for a body sent before.    *)
StoreMessage(body, seconds) ==
    /\ Len(stored) < MaxStored
    /\ stored' = Append(stored, [body |-> body, expires |-> ExpiresAt(seconds)])
    /\ kept' = kept \cup {Len(stored')}

ServeSend ==
    /\ sender.pc = "request"
    /\ StoreMessage(sender.body, sender.seconds)
    /\ sender' = [sender EXCEPT !.pc = "response"]
    /\ UNCHANGED <<clock, consumer, late, handled, confirmed, faults>>

(* Send returns an id. *)
SendReturns ==
    /\ sender.pc = "response"
    /\ confirmed' = confirmed \cup {sender.body}
    /\ sender' = SenderIdle(sender.body + 1)
    /\ UNCHANGED <<clock, stored, kept, consumer, late, handled, faults>>

(* Send returns an error, and the program sends the body again or goes on  *)
(* to the next.                                                            *)
SendFails ==
    /\ sender.pc \in {"request", "response"}
    /\ Fault
    /\ late' = IF sender.pc = "request"
               THEN late \cup {[op |-> "send", nonce |-> faults, body |-> sender.body,
                                seconds |-> sender.seconds]}
               ELSE late
    /\ sender' \in {SenderIdle(sender.body), SenderIdle(sender.body + 1)}
    /\ UNCHANGED <<clock, stored, kept, consumer, handled, confirmed>>

-----------------------------------------------------------------------------
(* The receiving program *)

CallRecv ==
    /\ consumer.pc = "idle"
    /\ consumer' = [ConsumerIdle EXCEPT !.pc = "recv"]
    /\ UNCHANGED <<clock, stored, kept, sender, late, handled, confirmed, faults>>

(* DrainMessages: the expired rows go, the others are returned and stay.   *)
ServeRecv ==
    /\ consumer.pc = "recv"
    /\ kept' = kept \ Lapsed
    /\ consumer' = [consumer EXCEPT !.pc = "drained", !.batch = kept']
    /\ UNCHANGED <<clock, stored, sender, late, handled, confirmed, faults>>

(* Mutant: a response of exactly the limit counts as cut off. *)
DecodesBelow(batch) == Cardinality(batch) < RespLimit

(* A response over maxResponseBytes is cut off there and is not JSON.      *)
Decodes(batch) == Cardinality(batch) <= RespLimit

RecvReturns ==
    /\ consumer.pc = "drained"
    /\ consumer' = IF Decodes(consumer.batch) /\ consumer.batch # {}
                   THEN [consumer EXCEPT !.pc = "handling", !.todo = consumer.batch]
                   ELSE ConsumerIdle
    /\ UNCHANGED <<clock, stored, kept, sender, late, handled, confirmed, faults>>

(* Mutant: the newest first. *)
LastOf(N) == {n \in N : \A m \in N : m <= n}

(* ORDER BY seq: where a batch, or what is left of it, begins. *)
FirstOf(N) == {n \in N : \A m \in N : n <= m}

(* The program deals with the messages in the order it got them. *)
Handle ==
    /\ consumer.pc = "handling"
    /\ \E n \in FirstOf(consumer.todo) :
           /\ handled' = handled \cup {n}
           /\ consumer' = [consumer EXCEPT !.todo = @ \ {n}]
    /\ UNCHANGED <<clock, stored, kept, sender, late, confirmed, faults>>

(* It may acknowledge some or all of a batch, once it has dealt with them. *)
Dealt == consumer.batch \ consumer.todo

CallAck ==
    /\ consumer.pc = "handling"
    /\ Dealt # {}
    /\ consumer' = [consumer EXCEPT !.pc = "ack"]
    /\ UNCHANGED <<clock, stored, kept, sender, late, handled, confirmed, faults>>

(* Mutant: an acknowledgement empties the queue. *)
DeleteAllMessages(ids) == kept' = {}

(* DeleteMessages: the named rows, no matter which are gone already.       *)
DeleteMessages(ids) == kept' = kept \ ids

ServeAck ==
    /\ consumer.pc = "ack"
    /\ DeleteMessages(Dealt)
    /\ consumer' = [consumer EXCEPT !.pc = "acked"]
    /\ UNCHANGED <<clock, stored, sender, late, handled, confirmed, faults>>

AckReturns ==
    /\ consumer.pc = "acked"
    /\ consumer' = ConsumerIdle
    /\ UNCHANGED <<clock, stored, kept, sender, late, handled, confirmed, faults>>

(* Recv or Ack returns an error, or the program crashes: either way it     *)
(* starts over with a Recv, and what it had not handled it has lost.       *)
ConsumerFails ==
    /\ consumer.pc # "idle"
    /\ Fault
    /\ late' = IF consumer.pc = "ack"
               THEN late \cup {[op |-> "ack", nonce |-> faults, ids |-> Dealt]}
               ELSE late
    /\ consumer' = ConsumerIdle
    /\ UNCHANGED <<clock, stored, kept, sender, handled, confirmed>>

-----------------------------------------------------------------------------
(* The relay by itself *)

(* A request is served after its caller has given up on it. *)
ServeLate(q) ==
    /\ q \in late
    /\ \/ q.op = "send" /\ StoreMessage(q.body, q.seconds)
       \/ q.op = "ack" /\ DeleteMessages(q.ids) /\ stored' = stored
    /\ late' = late \ {q}
    /\ UNCHANGED <<clock, sender, consumer, handled, confirmed, faults>>

(* PurgeExpired, the sweeper. *)
Sweep ==
    /\ kept \cap Lapsed # {}
    /\ kept' = kept \ Lapsed
    /\ UNCHANGED <<clock, stored, sender, consumer, late, handled, confirmed, faults>>

Tick ==
    /\ clock < MaxTime
    /\ clock' = clock + 1
    /\ UNCHANGED <<stored, kept, sender, consumer, late, handled, confirmed, faults>>

MNext ==
    \/ \E seconds \in SentSeconds : CallSend(seconds)
    \/ ServeSend \/ SendReturns \/ SendFails
    \/ CallRecv \/ ServeRecv \/ RecvReturns
    \/ Handle
    \/ CallAck \/ ServeAck \/ AckReturns
    \/ ConsumerFails
    \/ \E q \in late : ServeLate(q)
    \/ Sweep
    \/ Tick

(* The receiving program keeps at it: it polls, or is woken (OwnerWoken of *)
(* Transport), and deals with what it gets.  The server answers.  Nothing  *)
(* makes the sender send or the clock advance.                             *)
MSpec ==
    /\ MInit /\ [][MNext]_mvars
    /\ WF_mvars(CallRecv) /\ WF_mvars(ServeRecv) /\ WF_mvars(RecvReturns)
    /\ WF_mvars(Handle)
    /\ WF_mvars(CallAck) /\ WF_mvars(ServeAck) /\ WF_mvars(AckReturns)

-----------------------------------------------------------------------------
(* Properties *)

(* SendOptions: "A zero TTL means the server default (24 h); the server     *)
(* clamps to at most 7 days."  Nothing is ever stored for longer, whatever  *)
(* the ttl field says, and what the client library sends never overflows:   *)
(* its message lives for the whole seconds asked for, or for the maximum.   *)
(* Two edges that a reader may not expect are part of the statement: less   *)
(* than a second is a zero TTL and so gets the default, and a ttl field too *)
(* large to be counted in ticks, which the library cannot send, may give a  *)
(* message that has expired already.                                        *)
TTLAsPromised ==
    /\ \A seconds \in MachineInt : ExpiresAt(seconds) <= clock + (MaxTTL \div Second)
    /\ \A seconds \in MachineInt :
           seconds <= MaxInt \div Second => ExpiresAt(seconds) > clock
    /\ \A ttl \in MachineInt :
           LET life == ExpiresAt(ClientSeconds(ttl)) - clock
           IN  CASE ttl < Second                   -> life = DefaultTTL \div Second
                 [] ttl >= Second /\ ttl <= MaxTTL -> life = ttl \div Second
                 [] OTHER                          -> life = MaxTTL \div Second

(* Two conversations with one relay amount to a queue that handles in      *)
(* order and at least once, whatever fails in between.                     *)
Promise == INSTANCE AtLeastOnce WITH count <- Len(stored), lapsed <- Lapsed
ImplementsAtLeastOnce == Promise!ASpec

(* What the sender may rely on: a body for which Send returned an id is    *)
(* handled before any body sent after it, or its time is up.  This holds   *)
(* across retries and late requests, which store a body again and out of   *)
(* turn.                                                                   *)
Copies(b) == {n \in 1..Len(stored) : stored[n].body = b}
HandledInOrder ==
    \A b, c \in confirmed :
        b < c /\ Copies(c) \cap handled # {} => Copies(b) \cap (handled \cup Lapsed) # {}

(* A stored message is handled in the end, as long as it lives, unless the *)
(* backlog is more than one response can carry.  Then every Recv fails     *)
(* until enough of it has expired, although Recv "drains the queue: every  *)
(* live message, oldest first".                                            *)
EventuallyHandled ==
    \A n \in 1..MaxStored :
        n \in kept ~> n \in handled \/ n \in Lapsed \/ Cardinality(kept) > RespLimit
=============================================================================
