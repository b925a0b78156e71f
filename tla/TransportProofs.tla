--------------------------- MODULE TransportProofs ---------------------------
(* Proofs about Transport, for every value of its constants. *)
EXTENDS Transport, FiniteSetTheorems, WellFoundedInduction, TLAPS

(* What a handler relies on between its steps, for a call c over the       *)
(* queues table Q when recipients hold the ids I: the queue it looked up   *)
(* is there, a send past the binding carries the key that is bound, and    *)
(* what an acknowledgement names was handed out.                           *)
CallFits(c, Q, I) ==
    /\ c.pc = "create" => c.owner \in Device
    /\ c.pc \in {"bind", "append", "authorized", "drain"} =>
          c.queue \in Queue /\ Q[c.queue].owner # None
    /\ c.pc \in {"bind", "append"} => c.key \in Key /\ c.size \in Sizes /\ c.ttl \in TTLs
    /\ c.pc = "append" => Q[c.queue].key = c.key
    /\ c.pc = "authorized" /\ c.op = "ack" => c.ids \subseteq I
CallsFit == \A s \in Slot : CallFits(xcalls[s], queues, inbox)

CmdFits == quotaCmd.pc # "idle" => quotaCmd.device \in Device

(* Only a queue that exists is bound, retired or sent to. *)
RowsFit ==
    /\ \A q \in Queue : queues[q].key # None \/ queues[q].retired = 1 => Created(q)
    /\ \A m \in accepted : Created(m.queue)

TIndInv == TTypeOK /\ CallsFit /\ CmdFits /\ RowsFit

(* No step takes a queue away from its owner, frees it of its key or opens *)
(* it again.                                                               *)
QueuesKept ==
    \A q \in Queue : Created(q) =>
        /\ queues'[q].owner = queues[q].owner
        /\ queues[q].key # None => queues'[q].key = queues[q].key
        /\ queues[q].retired = 1 => queues'[q].retired = 1

-----------------------------------------------------------------------------
(* Calls *)

(* A queue that lost nothing, and an inbox that grew, suit a call as well. *)
LEMMA StillFits ==
    ASSUME TTypeOK, NEW c \in XCall, CallFits(c, queues, inbox),
           QueuesKept, inbox \subseteq inbox'
    PROVE  CallFits(c, queues', inbox')
<1>1. c.pc \in {"bind", "append", "authorized", "drain"} => queues'[c.queue].owner # None
    BY DEF CallFits, QueuesKept, Created
<1>2. c.pc = "append" => queues'[c.queue].key = c.key
    BY TransportNone DEF CallFits, QueuesKept, Created
<1> QED
    BY <1>1, <1>2 DEF CallFits

(* Calls that do not move. *)
LEMMA CallsKept ==
    ASSUME TIndInv, xcalls' = xcalls, QueuesKept, inbox \subseteq inbox'
    PROVE  xcalls' \in [Slot -> XCall] /\ CallsFit'
<1>1. TTypeOK /\ xcalls \in [Slot -> XCall]
    BY DEF TIndInv, TTypeOK
<1>2. ASSUME NEW s \in Slot PROVE CallFits(xcalls[s], queues', inbox')
    BY <1>1, StillFits DEF TIndInv, CallsFit
<1> QED
    BY <1>1, <1>2 DEF CallsFit

(* One call moves, to something that suits it. *)
LEMMA CallMoves ==
    ASSUME TIndInv, NEW s \in Slot, NEW c \in XCall, xcalls' = [xcalls EXCEPT ![s] = c],
           CallFits(c, queues', inbox'), QueuesKept, inbox \subseteq inbox'
    PROVE  xcalls' \in [Slot -> XCall] /\ CallsFit'
<1>1. TTypeOK /\ xcalls \in [Slot -> XCall]
    BY DEF TIndInv, TTypeOK
<1>2. ASSUME NEW x \in Slot PROVE CallFits(xcalls'[x], queues', inbox')
  <2>1. CASE x = s
    BY <1>1, <2>1
  <2>2. CASE x # s
    BY <1>1, <2>2, StillFits DEF TIndInv, CallsFit
  <2> QED
    BY <2>1, <2>2
<1> QED
    BY <1>1, <1>2 DEF CallsFit

(* The idle call is a call, and suits everything. *)
LEMMA IdleFits ==
    /\ XIdle \in XCall
    /\ \A Q, I : CallFits(XIdle, Q, I)
<1>1. XIdle \in XCall
    BY LimitAssumption, BoundAssumption DEF XIdle, XCall
<1>2. XIdle.pc = "idle"
    BY DEF XIdle
<1> QED
    BY <1>1, <1>2 DEF CallFits

(* A call that is answered. *)
LEMMA CallAnswered ==
    ASSUME TIndInv, NEW s \in Slot, XReply(s), QueuesKept, inbox \subseteq inbox'
    PROVE  xcalls' \in [Slot -> XCall] /\ CallsFit'
BY IdleFits, CallMoves DEF XReply

(* A call that goes on to pc. *)
LEMMA CallGoesOn ==
    ASSUME TIndInv, NEW s \in Slot, NEW pc, XGoto(s, pc),
           pc \in {"append", "wake", "drain"},
           CallFits([xcalls[s] EXCEPT !.pc = pc], queues', inbox'),
           QueuesKept, inbox \subseteq inbox'
    PROVE  xcalls' \in [Slot -> XCall] /\ CallsFit'
<1>1. xcalls \in [Slot -> XCall] /\ xcalls[s] \in XCall
    BY DEF TIndInv, TTypeOK
<1>2. [xcalls[s] EXCEPT !.pc = pc] \in XCall
    BY <1>1 DEF XCall
<1>3. xcalls' = [xcalls EXCEPT ![s] = [xcalls[s] EXCEPT !.pc = pc]]
    BY DEF XGoto
<1> QED
    BY <1>2, <1>3, CallMoves

-----------------------------------------------------------------------------
(* Steps *)

(* What a step does to the tables and the histories: queues are only ever  *)
(* bound and closed, a row of messages goes only for a reason, and a row   *)
(* comes only from a send that is past the binding of its key.             *)
Effect ==
    /\ QueuesKept /\ RemovalStep
    /\ clock <= clock' /\ inbox \subseteq inbox' /\ gone \subseteq gone'
    /\ \A m \in (accepted' \ accepted) \cup (msgs' \ msgs) :
          /\ m \in msgs'
          /\ \E s \in Slot : /\ xcalls[s].pc = "append"
                             /\ xcalls[s].queue = m.queue /\ xcalls[s].key = m.from

(* The initial state. *)
LEMMA TInitIndInv == TInit => TIndInv
<1> SUFFICES ASSUME TInit PROVE TIndInv
    OBVIOUS
<1> USE DEF TInit
<1>1. NoQueue \in QueueRow /\ NoQueue.key = None /\ NoQueue.retired = 0
    BY LimitAssumption DEF NoQueue, QueueRow
<1>2. QuotaCmdIdle \in QuotaCmd /\ QuotaCmdIdle.pc = "idle"
    BY LimitAssumption DEF QuotaCmdIdle, QuotaCmd
<1>3. TTypeOK
    BY <1>1, <1>2, IdleFits, LimitAssumption, BoundAssumption DEF TTypeOK
<1>4. CallsFit
    BY IdleFits DEF CallsFit
<1>5. CmdFits
    BY <1>2 DEF CmdFits
<1>6. RowsFit
    BY <1>1 DEF RowsFit
<1> QED
    BY <1>3, <1>4, <1>5, <1>6 DEF TIndInv

(* A step that leaves the queues, the messages and the histories alone. *)
LEMMA NothingMoves ==
    ASSUME TIndInv, UNCHANGED <<queues, msgs, accepted, inbox>>,
           clock' \in Nat, clock <= clock', gone \subseteq gone'
    PROVE  Effect /\ RowsFit'
<1>1. QueuesKept /\ RemovalStep
    BY DEF QueuesKept, RemovalStep
<1>2. RowsFit'
    BY DEF TIndInv, RowsFit, Created
<1> QED
    BY <1>1, <1>2 DEF Effect

(* Devices come and change their endpoints. *)
LEMMA OwnerStep ==
    ASSUME TIndInv, NEW d \in Device,
           (\E a \in Account : OwnerEnrols(d, a)) \/ OwnerSetsPush(d)
    PROVE  TIndInv' /\ Effect
<1>1. UNCHANGED <<gone, tables, clock, xcalls, quotaCmd, wakes, failures, history>>
    BY DEF OwnerEnrols, OwnerSetsPush
<1>2. home' \in [Device -> Account \cup {None}] /\ reach' \subseteq Device
  <2>1. home \in [Device -> Account \cup {None}] /\ reach \subseteq Device
    BY DEF TIndInv, TTypeOK
  <2>2. CASE OwnerSetsPush(d)
    BY <2>1, <2>2 DEF OwnerSetsPush
  <2>3. ASSUME NEW a \in Account, OwnerEnrols(d, a)
        PROVE  home' \in [Device -> Account \cup {None}] /\ reach' \subseteq Device
    BY <2>1, <2>3 DEF OwnerEnrols
  <2> QED
    BY <2>2, <2>3
<1>3. Effect /\ RowsFit'
    BY <1>1, NothingMoves, BoundAssumption DEF tables, history, TIndInv, TTypeOK
<1>4. CallsFit'
    BY <1>1, <1>3, CallsKept DEF history, Effect
<1>5. TTypeOK'
    BY <1>1, <1>2 DEF TIndInv, TTypeOK, tables, history
<1>6. CmdFits'
    BY <1>1 DEF TIndInv, CmdFits
<1> QED
    BY <1>3, <1>4, <1>5, <1>6 DEF TIndInv

(* RevokeDevice retires what the device owns and deletes what it holds. *)
LEMMA RevokeOwnerStep ==
    ASSUME TIndInv, NEW d \in Device, RevokeOwner(d)
    PROVE  TIndInv' /\ Effect
<1>0. /\ UNCHANGED <<home, deviceLimit, nextSeq, clock, xcalls, quotaCmd, wakes,
                     failures, accepted, inbox>>
      /\ gone' = gone \cup {d} /\ reach' = reach \ {d}
      /\ msgs' = msgs \ DeviceMessages(d)
    BY DEF RevokeOwner, history
<1>1. ASSUME NEW q \in Queue
      PROVE  /\ queues'[q] \in QueueRow
             /\ queues'[q].owner = queues[q].owner /\ queues'[q].key = queues[q].key
             /\ queues[q].owner = d => queues'[q].retired = 1
             /\ queues[q].owner # d => queues'[q] = queues[q]
  <2>1. queues[q] \in QueueRow
    BY DEF TIndInv, TTypeOK
  <2>2. queues'[q] = IF queues[q].owner = d
                     THEN [queues[q] EXCEPT !.retired = 1] ELSE queues[q]
    BY DEF RevokeOwner
  <2> QED
    BY <2>1, <2>2 DEF QueueRow
<1>2. queues' \in [Queue -> QueueRow]
  <2>1. queues' = [q \in Queue |-> queues'[q]]
    BY DEF RevokeOwner
  <2> QED
    BY <1>1, <2>1
<1>3. QueuesKept
    BY <1>1 DEF QueuesKept
<1>4. accepted \subseteq Message /\ msgs \subseteq accepted
    BY DEF TIndInv, TTypeOK
<1>5. RemovalStep
  <2> SUFFICES ASSUME NEW m \in msgs \ msgs' PROVE queues'[m.queue].retired = 1
    BY DEF RemovalStep
  <2>1. m.queue \in Queue /\ queues[m.queue].owner = d
    BY <1>0, <1>4 DEF DeviceMessages, Message
  <2> QED
    BY <1>1, <2>1
<1>6. Effect
    BY <1>0, <1>3, <1>5 DEF Effect, TIndInv, TTypeOK
<1>7. CallsFit'
    BY <1>0, <1>3, CallsKept
<1>8. TTypeOK'
    BY <1>0, <1>2 DEF TIndInv, TTypeOK
<1>9. CmdFits' /\ RowsFit'
  <2>1. \A q \in Queue : Created(q)' <=> Created(q)
    BY <1>1 DEF Created
  <2>2. \A m \in accepted : m.queue \in Queue
    BY <1>4 DEF Message
  <2>3. \A q \in Queue : queues'[q].retired = 1 => queues[q].retired = 1 \/ Created(q)
    BY <1>1, TransportNone DEF Created
  <2> QED
    BY <1>0, <1>1, <2>1, <2>2, <2>3 DEF TIndInv, CmdFits, RowsFit
<1> QED
    BY <1>6, <1>7, <1>8, <1>9 DEF TIndInv

(* The operator's quota command. *)
LEMMA QuotaCmdStep ==
    ASSUME TIndInv,
           \/ \E d \in Device, n \in Limits : QuotaCmdStart(d, n)
           \/ SetDeviceQuota \/ QuotaCmdPing \/ QuotaCmdDies
    PROVE  TIndInv' /\ Effect
<1>0. /\ quotaCmd \in QuotaCmd /\ wakes \subseteq Device /\ failures \in 0..MaxFailures
      /\ deviceLimit \in [Device -> Limits]
      /\ quotaCmd.pc # "idle" => quotaCmd.device \in Device
    BY DEF TIndInv, TTypeOK, CmdFits
<1>1. UNCHANGED <<owners, queues, msgs, nextSeq, clock, xcalls, history>>
    BY DEF QuotaCmdStart, SetDeviceQuota, QuotaCmdPing, QuotaCmdDies, tables
<1>2. QuotaCmdIdle \in QuotaCmd /\ QuotaCmdIdle.pc = "idle"
    BY LimitAssumption DEF QuotaCmdIdle, QuotaCmd
<1>3. /\ quotaCmd' \in QuotaCmd /\ wakes' \subseteq Device
      /\ failures' \in 0..MaxFailures /\ deviceLimit' \in [Device -> Limits]
      /\ quotaCmd'.pc # "idle" => quotaCmd'.device \in Device
  <2>1. ASSUME NEW d \in Device, NEW n \in Limits, QuotaCmdStart(d, n)
        PROVE  /\ quotaCmd' \in QuotaCmd /\ quotaCmd'.device \in Device
               /\ UNCHANGED <<deviceLimit, wakes, failures>>
    BY <2>1 DEF QuotaCmdStart, QuotaCmd, tables
  <2>2. CASE SetDeviceQuota
    <3>1. quotaCmd.pc = "read" /\ quotaCmd.device \in Device /\ quotaCmd.limit \in Limits
        BY <1>0, <2>2 DEF SetDeviceQuota, QuotaCmd
    <3>2. /\ [quotaCmd EXCEPT !.pc = "written"] \in QuotaCmd
          /\ [quotaCmd EXCEPT !.pc = "written"].device = quotaCmd.device
        BY <1>0 DEF QuotaCmd
    <3> QED
        BY <1>0, <1>2, <2>2, <3>1, <3>2 DEF SetDeviceQuota
  <2>3. CASE QuotaCmdPing
    BY <1>0, <1>2, <2>3 DEF QuotaCmdPing, tables
  <2>4. CASE QuotaCmdDies
    BY <1>0, <1>2, <2>4, BoundAssumption DEF QuotaCmdDies, tables
  <2> QED
    BY <1>0, <2>1, <2>2, <2>3, <2>4
<1>4. Effect /\ RowsFit'
    BY <1>1, NothingMoves, BoundAssumption DEF owners, history, TIndInv, TTypeOK
<1>5. CallsFit'
    BY <1>1, <1>4, CallsKept DEF history, Effect
<1>6. TTypeOK'
    BY <1>1, <1>3 DEF TIndInv, TTypeOK, owners, history
<1> QED
    BY <1>3, <1>4, <1>5, <1>6 DEF TIndInv, CmdFits

-----------------------------------------------------------------------------
(* Steps of a transport call *)

(* A call moves, and nothing but pings and failures besides. *)
LEMMA CallOnly ==
    ASSUME TIndInv, UNCHANGED <<owners, tables, clock, quotaCmd, history>>,
           wakes' \subseteq Device, failures' \in 0..MaxFailures,
           xcalls' \in [Slot -> XCall], CallsFit'
    PROVE  TIndInv' /\ Effect
<1>1. Effect /\ RowsFit'
    BY NothingMoves, BoundAssumption DEF owners, tables, history, TIndInv, TTypeOK
<1>2. TTypeOK' /\ CmdFits'
    BY DEF TIndInv, TTypeOK, CmdFits, owners, tables, history
<1> QED
    BY <1>1, <1>2 DEF TIndInv

(* The queues stay as they are: what CallMoves and its kin ask for. *)
LEMMA QueuesUntouched ==
    ASSUME queues' = queues PROVE QueuesKept
BY DEF QueuesKept

(* The beginnings: createQueue, send and the calls of the recipient. *)
LEMMA CallBegins ==
    ASSUME TIndInv, NEW s \in Slot,
           \/ \E d \in Device : AuthenticateOwner(s, d)
           \/ \E q \in Queue, k \in Key, n \in Sizes, ttl \in TTLs :
                  LookupSend(s, q, k, n, ttl)
           \/ \E q \in Queue, op \in RecipientOp :
                  \E ids \in AckIds(op), limit \in QuotaBytes(op) :
                      AuthorizeRecipient(s, q, op, ids, limit)
    PROVE  TIndInv' /\ Effect
<1>0. UNCHANGED <<owners, tables, clock, quotaCmd, wakes, failures, history>>
    BY DEF AuthenticateOwner, LookupSend, AuthorizeRecipient
<1>1. QueuesKept /\ inbox' = inbox /\ queues' = queues
    BY <1>0, QueuesUntouched DEF tables, history
<1>2. XIdle \in XCall
    BY IdleFits
<1>3. /\ queues \in [Queue -> QueueRow] /\ clock \in 0..MaxTime /\ inbox \subseteq 1..MaxSeq
      /\ wakes \subseteq Device /\ failures \in 0..MaxFailures
    BY DEF TIndInv, TTypeOK
<1>4. xcalls' \in [Slot -> XCall] /\ CallsFit'
  <2>1. ASSUME NEW d \in Device, AuthenticateOwner(s, d)
        PROVE  xcalls' \in [Slot -> XCall] /\ CallsFit'
    <3> DEFINE c == [XIdle EXCEPT !.pc = "create", !.op = "create", !.owner = d]
    <3>1. c \in XCall /\ c.pc = "create" /\ c.owner = d
        BY <1>2 DEF XCall, TransportOp
    <3>2. xcalls' = [xcalls EXCEPT ![s] = c]
        BY <2>1 DEF AuthenticateOwner
    <3> HIDE DEF c
    <3>3. CallFits(c, queues', inbox')
        BY <3>1 DEF CallFits
    <3> QED
        BY <1>1, <3>1, <3>2, <3>3, CallMoves
  <2>2. ASSUME NEW q \in Queue, NEW k \in Key, NEW n \in Sizes, NEW ttl \in TTLs,
               LookupSend(s, q, k, n, ttl)
        PROVE  xcalls' \in [Slot -> XCall] /\ CallsFit'
    <3> DEFINE c == [pc |-> IF queues[q].key = None THEN "bind" ELSE "append",
                     op |-> "send", owner |-> queues[q].owner, queue |-> q,
                     key |-> k, size |-> n, ttl |-> ttl, since |-> clock,
                     ids |-> {}, limit |-> 0]
    <3>1. queues[q].owner \in Device /\ queues[q].owner # None /\ queues[q].key \in {None, k}
        BY <1>3, <2>2 DEF LookupSend, Created, QueueRow
    <3>2. c \in XCall
        BY <1>3, <3>1, LimitAssumption DEF XCall, TransportOp
    <3>3. xcalls' = [xcalls EXCEPT ![s] = c]
        BY <2>2 DEF LookupSend
    <3>4. /\ c.queue = q /\ c.key = k /\ c.size = n /\ c.ttl = ttl
          /\ c.pc \in {"bind", "append"}
          /\ c.pc = "append" => queues[q].key = k
        BY <3>1
    <3> HIDE DEF c
    <3>5. CallFits(c, queues', inbox')
        BY <1>1, <3>1, <3>4 DEF CallFits
    <3> QED
        BY <1>1, <3>2, <3>3, <3>5, CallMoves
  <2>3. ASSUME NEW q \in Queue, NEW op \in RecipientOp, NEW ids \in AckIds(op),
               NEW limit \in QuotaBytes(op), AuthorizeRecipient(s, q, op, ids, limit)
        PROVE  xcalls' \in [Slot -> XCall] /\ CallsFit'
    <3> DEFINE c == [XIdle EXCEPT !.pc = "authorized", !.op = op, !.queue = q,
                                  !.ids = ids, !.limit = limit]
    <3>1. ids \subseteq inbox /\ limit \in Limits \cup {-1}
        BY LimitAssumption DEF AckIds, QuotaBytes
    <3>2. c \in XCall /\ c.pc = "authorized" /\ c.queue = q /\ c.ids = ids
        BY <1>2, <1>3, <3>1 DEF XCall, TransportOp
    <3>3. xcalls' = [xcalls EXCEPT ![s] = c] /\ queues[q].owner # None
        BY <2>3 DEF AuthorizeRecipient, Created
    <3> HIDE DEF c
    <3>4. CallFits(c, queues', inbox')
        BY <1>1, <3>1, <3>2, <3>3 DEF CallFits
    <3> QED
        BY <1>1, <3>2, <3>3, <3>4, CallMoves
  <2> QED
    BY <2>1, <2>2, <2>3
<1> QED
    BY <1>0, <1>3, <1>4, CallOnly

(* The ends that write nothing. *)
LEMMA CallEnds ==
    ASSUME TIndInv, NEW s \in Slot,
           \/ BindLost(s) \/ WakeOwner(s) \/ WakeOwnerFails(s) \/ XAbort(s)
           \/ \E now \in xcalls[s].since..clock : QuotaExceeded(s, now)
    PROVE  TIndInv' /\ Effect
<1>0. UNCHANGED <<owners, tables, clock, quotaCmd, history>> /\ XReply(s)
    BY DEF BindLost, WakeOwner, WakeOwnerFails, XAbort, QuotaExceeded
<1>1. wakes' \subseteq Device /\ failures' \in 0..MaxFailures
  <2>1. wakes \subseteq Device /\ failures \in 0..MaxFailures /\ reach \subseteq Device
    BY DEF TIndInv, TTypeOK
  <2> QED
    BY <2>1, BoundAssumption DEF BindLost, WakeOwner, WakeOwnerFails, XAbort, QuotaExceeded
<1>2. QueuesKept /\ inbox' = inbox
    BY <1>0, QueuesUntouched DEF tables, history
<1> QED
    BY <1>0, <1>1, <1>2, CallAnswered, CallOnly

(* CreateQueue inserts a row that was not there. *)
LEMMA CreateQueueStep ==
    ASSUME TIndInv, NEW s \in Slot, NEW q \in Queue, CreateQueue(s, q)
    PROVE  TIndInv' /\ Effect
<1> DEFINE row == [NoQueue EXCEPT !.owner = xcalls[s].owner]
<1>0. /\ UNCHANGED <<owners, deviceLimit, msgs, nextSeq, clock, quotaCmd, wakes,
                     failures, accepted, inbox>>
      /\ XReply(s) /\ queues[q].owner = None /\ queues' = [queues EXCEPT ![q] = row]
    BY DEF CreateQueue, history, Created
<1>1. xcalls[s].owner \in Device
    BY DEF CreateQueue, TIndInv, CallsFit, CallFits
<1>2. row \in QueueRow /\ row.owner # None
    BY <1>1, LimitAssumption, TransportNone DEF NoQueue, QueueRow
<1>3. queues \in [Queue -> QueueRow]
    BY DEF TIndInv, TTypeOK
<1> HIDE DEF row
<1>4. queues' \in [Queue -> QueueRow] /\ queues'[q].owner # None
      /\ \A x \in Queue : x # q => queues'[x] = queues[x]
    BY <1>0, <1>2, <1>3
<1>5. QueuesKept
    BY <1>0, <1>4 DEF QueuesKept, Created
<1>6. Effect
    BY <1>0, <1>5 DEF Effect, RemovalStep, owners, TIndInv, TTypeOK
<1>7. xcalls' \in [Slot -> XCall] /\ CallsFit'
    BY <1>0, <1>5, CallAnswered
<1>8. TTypeOK'
    BY <1>0, <1>4, <1>7 DEF TIndInv, TTypeOK, owners
<1>9. CmdFits'
    BY <1>0 DEF TIndInv, CmdFits
<1>10. RowsFit'
    BY <1>0, <1>4 DEF TIndInv, RowsFit, Created
<1> QED
    BY <1>6, <1>7, <1>8, <1>9, <1>10 DEF TIndInv

(* BindSenderKey gives a queue that has no key the key of the call. *)
LEMMA BindSenderKeyStep ==
    ASSUME TIndInv, NEW s \in Slot, BindSenderKey(s)
    PROVE  TIndInv' /\ Effect
<1> DEFINE q == xcalls[s].queue
           k == xcalls[s].key
<1>0. /\ UNCHANGED <<owners, deviceLimit, msgs, nextSeq, clock, quotaCmd, wakes,
                     failures, accepted, inbox>>
      /\ XGoto(s, "append") /\ xcalls[s].pc = "bind"
      /\ queues[q].key = None /\ queues' = [queues EXCEPT ![q].key = k]
    BY DEF BindSenderKey, history, Bindable
<1>1. /\ q \in Queue /\ queues[q].owner # None /\ k \in Key
      /\ xcalls[s].size \in Sizes /\ xcalls[s].ttl \in TTLs
    BY <1>0 DEF TIndInv, CallsFit, CallFits
<1>2. queues \in [Queue -> QueueRow] /\ queues[q] \in QueueRow /\ xcalls[s] \in XCall
    BY <1>1 DEF TIndInv, TTypeOK
<1>3. /\ queues'[q] \in QueueRow /\ queues'[q].key = k
      /\ queues'[q].owner = queues[q].owner /\ queues'[q].retired = queues[q].retired
      /\ \A x \in Queue : x # q => queues'[x] = queues[x]
      /\ queues' \in [Queue -> QueueRow]
    BY <1>0, <1>1, <1>2 DEF QueueRow
<1> HIDE DEF q, k
<1>4. QueuesKept
    BY <1>0, <1>3 DEF QueuesKept
<1>5. Effect
    BY <1>0, <1>4 DEF Effect, RemovalStep, owners, TIndInv, TTypeOK
<1>6. xcalls' \in [Slot -> XCall] /\ CallsFit'
  <2> DEFINE c == [xcalls[s] EXCEPT !.pc = "append"]
  <2>1. /\ c.pc = "append" /\ c.queue = q /\ c.key = k
        /\ c.size = xcalls[s].size /\ c.ttl = xcalls[s].ttl
    BY <1>2 DEF XCall, q, k
  <2> HIDE DEF c
  <2>2. CallFits(c, queues', inbox')
    BY <1>1, <1>3, <2>1 DEF CallFits
  <2> QED
    BY <1>0, <1>4, <2>2, CallGoesOn DEF c
<1>7. TTypeOK'
    BY <1>0, <1>3, <1>6 DEF TIndInv, TTypeOK, owners
<1>8. CmdFits'
    BY <1>0 DEF TIndInv, CmdFits
<1>9. RowsFit'
    BY <1>0, <1>1, <1>3 DEF TIndInv, RowsFit, Created
<1> QED
    BY <1>5, <1>6, <1>7, <1>8, <1>9 DEF TIndInv

(* AppendMessage stores one message, signed with the key that is bound. *)
LEMMA AppendMessageStep ==
    ASSUME TIndInv, NEW s \in Slot, NEW now \in xcalls[s].since..clock,
           AppendMessage(s, now)
    PROVE  TIndInv' /\ Effect
<1> DEFINE m == [queue |-> xcalls[s].queue, seq |-> nextSeq,
                 size |-> xcalls[s].size, expires |-> now + xcalls[s].ttl,
                 from |-> xcalls[s].key]
<1>0. /\ UNCHANGED <<owners, deviceLimit, queues, clock, quotaCmd, wakes, failures, inbox>>
      /\ XGoto(s, "wake") /\ xcalls[s].pc = "append" /\ nextSeq <= MaxSeq
      /\ msgs' = msgs \cup {m} /\ accepted' = accepted \cup {m} /\ nextSeq' = nextSeq + 1
    BY DEF AppendMessage
<1>1. /\ xcalls[s].queue \in Queue /\ queues[xcalls[s].queue].owner # None
      /\ xcalls[s].key \in Key /\ xcalls[s].size \in Sizes /\ xcalls[s].ttl \in TTLs
    BY <1>0 DEF TIndInv, CallsFit, CallFits
<1>2. xcalls[s] \in XCall /\ nextSeq \in 1..(MaxSeq + 1) /\ clock \in 0..MaxTime
    BY DEF TIndInv, TTypeOK
<1>3. m \in Message
  <2>1. xcalls[s].since \in 0..MaxTime
    BY <1>2 DEF XCall
  <2>2. now \in Nat
    BY <1>2, <2>1, BoundAssumption
  <2>3. xcalls[s].ttl \in Nat
    BY <1>1, MessageAssumption
  <2> QED
    BY <1>0, <1>1, <1>2, <2>2, <2>3, BoundAssumption DEF Message
<1>4. m.queue = xcalls[s].queue /\ m.from = xcalls[s].key
    OBVIOUS
<1> HIDE DEF m
<1>5. QueuesKept
    BY <1>0, QueuesUntouched
<1>6. Effect
  <2>1. RemovalStep
    BY <1>0 DEF RemovalStep
  <2> QED
    BY <1>0, <1>2, <1>4, <1>5, <2>1, BoundAssumption DEF Effect, owners
<1>7. xcalls' \in [Slot -> XCall] /\ CallsFit'
  <2>1. [xcalls[s] EXCEPT !.pc = "wake"].pc = "wake"
    BY <1>2 DEF XCall
  <2>2. CallFits([xcalls[s] EXCEPT !.pc = "wake"], queues', inbox')
    BY <2>1 DEF CallFits
  <2> QED
    BY <1>0, <1>5, <2>2, CallGoesOn
<1>8. TTypeOK'
  <2>1. nextSeq' \in 1..(MaxSeq + 1)
    BY <1>0, <1>2, BoundAssumption
  <2> QED
    BY <1>0, <1>3, <1>7, <2>1 DEF TIndInv, TTypeOK, owners
<1>9. CmdFits'
    BY <1>0 DEF TIndInv, CmdFits
<1>10. RowsFit'
    BY <1>0, <1>1, <1>4 DEF TIndInv, RowsFit, Created
<1> QED
    BY <1>6, <1>7, <1>8, <1>9, <1>10 DEF TIndInv

(* The recipient's deletions: a drain purges what has expired, and an      *)
(* acknowledgement deletes rows of its own queue that were handed out.     *)
LEMMA DeletionStep ==
    ASSUME TIndInv, NEW s \in Slot, DrainPurge(s) \/ DeleteMessages(s)
    PROVE  TIndInv' /\ Effect
<1>0. /\ UNCHANGED <<owners, deviceLimit, queues, nextSeq, clock, quotaCmd, wakes,
                     failures, accepted, inbox>>
      /\ msgs' \subseteq msgs
    BY DEF DrainPurge, DeleteMessages, history
<1>1. QueuesKept
    BY <1>0, QueuesUntouched
<1>2. RemovalStep
  <2>1. CASE DrainPurge(s)
    BY <2>1 DEF DrainPurge, RemovalStep
  <2>2. CASE DeleteMessages(s)
    BY <2>2 DEF DeleteMessages, Acked, MessagesOf, RemovalStep
  <2> QED
    BY <2>1, <2>2
<1>3. Effect
    BY <1>0, <1>1, <1>2 DEF Effect, owners, TIndInv, TTypeOK
<1>4. xcalls' \in [Slot -> XCall] /\ CallsFit'
  <2>1. CASE DrainPurge(s)
    <3> DEFINE c == [xcalls[s] EXCEPT !.pc = "drain"]
    <3>1. xcalls[s] \in XCall
        BY DEF TIndInv, TTypeOK
    <3>2. c.pc = "drain" /\ c.queue = xcalls[s].queue
        BY <3>1 DEF XCall
    <3>3. xcalls[s].queue \in Queue /\ queues[xcalls[s].queue].owner # None
        BY <2>1 DEF DrainPurge, XAt, TIndInv, CallsFit, CallFits
    <3> HIDE DEF c
    <3>4. CallFits(c, queues', inbox')
        BY <1>0, <3>2, <3>3 DEF CallFits
    <3>5. XGoto(s, "drain")
        BY <2>1 DEF DrainPurge
    <3> QED
        BY <1>0, <1>1, <3>4, <3>5, CallGoesOn DEF c
  <2>2. CASE DeleteMessages(s)
    BY <1>0, <1>1, <2>2, CallAnswered DEF DeleteMessages
  <2> QED
    BY <2>1, <2>2
<1>5. TTypeOK' /\ CmdFits' /\ RowsFit'
    BY <1>0, <1>4 DEF TIndInv, TTypeOK, CmdFits, RowsFit, Created, owners
<1> QED
    BY <1>3, <1>4, <1>5 DEF TIndInv

(* DrainMessages hands out what is there and deletes nothing. *)
LEMMA DrainSelectStep ==
    ASSUME TIndInv, NEW s \in Slot, NEW received \in BOOLEAN, DrainSelect(s, received)
    PROVE  TIndInv' /\ Effect
<1>0. /\ UNCHANGED <<owners, deviceLimit, queues, msgs, nextSeq, clock, quotaCmd, wakes,
                     failures, accepted>>
      /\ XReply(s) /\ inbox \subseteq inbox'
    BY DEF DrainSelect, tables
<1>1. inbox' \subseteq 1..MaxSeq
  <2>1. inbox \subseteq 1..MaxSeq /\ msgs \subseteq Message
    BY DEF TIndInv, TTypeOK
  <2> QED
    BY <2>1 DEF DrainSelect, MessagesOf, Message
<1>2. QueuesKept
    BY <1>0, QueuesUntouched
<1>3. Effect
    BY <1>0, <1>2 DEF Effect, RemovalStep, owners, TIndInv, TTypeOK
<1>4. xcalls' \in [Slot -> XCall] /\ CallsFit'
    BY <1>0, <1>2, CallAnswered
<1>5. TTypeOK' /\ CmdFits' /\ RowsFit'
    BY <1>0, <1>1, <1>4 DEF TIndInv, TTypeOK, CmdFits, RowsFit, Created, owners
<1> QED
    BY <1>3, <1>4, <1>5 DEF TIndInv

(* RetireQueue closes the queue and deletes what it holds. *)
LEMMA RetireQueueStep ==
    ASSUME TIndInv, NEW s \in Slot, RetireQueue(s)
    PROVE  TIndInv' /\ Effect
<1> DEFINE q == xcalls[s].queue
<1>0. /\ UNCHANGED <<owners, deviceLimit, nextSeq, clock, quotaCmd, wakes, failures,
                     accepted, inbox>>
      /\ XReply(s) /\ msgs' = msgs \ MessagesOf(q)
      /\ queues' = [queues EXCEPT ![q].retired = 1]
    BY DEF RetireQueue, history
<1>1. q \in Queue /\ queues[q].owner # None
    BY DEF RetireQueue, XAt, TIndInv, CallsFit, CallFits
<1>2. queues \in [Queue -> QueueRow] /\ queues[q] \in QueueRow
    BY <1>1 DEF TIndInv, TTypeOK
<1>3. /\ queues'[q] \in QueueRow /\ queues'[q].retired = 1
      /\ queues'[q].owner = queues[q].owner /\ queues'[q].key = queues[q].key
      /\ \A x \in Queue : x # q => queues'[x] = queues[x]
      /\ queues' \in [Queue -> QueueRow]
    BY <1>0, <1>1, <1>2 DEF QueueRow
<1> HIDE DEF q
<1>4. QueuesKept
    BY <1>3 DEF QueuesKept
<1>5. RemovalStep
  <2>1. \A m \in msgs \ msgs' : m.queue = q
    BY <1>0 DEF MessagesOf
  <2> QED
    BY <1>3, <2>1 DEF RemovalStep
<1>6. Effect
    BY <1>0, <1>4, <1>5 DEF Effect, owners, TIndInv, TTypeOK
<1>7. xcalls' \in [Slot -> XCall] /\ CallsFit'
    BY <1>0, <1>4, CallAnswered
<1>8. TTypeOK' /\ CmdFits'
    BY <1>0, <1>3, <1>7 DEF TIndInv, TTypeOK, CmdFits, owners
<1>9. RowsFit'
    BY <1>0, <1>1, <1>3 DEF TIndInv, RowsFit, Created
<1> QED
    BY <1>6, <1>7, <1>8, <1>9 DEF TIndInv

(* SetQueueQuota changes a ceiling, and never to one below zero. *)
LEMMA SetQueueQuotaStep ==
    ASSUME TIndInv, NEW s \in Slot, SetQueueQuota(s)
    PROVE  TIndInv' /\ Effect
<1> DEFINE q == xcalls[s].queue
           n == xcalls[s].limit
<1>0. /\ UNCHANGED <<owners, deviceLimit, msgs, nextSeq, clock, quotaCmd, wakes, failures,
                     accepted, inbox>>
      /\ XReply(s)
      /\ queues' = IF QuotaChanges(s) THEN [queues EXCEPT ![q].limit = n] ELSE queues
    BY DEF SetQueueQuota, history
<1>1. q \in Queue /\ queues[q].owner # None
    BY DEF SetQueueQuota, XAt, TIndInv, CallsFit, CallFits
<1>2. queues \in [Queue -> QueueRow] /\ queues[q] \in QueueRow
    BY <1>1 DEF TIndInv, TTypeOK
<1>3. QuotaChanges(s) => n \in Limits
  <2>1. n \in Limits \cup {-1}
    BY DEF TIndInv, TTypeOK, XCall
  <2> QED
    BY <2>1 DEF QuotaChanges
<1> HIDE DEF n
<1>4. /\ queues' \in [Queue -> QueueRow]
      /\ \A x \in Queue : /\ queues'[x].owner = queues[x].owner
                           /\ queues'[x].key = queues[x].key
                           /\ queues'[x].retired = queues[x].retired
    BY <1>0, <1>1, <1>2, <1>3 DEF QueueRow
<1> HIDE DEF q
<1>5. QueuesKept
    BY <1>4 DEF QueuesKept
<1>6. Effect
    BY <1>0, <1>5 DEF Effect, RemovalStep, owners, TIndInv, TTypeOK
<1>7. xcalls' \in [Slot -> XCall] /\ CallsFit'
    BY <1>0, <1>5, CallAnswered
<1>8. TTypeOK' /\ CmdFits'
    BY <1>0, <1>4, <1>7 DEF TIndInv, TTypeOK, CmdFits, owners
<1>9. RowsFit'
  <2>1. \A m \in accepted : m.queue \in Queue
    BY DEF TIndInv, TTypeOK, Message
  <2> QED
    BY <1>0, <1>4, <2>1 DEF TIndInv, RowsFit, Created
<1> QED
    BY <1>6, <1>7, <1>8, <1>9 DEF TIndInv

-----------------------------------------------------------------------------
(* The other steps of the server *)

(* Pings end, the sweeper deletes what has expired, time passes. *)
LEMMA BackgroundStep ==
    ASSUME TIndInv, (\E d \in Device : WakeEnds(d)) \/ PurgeExpired \/ Tick
    PROVE  TIndInv' /\ Effect
<1>0. /\ UNCHANGED <<owners, deviceLimit, queues, nextSeq, xcalls, quotaCmd, failures,
                     accepted, inbox>>
      /\ msgs' \subseteq msgs /\ wakes' \subseteq wakes
    BY DEF WakeEnds, PurgeExpired, Tick, tables, history
<1>1. clock' \in 0..MaxTime /\ clock <= clock'
  <2>1. clock \in 0..MaxTime
    BY DEF TIndInv, TTypeOK
  <2> QED
    BY <2>1, BoundAssumption DEF WakeEnds, PurgeExpired, Tick
<1>2. QueuesKept
    BY <1>0, QueuesUntouched
<1>3. RemovalStep
    BY DEF WakeEnds, PurgeExpired, Tick, tables, RemovalStep
<1>4. Effect
    BY <1>0, <1>1, <1>2, <1>3 DEF Effect, owners
<1>5. CallsFit'
    BY <1>0, <1>2, CallsKept
<1>6. TTypeOK' /\ CmdFits' /\ RowsFit'
    BY <1>0, <1>1 DEF TIndInv, TTypeOK, CmdFits, RowsFit, Created, owners
<1> QED
    BY <1>4, <1>5, <1>6 DEF TIndInv

(* A crash loses the calls and the pings. *)
LEMMA XCrashStep ==
    ASSUME TIndInv, XCrash
    PROVE  TIndInv' /\ Effect
<1>1. /\ UNCHANGED <<owners, tables, clock, quotaCmd, history>>
      /\ wakes' \subseteq Device /\ failures' \in 0..MaxFailures
      /\ xcalls' = [s \in Slot |-> XIdle]
    BY BoundAssumption DEF XCrash, TIndInv, TTypeOK
<1>2. xcalls' \in [Slot -> XCall] /\ CallsFit'
    BY <1>1, IdleFits DEF CallsFit
<1> QED
    BY <1>1, <1>2, CallOnly

(* A step of a call, whichever it is. *)
LEMMA XCallStep ==
    ASSUME TIndInv, NEW s \in Slot, XCallNext(s)
    PROVE  TIndInv' /\ Effect
<1>1. CASE \/ \E d \in Device : AuthenticateOwner(s, d)
           \/ \E q \in Queue, k \in Key, n \in Sizes, ttl \in TTLs :
                  LookupSend(s, q, k, n, ttl)
           \/ \E q \in Queue, op \in RecipientOp :
                  \E ids \in AckIds(op), limit \in QuotaBytes(op) :
                      AuthorizeRecipient(s, q, op, ids, limit)
    BY <1>1, CallBegins
<1>2. CASE \/ BindLost(s) \/ WakeOwner(s) \/ WakeOwnerFails(s) \/ XAbort(s)
           \/ \E now \in xcalls[s].since..clock : QuotaExceeded(s, now)
    BY <1>2, CallEnds
<1>3. CASE \E q \in Queue : CreateQueue(s, q)
    BY <1>3, CreateQueueStep
<1>4. CASE BindSenderKey(s)
    BY <1>4, BindSenderKeyStep
<1>5. CASE \E now \in xcalls[s].since..clock : AppendMessage(s, now)
    BY <1>5, AppendMessageStep
<1>6. CASE DrainPurge(s) \/ DeleteMessages(s)
    BY <1>6, DeletionStep
<1>7. CASE \E received \in BOOLEAN : DrainSelect(s, received)
    BY <1>7, DrainSelectStep
<1>8. CASE RetireQueue(s)
    BY <1>8, RetireQueueStep
<1>9. CASE SetQueueQuota(s)
    BY <1>9, SetQueueQuotaStep
<1> QED
    BY <1>1, <1>2, <1>3, <1>4, <1>5, <1>6, <1>7, <1>8, <1>9 DEF XCallNext

(* Every step keeps the invariant and has no other effect than Effect. *)
LEMMA TNextStep ==
    ASSUME TIndInv, [TNext]_tvars
    PROVE  TIndInv' /\ Effect
<1>1. CASE UNCHANGED tvars
  <2>1. /\ UNCHANGED <<owners, tables, clock, quotaCmd, history>>
        /\ wakes' \subseteq Device /\ failures' \in 0..MaxFailures
        /\ xcalls' = xcalls
    BY <1>1 DEF tvars, TIndInv, TTypeOK
  <2>2. xcalls' \in [Slot -> XCall] /\ CallsFit'
    BY <2>1, CallsKept, QueuesUntouched DEF tables, history
  <2> QED
    BY <2>1, <2>2, CallOnly
<1>2. CASE OwnerNext
    BY <1>2, OwnerStep, RevokeOwnerStep DEF OwnerNext
<1>3. CASE ServerNext
  <2>1. CASE \E s \in Slot : XCallNext(s)
    BY <2>1, XCallStep
  <2>2. CASE \/ \E d \in Device, n \in Limits : QuotaCmdStart(d, n)
             \/ SetDeviceQuota \/ QuotaCmdPing \/ QuotaCmdDies
    BY <2>2, QuotaCmdStep
  <2>3. CASE (\E d \in Device : WakeEnds(d)) \/ PurgeExpired \/ Tick
    BY <2>3, BackgroundStep
  <2> QED
    BY <1>3, <2>1, <2>2, <2>3 DEF ServerNext
<1>4. CASE XCrash
    BY <1>4, XCrashStep
<1> QED
    BY <1>1, <1>2, <1>3, <1>4 DEF TNext

(* The invariant holds throughout. *)
LEMMA TIndInvHolds == TSpec => []TIndInv
<1>1. TIndInv /\ [TNext]_tvars => TIndInv'
    BY TNextStep
<1> QED
    BY <1>1, TInitIndInv, PTL DEF TSpec

(* Tables, calls and histories keep their types in every instance; no      *)
(* ceiling falls below zero although requests may ask for it.              *)
THEOREM TransportTypes == TSpec => []TTypeOK
<1>1. TIndInv => TTypeOK
    BY DEF TIndInv
<1> QED
    BY <1>1, TIndInvHolds, PTL

-----------------------------------------------------------------------------
(* Senders *)

(* In every instance, all that a queue ever accepts is signed with the one *)
(* key bound to it.  The binding is a conditional UPDATE, a send that lost *)
(* the race ends there, and no step frees a queue of its key.              *)
THEOREM OneSender == TSpec => []OneSenderPerQueue
<1>1. TInit => OneSenderPerQueue
    BY DEF TInit, OneSenderPerQueue
<1>2. ASSUME TIndInv, OneSenderPerQueue, [TNext]_tvars
      PROVE  OneSenderPerQueue'
  <2>1. Effect
    BY <1>2, TNextStep
  <2>2. \A m \in accepted : m.queue \in Queue /\ m.from \in Key /\ Created(m.queue)
    BY <1>2 DEF TIndInv, TTypeOK, Message, RowsFit
  <2> SUFFICES ASSUME NEW m \in accepted' PROVE queues'[m.queue].key = m.from
    BY DEF OneSenderPerQueue
  <2>3. CASE m \in accepted
    BY <1>2, <2>1, <2>2, <2>3, TransportNone DEF OneSenderPerQueue, Effect, QueuesKept
  <2>4. CASE m \notin accepted
    <3>1. PICK s \in Slot : /\ xcalls[s].pc = "append"
                            /\ xcalls[s].queue = m.queue /\ xcalls[s].key = m.from
        BY <2>1, <2>4 DEF Effect
    <3>2. /\ m.queue \in Queue /\ Created(m.queue) /\ m.from \in Key
          /\ queues[m.queue].key = m.from
        BY <1>2, <3>1 DEF TIndInv, CallsFit, CallFits, Created
    <3> QED
        BY <2>1, <3>2, TransportNone DEF Effect, QueuesKept
  <2> QED
    BY <2>3, <2>4
<1> QED
    BY <1>1, <1>2, TIndInvHolds, PTL DEF TSpec

-----------------------------------------------------------------------------
(* Messages *)

(* In every instance, a row of messages goes only when it has expired,     *)
(* when its queue is retired or when a call on its queue acknowledges it.  *)
THEOREM RowsGoForAReason == TSpec => RemovedForAReason
<1>1. TIndInv /\ [TNext]_tvars => [RemovalStep]_tvars
    BY TNextStep DEF Effect
<1> QED
    BY <1>1, TIndInvHolds, PTL DEF TSpec, RemovedForAReason

(* In every instance, an accepted message that is no longer stored was     *)
(* handed to its recipient, has expired, or its queue was retired: none of *)
(* the three is ever undone, since an id that was handed out stays handed  *)
(* out, the clock does not go back and a retired queue stays retired.      *)
THEOREM NoMessageLost == TSpec => []NothingLost
<1>1. TInit => NothingLost
    BY DEF TInit, NothingLost
<1>2. ASSUME TIndInv, NothingLost, [TNext]_tvars
      PROVE  NothingLost'
  <2>1. TIndInv' /\ Effect
    BY <1>2, TNextStep
  <2> SUFFICES ASSUME NEW m \in accepted' \ msgs'
               PROVE  m.seq \in inbox' \/ Expired(m)' \/ queues'[m.queue].retired = 1
    BY DEF NothingLost
  <2>2. m \in accepted
    BY <2>1 DEF Effect
  <2>3. /\ m \in Message /\ m.queue \in Queue /\ m.expires \in Nat /\ Created(m.queue)
        /\ clock \in Nat /\ clock' \in Nat
    BY <1>2, <2>1, <2>2 DEF TIndInv, TTypeOK, Message, RowsFit
  <2>4. Expired(m) => Expired(m)'
    BY <2>1, <2>3 DEF Expired, Effect
  <2>5. CASE m \notin msgs
    BY <1>2, <2>1, <2>2, <2>3, <2>4, <2>5 DEF NothingLost, Effect, QueuesKept
  <2>6. CASE m \in msgs
    <3>1. ASSUME NEW s \in Slot, XAt(s, "authorized", "ack"), m.seq \in xcalls[s].ids
          PROVE  m.seq \in inbox'
        BY <1>2, <2>1, <3>1 DEF XAt, TIndInv, CallsFit, CallFits, Effect
    <3> QED
        BY <2>1, <2>4, <2>6, <3>1 DEF Effect, RemovalStep
  <2> QED
    BY <2>5, <2>6
<1> QED
    BY <1>1, <1>2, TIndInvHolds, PTL DEF TSpec

-----------------------------------------------------------------------------
(* Closed queues *)

(* How a call gets where it can still write to a queue: the owner of a     *)
(* create was not revoked and the queue of a send not retired when they    *)
(* were looked up, and a send binds its key on the queue it looked up.     *)
LEMMA CallBecomes ==
    ASSUME TIndInv, [TNext]_tvars, NEW x \in Slot
    PROVE  \/ xcalls'[x] = xcalls[x]
           \/ xcalls'[x].pc \notin {"create", "bind", "append"}
           \/ /\ xcalls'[x].pc = "create" /\ xcalls'[x].owner \in Device
              /\ xcalls'[x].owner \notin gone /\ home[xcalls'[x].owner] # None
           \/ xcalls'[x].pc # "create" /\ queues[xcalls'[x].queue].retired = 0
           \/ /\ xcalls'[x].pc = "append" /\ xcalls[x].pc = "bind"
              /\ xcalls'[x].queue = xcalls[x].queue
<1> DEFINE P == \/ xcalls'[x] = xcalls[x]
                \/ xcalls'[x].pc \notin {"create", "bind", "append"}
                \/ /\ xcalls'[x].pc = "create" /\ xcalls'[x].owner \in Device
                   /\ xcalls'[x].owner \notin gone /\ home[xcalls'[x].owner] # None
                \/ xcalls'[x].pc # "create" /\ queues[xcalls'[x].queue].retired = 0
                \/ /\ xcalls'[x].pc = "append" /\ xcalls[x].pc = "bind"
                   /\ xcalls'[x].queue = xcalls[x].queue
<1>0. xcalls \in [Slot -> XCall] /\ xcalls[x] \in XCall /\ XIdle \in XCall
    BY IdleFits DEF TIndInv, TTypeOK
<1>1. xcalls' = xcalls => P
    OBVIOUS
<1>2. XCrash => P
    BY DEF XCrash, XIdle
<1>3. ASSUME NEW s \in Slot, XCallNext(s), s # x
      PROVE  xcalls'[x] = xcalls[x]
  <2>1. XReply(s) => xcalls'[x] = xcalls[x]
    BY <1>0, <1>3 DEF XReply
  <2>2. \A pc : XGoto(s, pc) => xcalls'[x] = xcalls[x]
    BY <1>0, <1>3 DEF XGoto
  <2>3. CASE \/ \E d \in Device : AuthenticateOwner(s, d)
             \/ \E q \in Queue, k \in Key, n \in Sizes, ttl \in TTLs :
                    LookupSend(s, q, k, n, ttl)
             \/ \E q \in Queue, op \in RecipientOp :
                    \E ids \in AckIds(op), limit \in QuotaBytes(op) :
                        AuthorizeRecipient(s, q, op, ids, limit)
    BY <1>0, <1>3, <2>3 DEF AuthenticateOwner, LookupSend, AuthorizeRecipient
  <2>4. CASE BindSenderKey(s) \/ DrainPurge(s)
             \/ \E now \in xcalls[s].since..clock : AppendMessage(s, now)
    BY <2>2, <2>4 DEF BindSenderKey, DrainPurge, AppendMessage
  <2> QED
    BY <1>3, <2>1, <2>3, <2>4 DEF XCallNext, CreateQueue, BindLost, QuotaExceeded,
       WakeOwner, WakeOwnerFails, DrainSelect, DeleteMessages, RetireQueue,
       SetQueueQuota, XAbort
<1>4. ASSUME XCallNext(x)
      PROVE  P
  <2>1. CASE XReply(x)
    BY <1>0, <2>1 DEF XReply, XIdle
  <2>2. CASE XGoto(x, "wake") \/ XGoto(x, "drain")
    BY <1>0, <2>2 DEF XGoto, XCall
  <2>3. CASE BindSenderKey(x)
    BY <1>0, <2>3 DEF BindSenderKey, XGoto, XCall
  <2>4. ASSUME NEW d \in Device, AuthenticateOwner(x, d)
        PROVE  P
    BY <1>0, <2>4 DEF AuthenticateOwner, XCall
  <2>5. ASSUME NEW q \in Queue, NEW k \in Key, NEW n \in Sizes, NEW ttl \in TTLs,
               LookupSend(x, q, k, n, ttl)
        PROVE  P
    <3>1. /\ xcalls'[x].pc = (IF queues[q].key = None THEN "bind" ELSE "append")
          /\ xcalls'[x].queue = q /\ queues[q].retired = 0
        BY <1>0, <2>5 DEF LookupSend
    <3> QED
        BY <3>1
  <2>6. ASSUME NEW q \in Queue, NEW op \in RecipientOp, NEW ids, NEW limit,
               AuthorizeRecipient(x, q, op, ids, limit)
        PROVE  P
    BY <1>0, <2>6 DEF AuthorizeRecipient, XCall
  <2> HIDE DEF P
  <2>7. CASE XGoto(x, "wake") \/ XGoto(x, "drain") \/ XReply(x)
    BY <2>1, <2>2, <2>7
  <2> QED
    BY <1>4, <2>3, <2>4, <2>5, <2>6, <2>7 DEF XCallNext, CreateQueue, BindLost,
       AppendMessage, QuotaExceeded, WakeOwner, WakeOwnerFails, DrainPurge, DrainSelect,
       DeleteMessages, RetireQueue, SetQueueQuota, XAbort
<1>5. OwnerNext \/ UNCHANGED tvars => xcalls' = xcalls
    BY DEF OwnerNext, OwnerEnrols, OwnerSetsPush, RevokeOwner, tvars
<1>6. ASSUME ServerNext
      PROVE  xcalls' = xcalls \/ \E s \in Slot : XCallNext(s)
    BY <1>6 DEF ServerNext, QuotaCmdStart, SetDeviceQuota, QuotaCmdPing, QuotaCmdDies,
       WakeEnds, PurgeExpired, Tick
<1>7. P
  <2> HIDE DEF P
  <2>1. (\E s \in Slot : XCallNext(s)) => P
    BY <1>3, <1>4 DEF P
  <2> QED
    BY <1>1, <1>2, <1>5, <1>6, <2>1 DEF TNext
<1> QED
    BY <1>7

(* A queue gets an owner only from a create that is past authentication. *)
LEMMA OwnerBecomes ==
    ASSUME TIndInv, [TNext]_tvars, NEW q \in Queue
    PROVE  \/ queues'[q].owner = queues[q].owner
           \/ \E s \in Slot : xcalls[s].pc = "create" /\ queues'[q].owner = xcalls[s].owner
<1>0. queues \in [Queue -> QueueRow]
    BY DEF TIndInv, TTypeOK
<1>1. ASSUME NEW s \in Slot, NEW p \in Queue, CreateQueue(s, p)
      PROVE  \/ queues'[q].owner = queues[q].owner
             \/ xcalls[s].pc = "create" /\ queues'[q].owner = xcalls[s].owner
    BY <1>0, <1>1 DEF CreateQueue, NoQueue
<1>2. ASSUME NEW s \in Slot, BindSenderKey(s) \/ RetireQueue(s) \/ SetQueueQuota(s)
      PROVE  queues'[q].owner = queues[q].owner
    BY <1>0, <1>2 DEF BindSenderKey, RetireQueue, SetQueueQuota, QueueRow
<1>3. ASSUME NEW d \in Device, RevokeOwner(d)
      PROVE  queues'[q].owner = queues[q].owner
    BY <1>0, <1>3 DEF RevokeOwner, QueueRow
<1>4. ASSUME NEW s \in Slot, XCallNext(s)
      PROVE  \/ queues' = queues
             \/ \E p \in Queue : CreateQueue(s, p)
             \/ BindSenderKey(s) \/ RetireQueue(s) \/ SetQueueQuota(s)
    BY <1>4 DEF XCallNext, AuthenticateOwner, LookupSend, BindLost, AppendMessage,
       QuotaExceeded, WakeOwner, WakeOwnerFails, AuthorizeRecipient, DrainPurge, DrainSelect,
       DeleteMessages, XAbort, tables
<1>5. ASSUME ServerNext
      PROVE  queues' = queues \/ \E s \in Slot : XCallNext(s)
    BY <1>5 DEF ServerNext, QuotaCmdStart, SetDeviceQuota, QuotaCmdPing, QuotaCmdDies,
       WakeEnds, PurgeExpired, Tick, tables
<1>6. ASSUME OwnerNext
      PROVE  queues' = queues \/ \E d \in Device : RevokeOwner(d)
    BY <1>6 DEF OwnerNext, OwnerEnrols, OwnerSetsPush, tables
<1>7. XCrash \/ UNCHANGED tvars => queues' = queues
    BY DEF XCrash, tvars, tables
<1> QED
    BY <1>1, <1>2, <1>3, <1>4, <1>5, <1>6, <1>7 DEF TNext

(* In every instance, a retired queue whose sends under way have ended     *)
(* holds no message ever again, and a revoked device whose creates under   *)
(* way have ended has no open queue ever again.                            *)
THEOREM ClosedForGood == TSpec => ClosedStaysClosed
<1>1. ASSUME TIndInv, [TNext]_tvars, NEW q \in Queue, Closed(q)
      PROVE  Closed(q)'
  <2>1. TIndInv' /\ Effect
    BY <1>1, TNextStep
  <2>2. queues'[q].retired = 1
    BY <1>1, <2>1 DEF Closed, TIndInv, RowsFit, Effect, QueuesKept
  <2>3. MessagesOf(q)' = {}
    BY <1>1, <2>1 DEF Closed, MessagesOf, Effect
  <2>4. ASSUME NEW s \in Slot, xcalls'[s].queue = q
        PROVE  xcalls'[s].pc \notin {"bind", "append"}
    <3>1. queues[q].retired # 0
        BY <1>1 DEF Closed
    <3>2. xcalls[s].queue = q => xcalls[s].pc \notin {"bind", "append"}
        BY <1>1 DEF Closed
    <3> QED
        BY <1>1, <2>4, <3>1, <3>2, CallBecomes
  <2> QED
    BY <2>2, <2>3, <2>4 DEF Closed
<1>2. ASSUME TIndInv, [TNext]_tvars, NEW d \in Device, Severed(d)
      PROVE  Severed(d)'
  <2>1. Effect
    BY <1>2, TNextStep
  <2>2. d \in gone'
    BY <1>2, <2>1 DEF Severed, Effect
  <2>3. ASSUME NEW q \in Queue, queues'[q].owner = d
        PROVE  queues'[q].retired = 1
    <3>1. queues[q].owner = d
        BY <1>2, <2>3, OwnerBecomes DEF Severed
    <3> QED
        BY <1>2, <2>1, <3>1, TransportNone DEF Severed, Effect, QueuesKept, Created
  <2>4. ASSUME NEW s \in Slot, xcalls'[s].owner = d
        PROVE  xcalls'[s].pc # "create"
    <3>1. d \in gone /\ (xcalls[s].owner = d => xcalls[s].pc # "create")
        BY <1>2 DEF Severed
    <3> QED
        BY <1>2, <2>4, <3>1, CallBecomes
  <2> QED
    BY <2>2, <2>3, <2>4 DEF Severed
<1>3. TIndInv /\ [TNext]_tvars => [ClosedStep]_tvars
    BY <1>1, <1>2 DEF ClosedStep
<1> QED
    BY <1>3, TIndInvHolds, PTL DEF TSpec, ClosedStaysClosed

-----------------------------------------------------------------------------
(* Sums of sizes *)

(* What Bytes is applied to. *)
Sized(M) == IsFiniteSet(M) /\ \A m \in M : m.size \in Nat

(* f sums up the sets in D the way MapThenSumSet does. *)
Pick(s) == CHOOSE x \in s : TRUE
SumsOn(f, D) == \A s \in D : f[s] = IF s = {} THEN 0 ELSE Pick(s).size + f[s \ {Pick(s)}]

LEMMA PickIn ==
    ASSUME NEW s, s # {}
    PROVE  Pick(s) \in s
  BY DEF Pick

(* A set of natural numbers has a least one. *)
LEMMA LeastOf ==
    ASSUME NEW T, T \subseteq Nat, T # {}
    PROVE  \E n \in T : \A k \in T : n <= k
  <1> DEFINE R == OpToRel(<, Nat)
  <1>1. IsWellFoundedOn(R, Nat)
    BY NatLessThanWellFounded
  <1>2. PICK n \in T : \A k \in T : ~(<<k, n>> \in R)
    <2> HIDE DEF R
    <2> QED BY <1>1, WFMin
  <1>3. \A k \in T : ~(k < n)
    BY <1>2 DEF OpToRel
  <1> QED BY <1>3

(* Induction over the subsets of a finite set, as a least counterexample. *)
LEMMA LeastSubset ==
    ASSUME NEW M, IsFiniteSet(M), NEW D, D \subseteq SUBSET M, D # {}
    PROVE  \E s \in D : \A x \in s : s \ {x} \notin D
  <1> DEFINE T == {Cardinality(s) : s \in D}
  <1>1. \A s \in D : IsFiniteSet(s) /\ Cardinality(s) \in Nat
    BY FS_Subset, FS_CardinalityType
  <1>2. T \subseteq Nat /\ T # {}
    BY <1>1
  <1>3. PICK n \in T : \A k \in T : n <= k
    <2> HIDE DEF T
    <2> QED BY <1>2, LeastOf
  <1>4. PICK s \in D : Cardinality(s) = n
    BY <1>3
  <1>5. ASSUME NEW x \in s, s \ {x} \in D
        PROVE  FALSE
    <2>1. Cardinality(s \ {x}) = Cardinality(s) - 1
      BY <1>1, FS_RemoveElement
    <2>2. n <= Cardinality(s \ {x})
      BY <1>3, <1>5
    <2> QED BY <1>1, <1>4, <2>1, <2>2
  <1> QED BY <1>5

(* There is one such sum, *)
LEMMA SumUnique ==
    ASSUME NEW M, IsFiniteSet(M), NEW f, NEW g,
           SumsOn(f, SUBSET M), SumsOn(g, SUBSET M)
    PROVE  f[M] = g[M]
  <1> DEFINE D == {s \in SUBSET M : f[s] # g[s]}
  <1> SUFFICES ASSUME D # {} PROVE FALSE
    OBVIOUS
  <1>1. PICK s \in D : \A x \in s : s \ {x} \notin D
    <2>1. D \subseteq SUBSET M
      OBVIOUS
    <2> HIDE DEF D
    <2> QED BY <2>1, LeastSubset
  <1>2. s # {}
    BY <1>1 DEF SumsOn
  <1>3. Pick(s) \in s /\ s \ {Pick(s)} \in SUBSET M
    BY <1>1, <1>2, PickIn
  <1>4. f[s \ {Pick(s)}] = g[s \ {Pick(s)}]
    BY <1>1, <1>3
  <1>5. f[s] = Pick(s).size + f[s \ {Pick(s)}] /\ g[s] = Pick(s).size + g[s \ {Pick(s)}]
    BY <1>1, <1>2 DEF SumsOn
  <1> QED BY <1>1, <1>4, <1>5

(* there is one at all, by adding the sets of one more element to those of *)
(* at most n,                                                              *)
LEMMA SumExists ==
    ASSUME NEW M, Sized(M)
    PROVE  \E f \in [SUBSET M -> Nat] : SumsOn(f, SUBSET M)
  <1> DEFINE UpTo(n) == {s \in SUBSET M : Cardinality(s) <= n}
             Good(n) == \E f \in [UpTo(n) -> Nat] : SumsOn(f, UpTo(n))
             T       == {n \in Nat : ~Good(n)}
  <1>1. \A s \in SUBSET M : /\ IsFiniteSet(s) /\ Cardinality(s) \in Nat
                            /\ Cardinality(s) <= Cardinality(M)
    BY FS_Subset, FS_CardinalityType DEF Sized
  <1>2. Good(0)
    <2>1. \A s \in UpTo(0) : s = {}
      BY <1>1, FS_EmptySet
    <2>2. SumsOn([s \in UpTo(0) |-> 0], UpTo(0))
      BY <2>1 DEF SumsOn
    <2> QED BY <2>2
  <1>3. ASSUME NEW n \in Nat, Good(n)
        PROVE  Good(n + 1)
    <2>1. PICK f \in [UpTo(n) -> Nat] : SumsOn(f, UpTo(n))
      BY <1>3
    <2> DEFINE g == [s \in UpTo(n + 1) |-> IF s \in UpTo(n) THEN f[s]
                                           ELSE Pick(s).size + f[s \ {Pick(s)}]]
    <2>2. UpTo(n) \subseteq UpTo(n + 1) /\ {} \in UpTo(n)
      BY <1>1, FS_EmptySet
    <2>3. ASSUME NEW s \in UpTo(n + 1), s # {}
          PROVE  Pick(s).size \in Nat /\ s \ {Pick(s)} \in UpTo(n)
      <3>1. Pick(s) \in s /\ s \ {Pick(s)} \in SUBSET M
        BY <2>3, PickIn
      <3>2. Cardinality(s \ {Pick(s)}) = Cardinality(s) - 1
        BY <1>1, <3>1, FS_RemoveElement
      <3>3. Cardinality(s) \in Nat /\ Cardinality(s) <= n + 1
        BY <1>1
      <3> QED BY <3>1, <3>2, <3>3 DEF Sized
    <2>4. ASSUME NEW s \in UpTo(n + 1)
          PROVE  g[s] \in Nat /\ g[s] = IF s = {} THEN 0 ELSE Pick(s).size + g[s \ {Pick(s)}]
      <3>1. CASE s = {}
        BY <2>1, <2>2, <3>1 DEF SumsOn
      <3>2. CASE s # {}
        <4>1. g[s \ {Pick(s)}] = f[s \ {Pick(s)}] /\ f[s \ {Pick(s)}] \in Nat
          BY <2>2, <2>3, <3>2
        <4>2. g[s] = Pick(s).size + f[s \ {Pick(s)}]
          BY <2>1, <2>2, <3>2 DEF SumsOn
        <4>3. Pick(s).size \in Nat
          BY <2>3, <3>2
        <4> HIDE DEF g
        <4> QED BY <3>2, <4>1, <4>2, <4>3
      <3> QED BY <3>1, <3>2
    <2>5. g \in [UpTo(n + 1) -> Nat]
      BY <2>4
    <2>6. SumsOn(g, UpTo(n + 1))
      <3> HIDE DEF g, UpTo
      <3> QED BY <2>4 DEF SumsOn
    <2> QED BY <2>5, <2>6
  <1>4. T = {}
    <2> SUFFICES ASSUME T # {} PROVE FALSE
      OBVIOUS
    <2>1. PICK n \in T : \A k \in T : n <= k
      <3>1. T \subseteq Nat
        OBVIOUS
      <3> HIDE DEF T
      <3> QED BY <3>1, LeastOf
    <2> HIDE DEF Good
    <2>2. n # 0
      BY <1>2, <2>1
    <2>3. n - 1 \in Nat /\ n - 1 \notin T
      BY <2>1, <2>2
    <2>4. Good((n - 1) + 1)
      BY <1>3, <2>3
    <2>5. (n - 1) + 1 = n
      BY <2>1
    <2> QED BY <2>1, <2>4, <2>5
  <1>5. Cardinality(M) \in Nat
    BY FS_CardinalityType DEF Sized
  <1>6. Good(Cardinality(M))
    <2> HIDE DEF Good
    <2> QED BY <1>4, <1>5
  <1>7. UpTo(Cardinality(M)) = SUBSET M
    BY <1>1
  <1> HIDE DEF UpTo
  <1> QED BY <1>6, <1>7

(* and it is Bytes. *)
LEMMA BytesValue ==
    ASSUME NEW M, Sized(M), NEW f, SumsOn(f, SUBSET M)
    PROVE  Bytes(M) = f[M]
  <1> DEFINE it == CHOOSE g : g = [s \in SUBSET M |-> IF s = {} THEN 0
                                                      ELSE Pick(s).size + g[s \ {Pick(s)}]]
  <1>1. \E g : g = [s \in SUBSET M |-> IF s = {} THEN 0 ELSE Pick(s).size + g[s \ {Pick(s)}]]
    <2>1. PICK g \in [SUBSET M -> Nat] : SumsOn(g, SUBSET M)
      BY SumExists
    <2>2. g = [s \in SUBSET M |-> IF s = {} THEN 0 ELSE Pick(s).size + g[s \ {Pick(s)}]]
      BY <2>1 DEF SumsOn
    <2> QED BY <2>2
  <1>2. it = [s \in SUBSET M |-> IF s = {} THEN 0 ELSE Pick(s).size + it[s \ {Pick(s)}]]
    BY <1>1
  <1>3. Bytes(M) = it[M]
    BY DEF Bytes, MapThenSumSet, MapThenFoldSet, Pick
  <1>4. SumsOn(it, SUBSET M)
    <2> HIDE DEF it
    <2> QED BY <1>2 DEF SumsOn
  <1>5. it[M] = f[M]
    <2> HIDE DEF it
    <2> QED BY <1>4, SumUnique DEF Sized
  <1> QED BY <1>3, <1>5

(* The order in which the elements are taken does not matter. *)
LEMMA SumOfRest ==
    ASSUME NEW M, Sized(M), NEW f \in [SUBSET M -> Nat], SumsOn(f, SUBSET M)
    PROVE  \A s \in SUBSET M : \A y \in s : f[s] = y.size + f[s \ {y}]
  <1> DEFINE Off(s) == \E y \in s : f[s] # y.size + f[s \ {y}]
             D      == {s \in SUBSET M : Off(s)}
  <1> SUFFICES ASSUME D # {} PROVE FALSE
    OBVIOUS
  <1>1. PICK s \in D : \A x \in s : s \ {x} \notin D
    <2>1. D \subseteq SUBSET M
      OBVIOUS
    <2> HIDE DEF D
    <2> QED BY <2>1, LeastSubset DEF Sized
  <1>2. PICK y \in s : f[s] # y.size + f[s \ {y}]
    BY <1>1
  <1>3. PICK x : x = Pick(s)
    OBVIOUS
  <1>4. x \in s /\ f[s] = x.size + f[s \ {x}] /\ s \in SUBSET M
    BY <1>1, <1>2, <1>3, PickIn DEF SumsOn
  <1>5. x # y
    BY <1>2, <1>4
  <1>6. s \ {x} \in SUBSET M /\ s \ {y} \in SUBSET M /\ y \in s \ {x} /\ x \in s \ {y}
    BY <1>2, <1>4, <1>5
  <1>7. f[s \ {x}] = y.size + f[(s \ {x}) \ {y}]
    BY <1>1, <1>4, <1>6
  <1>8. f[s \ {y}] = x.size + f[(s \ {y}) \ {x}]
    BY <1>1, <1>2, <1>6
  <1>9. (s \ {x}) \ {y} = (s \ {y}) \ {x} /\ (s \ {x}) \ {y} \in SUBSET M
    BY <1>4
  <1>10. PICK r \in Nat : r = f[(s \ {x}) \ {y}]
    BY <1>9
  <1>11. x.size \in Nat /\ y.size \in Nat
    BY <1>2, <1>4 DEF Sized
  <1>12. f[s] = x.size + (y.size + r)
    BY <1>4, <1>7, <1>10
  <1>13. f[s \ {y}] = x.size + r
    BY <1>8, <1>9, <1>10
  <1>14. x.size + (y.size + r) = y.size + (x.size + r)
    BY <1>11
  <1> QED BY <1>2, <1>12, <1>13, <1>14

LEMMA SizedSubset ==
    ASSUME NEW M, Sized(M), NEW N, N \subseteq M
    PROVE  Sized(N)
  BY FS_Subset DEF Sized

(* Taking in one more element adds its size. *)
LEMMA BytesAdd ==
    ASSUME NEW M, Sized(M), NEW m, m \notin M, m.size \in Nat
    PROVE  /\ Bytes(M) \in Nat
           /\ Bytes(M \cup {m}) = m.size + Bytes(M)
  <1> DEFINE U == M \cup {m}
  <1>1. Sized(U)
    BY FS_AddElement DEF Sized
  <1>2. M \in SUBSET U /\ U \in SUBSET U /\ m \in U /\ U \ {m} = M
    OBVIOUS
  <1> HIDE DEF U
  <1>3. PICK f \in [SUBSET U -> Nat] : SumsOn(f, SUBSET U)
    BY <1>1, SumExists
  <1>4. SumsOn(f, SUBSET M)
    BY <1>2, <1>3 DEF SumsOn
  <1>5. Bytes(U) = f[U] /\ Bytes(M) = f[M]
    BY <1>1, <1>3, <1>4, BytesValue
  <1>6. f[U] = m.size + f[U \ {m}]
    BY <1>1, <1>2, <1>3, SumOfRest
  <1> QED BY <1>2, <1>3, <1>5, <1>6 DEF U

(* Fewer elements have no more bytes. *)
LEMMA BytesMonotone ==
    ASSUME NEW M, Sized(M), NEW N, N \subseteq M
    PROVE  /\ Bytes(N) \in Nat /\ Bytes(M) \in Nat
           /\ Bytes(N) <= Bytes(M)
  <1>1. PICK f \in [SUBSET M -> Nat] : SumsOn(f, SUBSET M)
    BY SumExists
  <1>2. SumsOn(f, SUBSET N) /\ N \in SUBSET M /\ M \in SUBSET M
    BY <1>1 DEF SumsOn
  <1>3. Bytes(M) = f[M] /\ Bytes(N) = f[N]
    BY <1>1, <1>2, SizedSubset, BytesValue
  <1> DEFINE D == {s \in SUBSET M : N \subseteq s /\ ~(f[N] <= f[s])}
  <1>4. D = {}
    <2> SUFFICES ASSUME D # {} PROVE FALSE
      OBVIOUS
    <2>1. PICK s \in D : \A x \in s : s \ {x} \notin D
      <3>1. D \subseteq SUBSET M
        OBVIOUS
      <3> HIDE DEF D
      <3> QED BY <3>1, LeastSubset DEF Sized
    <2>2. s # N
      BY <1>1, <1>2, <2>1
    <2>3. PICK y \in s : y \notin N
      BY <2>1, <2>2
    <2>4. s \ {y} \in SUBSET M /\ N \subseteq s \ {y} /\ s \in SUBSET M
      BY <2>1, <2>3
    <2>5. f[N] <= f[s \ {y}]
      BY <2>1, <2>3, <2>4
    <2>6. f[s] = y.size + f[s \ {y}] /\ y.size \in Nat
      <3>1. y.size \in Nat
        BY <2>3, <2>4 DEF Sized
      <3> QED BY <1>1, <2>3, <2>4, <3>1, SumOfRest
    <2>7. f[N] \in Nat /\ f[s] \in Nat /\ f[s \ {y}] \in Nat
      BY <1>1, <1>2, <2>4
    <2> QED BY <2>1, <2>5, <2>6, <2>7
  <1> QED BY <1>1, <1>2, <1>3, <1>4

-----------------------------------------------------------------------------
(* Ceilings *)

(* What fitted under a ceiling at the time `now' fits with the new message *)
(* at any later time c.                                                    *)
LEMMA UnderCeiling ==
    ASSUME NEW M, Sized(M), NEW m, m \notin M, m.size \in Nat,
           NEW now \in Int, NEW c \in Int, now <= c,
           \A x \in M : x.expires \in Int,
           NEW limit \in Nat, limit # 0, FitsUnder(limit, M, now, m.size)
    PROVE  Bytes({x \in M \cup {m} : ~(x.expires <= c)}) <= limit
  <1> DEFINE L == {x \in M : x.expires > now}
             N == {x \in M \cup {m} : ~(x.expires <= c)}
  <1>1. Bytes(L) + m.size <= limit
    BY DEF FitsUnder
  <1>2. L \subseteq M /\ N \subseteq L \cup {m} /\ m \notin L
    OBVIOUS
  <1> HIDE DEF L, N
  <1>3. Sized(L) /\ Sized(L \cup {m})
    BY <1>2, SizedSubset, FS_AddElement DEF Sized
  <1>4. Bytes(L) \in Nat /\ Bytes(L \cup {m}) = m.size + Bytes(L)
    BY <1>2, <1>3, BytesAdd
  <1>5. Bytes(N) \in Nat /\ Bytes(N) <= Bytes(L \cup {m})
    BY <1>2, <1>3, BytesMonotone
  <1>6. Bytes(N) <= limit
    BY <1>1, <1>4, <1>5
  <1> QED BY <1>6 DEF N

(* The owner of a queue, and of a create under way, is registered in an    *)
(* account, so that the three ceilings of a queue exist.                   *)
OwnersHomed ==
    /\ \A q \in Queue : Created(q) => home[queues[q].owner] \in Account
    /\ \A s \in Slot : xcalls[s].pc = "create" => home[xcalls[s].owner] \in Account

CeilingInv == OwnersHomed /\ IsFiniteSet(msgs)

(* No device leaves its account. *)
LEMMA HomesKept ==
    ASSUME TIndInv, [TNext]_tvars
    PROVE  \A d \in Device : home[d] # None => home'[d] = home[d]
  <1>1. home \in [Device -> Account \cup {None}]
    BY DEF TIndInv, TTypeOK
  <1>2. ASSUME NEW s \in Slot, XCallNext(s)
        PROVE  home' = home
    BY <1>2 DEF XCallNext, AuthenticateOwner, CreateQueue, LookupSend, BindSenderKey, BindLost,
       AppendMessage, QuotaExceeded, WakeOwner, WakeOwnerFails, AuthorizeRecipient, DrainPurge,
       DrainSelect, DeleteMessages, RetireQueue, SetQueueQuota, XAbort, owners
  <1>3. ASSUME ServerNext \/ XCrash \/ UNCHANGED tvars
        PROVE  home' = home
    BY <1>2, <1>3 DEF ServerNext, QuotaCmdStart, SetDeviceQuota, QuotaCmdPing, QuotaCmdDies,
       WakeEnds, PurgeExpired, Tick, XCrash, tvars, owners
  <1>4. ASSUME OwnerNext
        PROVE  home' = home \/ \E d \in Device, a \in Account :
                   home[d] = None /\ home' = [home EXCEPT ![d] = a]
    BY <1>4 DEF OwnerNext, OwnerEnrols, OwnerSetsPush, RevokeOwner
  <1> QED BY <1>1, <1>3, <1>4 DEF TNext

(* Only AppendMessage adds a row. *)
LEMMA RowsCome ==
    ASSUME [TNext]_tvars
    PROVE  \/ msgs' \subseteq msgs
           \/ \E s \in Slot : \E now \in xcalls[s].since..clock : AppendMessage(s, now)
  <1>1. ASSUME NEW s \in Slot, XCallNext(s)
        PROVE  \/ msgs' \subseteq msgs
               \/ \E now \in xcalls[s].since..clock : AppendMessage(s, now)
    BY <1>1 DEF XCallNext, AuthenticateOwner, CreateQueue, LookupSend, BindSenderKey, BindLost,
       QuotaExceeded, WakeOwner, WakeOwnerFails, AuthorizeRecipient, DrainPurge, DrainSelect,
       DeleteMessages, RetireQueue, SetQueueQuota, XAbort, tables
  <1>2. ASSUME ServerNext
        PROVE  msgs' \subseteq msgs \/ \E s \in Slot : XCallNext(s)
    BY <1>2 DEF ServerNext, QuotaCmdStart, SetDeviceQuota, QuotaCmdPing, QuotaCmdDies,
       WakeEnds, PurgeExpired, Tick, tables
  <1>3. OwnerNext \/ XCrash \/ UNCHANGED tvars => msgs' \subseteq msgs
    BY DEF OwnerNext, OwnerEnrols, OwnerSetsPush, RevokeOwner, XCrash, tvars, tables
  <1> QED BY <1>1, <1>2, <1>3 DEF TNext

LEMMA CeilingInvHolds == TSpec => []CeilingInv
  <1>1. TInit => CeilingInv
    BY FS_EmptySet DEF TInit, CeilingInv, OwnersHomed, NoQueue, XIdle, Created
  <1>2. ASSUME TIndInv, TIndInv', CeilingInv, [TNext]_tvars
        PROVE  CeilingInv'
    <2>1. home' \in [Device -> Account \cup {None}]
      BY <1>2 DEF TIndInv, TTypeOK
    <2>2. \A d \in Device : home[d] # None => home'[d] = home[d] /\ home'[d] \in Account
      BY <1>2, <2>1, HomesKept
    <2>3. ASSUME NEW q \in Queue, queues'[q].owner # None
          PROVE  home'[queues'[q].owner] \in Account
      <3>1. PICK d : d = queues'[q].owner
        OBVIOUS
      <3>2. d \in Device
        BY <1>2, <2>3, <3>1 DEF TIndInv, TTypeOK, QueueRow
      <3>3. home[d] \in Account
        BY <1>2, <2>3, <3>1, OwnerBecomes DEF CeilingInv, OwnersHomed, Created
      <3> QED BY <2>2, <3>1, <3>2, <3>3, TransportNone
    <2>4. ASSUME NEW s \in Slot, xcalls'[s].pc = "create"
          PROVE  home'[xcalls'[s].owner] \in Account
      <3>1. PICK d : d = xcalls'[s].owner
        OBVIOUS
      <3>2. d \in Device
        BY <1>2, <2>4, <3>1 DEF TIndInv, CallsFit, CallFits
      <3>3. home[d] # None
        BY <1>2, <2>4, <3>1, CallBecomes, TransportNone DEF CeilingInv, OwnersHomed
      <3> QED BY <2>2, <3>1, <3>2, <3>3
    <2>5. OwnersHomed'
      BY <2>3, <2>4 DEF OwnersHomed, Created
    <2>6. IsFiniteSet(msgs')
      <3>1. CASE msgs' \subseteq msgs
        BY <1>2, <3>1, FS_Subset DEF CeilingInv
      <3>2. ASSUME NEW s \in Slot, NEW now, AppendMessage(s, now)
            PROVE  IsFiniteSet(msgs')
        <4>1. PICK m : msgs' = msgs \cup {m}
          BY <3>2 DEF AppendMessage
        <4> QED BY <1>2, <4>1, FS_AddElement DEF CeilingInv
      <3> QED BY <1>2, <3>1, <3>2, RowsCome
    <2> QED BY <2>5, <2>6 DEF CeilingInv
  <1> QED BY <1>1, <1>2, TIndInvHolds, PTL DEF TSpec

(* In every instance, a message is accepted only if the live bytes of its  *)
(* queue, of its device and of its account then stay within the ceilings   *)
(* that are set, landing exactly on one included.  AppendMessage compares  *)
(* with the live bytes at a time read before its transaction; the message  *)
(* that it adds is the only one added since, and rows only expire.         *)
THEOREM CeilingsKept == TSpec => CeilingsHold
  <1>1. ASSUME TIndInv, CeilingInv, TNext
        PROVE  CeilingStep
    <2> SUFFICES ASSUME NEW m \in msgs' \ msgs
                 PROVE  LET q == m.queue
                            d == queues[q].owner
                        IN  /\ queues[q].limit # 0
                                  => LiveBytes(MessagesOf(q))' <= queues[q].limit
                            /\ deviceLimit[d] # 0
                                  => LiveBytes(DeviceMessages(d))' <= deviceLimit[d]
                            /\ AccountLimit[home[d]] # 0
                                  => LiveBytes(AccountMessages(home[d]))'
                                         <= AccountLimit[home[d]]
      BY DEF CeilingStep
    <2>1. PICK s \in Slot : \E now \in xcalls[s].since..clock : AppendMessage(s, now)
      BY <1>1, RowsCome
    <2>2. PICK now \in xcalls[s].since..clock : AppendMessage(s, now)
      BY <2>1
    <2>3. /\ msgs' = msgs \cup {m} /\ m.queue = xcalls[s].queue /\ m.size = xcalls[s].size
          /\ xcalls[s].pc = "append" /\ Fits(s, now)
          /\ UNCHANGED <<queues, clock, home, deviceLimit>>
      BY <2>2 DEF AppendMessage, owners
    <2>4. PICK q, d, n : q = m.queue /\ d = queues[q].owner /\ n = m.size
      OBVIOUS
    <2>5. /\ q \in Queue /\ d \in Device /\ home[d] \in Account /\ n \in Nat
          /\ queues[q].limit \in Nat /\ deviceLimit[d] \in Nat /\ AccountLimit[home[d]] \in Nat
      <3>1. q \in Queue /\ Created(q) /\ n \in Sizes
        BY <1>1, <2>3, <2>4 DEF TIndInv, CallsFit, CallFits, Created
      <3>2. d \in Device /\ queues[q].limit \in Limits /\ deviceLimit \in [Device -> Limits]
        BY <1>1, <2>4, <3>1 DEF TIndInv, TTypeOK, QueueRow, Created
      <3>3. home[d] \in Account
        BY <1>1, <2>4, <3>1 DEF CeilingInv, OwnersHomed
      <3> QED BY <3>1, <3>2, <3>3, LimitAssumption, MessageAssumption
    <2>6. clock \in Int /\ now \in Int /\ now <= clock
      <3>1. clock \in 0..MaxTime /\ xcalls[s] \in XCall
        BY <1>1 DEF TIndInv, TTypeOK
      <3>2. xcalls[s].since \in 0..MaxTime
        BY <3>1 DEF XCall
      <3> QED BY <3>1, <3>2, BoundAssumption
    <2>7. Sized(msgs) /\ \A x \in msgs : x.expires \in Int
      <3>1. IsFiniteSet(msgs) /\ msgs \subseteq Message
        BY <1>1 DEF CeilingInv, TIndInv, TTypeOK
      <3>2. \A x \in Message : x.size \in Sizes /\ x.expires \in Nat
        BY DEF Message
      <3>3. ASSUME NEW x \in msgs
            PROVE  x.size \in Nat /\ x.expires \in Int
        <4>1. x.size \in Sizes /\ x.expires \in Nat
          BY <3>1, <3>2
        <4>2. x.size \in Nat
          BY <4>1, MessageAssumption
        <4>3. x.expires \in Int
          BY <4>1
        <4> QED BY <4>2, <4>3
      <3> QED BY <3>1, <3>3 DEF Sized
    <2>8. ASSUME NEW M, M \subseteq msgs, NEW limit \in Nat, limit # 0,
                 FitsUnder(limit, M, now, n)
          PROVE  Bytes({x \in M \cup {m} : ~(x.expires <= clock)}) <= limit
      <3>1. Sized(M) /\ m \notin M /\ \A x \in M : x.expires \in Int
        BY <2>7, <2>8, SizedSubset
      <3>2. PICK c \in Int : c = clock
        BY <2>6
      <3>3. Bytes({x \in M \cup {m} : ~(x.expires <= c)}) <= limit
        BY <2>4, <2>5, <2>6, <2>8, <3>1, <3>2, UnderCeiling
      <3> QED BY <3>2, <3>3
    <2>9. /\ FitsUnder(queues[q].limit, MessagesOf(q), now, n)
          /\ FitsUnder(deviceLimit[d], DeviceMessages(d), now, n)
          /\ FitsUnder(AccountLimit[home[d]], AccountMessages(home[d]), now, n)
      BY <2>3, <2>4 DEF Fits
    <2>10. queues[q].limit # 0 =>
               Bytes({x \in {y \in msgs' : y.queue = q} : ~(x.expires <= clock')})
                   <= queues[q].limit
      <3>1. {x \in {y \in msgs' : y.queue = q} : ~(x.expires <= clock')}
                = {x \in MessagesOf(q) \cup {m} : ~(x.expires <= clock)}
        BY <2>3, <2>4 DEF MessagesOf
      <3>2. PICK M, l : M = MessagesOf(q) /\ l = queues[q].limit
        OBVIOUS
      <3>3. l # 0 => Bytes({x \in M \cup {m} : ~(x.expires <= clock)}) <= l
        BY <2>5, <2>8, <2>9, <3>2 DEF MessagesOf
      <3> QED BY <3>1, <3>2, <3>3
    <2>11. deviceLimit[d] # 0 =>
               Bytes({x \in {y \in msgs' : queues'[y.queue].owner = d} : ~(x.expires <= clock')})
                   <= deviceLimit[d]
      <3>1. {x \in {y \in msgs' : queues'[y.queue].owner = d} : ~(x.expires <= clock')}
                = {x \in DeviceMessages(d) \cup {m} : ~(x.expires <= clock)}
        BY <2>3, <2>4 DEF DeviceMessages
      <3>2. PICK M, l : M = DeviceMessages(d) /\ l = deviceLimit[d]
        OBVIOUS
      <3>3. l # 0 => Bytes({x \in M \cup {m} : ~(x.expires <= clock)}) <= l
        BY <2>5, <2>8, <2>9, <3>2 DEF DeviceMessages
      <3> QED BY <3>1, <3>2, <3>3
    <2>12. AccountLimit[home[d]] # 0 =>
               Bytes({x \in {y \in msgs' : home'[queues'[y.queue].owner] = home'[d]} :
                          ~(x.expires <= clock')})
                   <= AccountLimit[home[d]]
      <3>1. {x \in {y \in msgs' : home'[queues'[y.queue].owner] = home'[d]} :
                 ~(x.expires <= clock')}
                = {x \in AccountMessages(home[d]) \cup {m} : ~(x.expires <= clock)}
        BY <2>3, <2>4 DEF AccountMessages
      <3>2. PICK M, l : M = AccountMessages(home[d]) /\ l = AccountLimit[home[d]]
        OBVIOUS
      <3>3. l # 0 => Bytes({x \in M \cup {m} : ~(x.expires <= clock)}) <= l
        BY <2>5, <2>8, <2>9, <3>2 DEF AccountMessages
      <3> QED BY <3>1, <3>2, <3>3
    <2>13. queues'[q].owner = d
      BY <2>3, <2>4
    <2> QED BY <2>4, <2>10, <2>11, <2>12, <2>13 DEF LiveBytes, MessagesOf, DeviceMessages,
               AccountMessages, Expired
  <1>2. TIndInv /\ CeilingInv /\ [TNext]_tvars => [CeilingStep]_tvars
    BY <1>1
  <1> QED BY <1>2, TIndInvHolds, CeilingInvHolds, PTL DEF TSpec, CeilingsHold
==============================================================================
