--------------------------- MODULE MailboxProofs ---------------------------
(***************************************************************************)
(* What the two ends of a queue may rely on, for any number of bodies,     *)
(* messages, faults and ticks, and for integers of any width: the TTL      *)
(* arithmetic, the refinement of AtLeastOnce, and the order in which       *)
(* confirmed bodies are handled.                                           *)
(***************************************************************************)
EXTENDS Mailbox, TLAPS

-----------------------------------------------------------------------------
(* Integer division and the wrap of machine integers *)

LEMMA Division ==
    ASSUME NEW a \in Int, NEW s \in Nat \ {0}
    PROVE  /\ a \div s \in Int
           /\ s * (a \div s) <= a
           /\ a < s * (a \div s) + s
  OBVIOUS

LEMMA DivisionUnique ==
    ASSUME NEW a \in Int, NEW s \in Nat \ {0}, NEW q \in Int,
           s * q <= a, a < s * q + s
    PROVE  a \div s = q
  BY Division

LEMMA DivisionMonotone ==
    ASSUME NEW a \in Int, NEW b \in Int, NEW s \in Nat \ {0}, a <= b
    PROVE  a \div s <= b \div s
  OBVIOUS

(* A multiple of s. *)
LEMMA DivisionExact ==
    ASSUME NEW a \in Int, NEW s \in Nat \ {0}, a % s = 0
    PROVE  a = s * (a \div s)
  OBVIOUS

LEMMA ConstantsAreInts ==
    /\ Second \in Nat \ {0} /\ DefaultTTL \in Nat \ {0}
    /\ MaxTTL \in Nat \ {0} /\ MaxInt \in Nat \ {0}
    /\ DefaultTTL <= MaxTTL /\ MaxTTL <= MaxInt
    /\ DefaultTTL % Second = 0 /\ MaxTTL % Second = 0
  BY TTLAssumption

LEMMA WrapInt ==
    ASSUME NEW n \in Int
    PROVE  Wrap(n) \in Int
  BY ConstantsAreInts DEF Wrap

(* What fits is left as it is. *)
LEMMA WrapFits ==
    ASSUME NEW n \in 0..MaxInt
    PROVE  Wrap(n) = n
  <1>1. n + MaxInt + 1 \in 0..(2 * (MaxInt + 1) - 1) /\ 2 * (MaxInt + 1) \in Nat \ {0}
    BY ConstantsAreInts
  <1>2. (n + MaxInt + 1) % (2 * (MaxInt + 1)) = n + MaxInt + 1
    BY <1>1
  <1> QED BY <1>2, ConstantsAreInts DEF Wrap

LEMMA ClampBounded ==
    ASSUME NEW seconds \in Int
    PROVE  /\ ClampMessageTTL(seconds) \in Int
           /\ ClampMessageTTL(seconds) <= MaxTTL
           /\ seconds <= 0 => ClampMessageTTL(seconds) = DefaultTTL
  <1>1. seconds * Second \in Int
    BY ConstantsAreInts
  <1>2. Wrap(seconds * Second) \in Int
    BY <1>1, WrapInt
  <1> QED BY <1>2, ConstantsAreInts DEF ClampMessageTTL

(* As long as the product fits the clamp is what it is meant to be. *)
LEMMA ClampFits ==
    ASSUME NEW seconds \in Int, seconds > 0, seconds * Second <= MaxInt
    PROVE  ClampMessageTTL(seconds) =
               IF seconds * Second > MaxTTL THEN MaxTTL ELSE seconds * Second
  <1>1. seconds * Second \in 0..MaxInt
    BY ConstantsAreInts
  <1>2. Wrap(seconds * Second) = seconds * Second
    BY <1>1, WrapFits
  <1> QED BY <1>2 DEF ClampMessageTTL

(* ClientSeconds truncates towards zero. *)
LEMMA ClientSecondsOf ==
    ASSUME NEW ttl \in Int
    PROVE  /\ ClientSeconds(ttl) \in Int
           /\ ttl < Second => ClientSeconds(ttl) <= 0
           /\ ttl >= Second => /\ ClientSeconds(ttl) = ttl \div Second
                               /\ ClientSeconds(ttl) > 0
                               /\ ClientSeconds(ttl) * Second <= ttl
                               /\ ttl < ClientSeconds(ttl) * Second + Second
  <1> DEFINE q == ttl \div Second
             p == (-ttl) \div Second
  <1>1. Second \in Nat \ {0} /\ -ttl \in Int
    BY ConstantsAreInts
  <1>2. q \in Int /\ Second * q <= ttl /\ ttl < Second * q + Second
    BY <1>1, Division
  <1>3. p \in Int /\ Second * p <= -ttl /\ -ttl < Second * p + Second
    BY <1>1, Division
  <1>4. ClientSeconds(ttl) = IF ttl >= 0 THEN q ELSE -p
    BY DEF ClientSeconds
  <1> HIDE DEF q, p
  <1>5. ttl >= 0 /\ ttl < Second => q = 0
    BY <1>1, <1>2
  <1>6. ttl < 0 => p >= 0
    BY <1>1, <1>3
  <1>7. ttl >= Second => q > 0
    BY <1>1, <1>2
  <1>8. q * Second = Second * q
    BY <1>1, <1>2
  <1> QED BY <1>1, <1>2, <1>3, <1>4, <1>5, <1>6, <1>7, <1>8 DEF q

(* The life of a message, in seconds. *)
LEMMA LifeBounded ==
    ASSUME NEW seconds \in Int
    PROVE  /\ ClampMessageTTL(seconds) \div Second \in Int
           /\ ClampMessageTTL(seconds) \div Second <= MaxTTL \div Second
  BY ClampBounded, DivisionMonotone, Division, ConstantsAreInts

LEMMA LifePositive ==
    ASSUME NEW seconds \in Int, seconds <= MaxInt \div Second
    PROVE  ClampMessageTTL(seconds) \div Second > 0
  <1> DEFINE d == ClampMessageTTL(seconds)
             q == d \div Second
  <1>1. d \in Int /\ (seconds <= 0 => d = DefaultTTL)
    BY ClampBounded
  <1>2. q \in Int /\ d < Second * q + Second
    BY <1>1, Division, ConstantsAreInts
  <1>3. d >= Second
    <2>1. DefaultTTL >= Second /\ MaxTTL >= Second
      <3>1. \A a \in Nat \ {0} : a % Second = 0 => a >= Second
        BY ConstantsAreInts
      <3> QED BY <3>1, ConstantsAreInts
    <2>2. CASE seconds <= 0
      BY <1>1, <2>1, <2>2
    <2>3. CASE seconds > 0
      <3>1. Second * (MaxInt \div Second) <= MaxInt /\ MaxInt \div Second \in Int
        BY Division, ConstantsAreInts
      <3>2. seconds * Second <= Second * (MaxInt \div Second)
        BY <2>3, <3>1, ConstantsAreInts
      <3>3. seconds * Second <= MaxInt /\ seconds * Second >= Second
        BY <2>3, <3>1, <3>2, ConstantsAreInts
      <3>4. d = IF seconds * Second > MaxTTL THEN MaxTTL ELSE seconds * Second
        BY <2>3, <3>3, ClampFits
      <3> QED BY <2>1, <3>3, <3>4
    <2> QED BY <2>2, <2>3
  <1>4. q > 0
    <2> HIDE DEF d, q
    <2> QED BY <1>1, <1>2, <1>3, ConstantsAreInts
  <1> QED BY <1>4

LEMMA LifeAsAsked ==
    ASSUME NEW ttl \in MachineInt
    PROVE  LET life == ClampMessageTTL(ClientSeconds(ttl)) \div Second
           IN  /\ ttl < Second => life = DefaultTTL \div Second
               /\ ttl >= Second /\ ttl <= MaxTTL => life = ttl \div Second
               /\ ttl > MaxTTL => life = MaxTTL \div Second
  <1> DEFINE s == ClientSeconds(ttl)
             d == ClampMessageTTL(s)
  <1>1. ttl \in Int /\ ttl <= MaxInt /\ Second \in Nat \ {0}
    BY ConstantsAreInts DEF MachineInt
  <1>2. s \in Int /\ (ttl < Second => s <= 0)
    BY <1>1, ClientSecondsOf
  <1>3. CASE ttl < Second
    <2>1. d = DefaultTTL
      BY <1>2, <1>3, ClampBounded
    <2>2. MaxTTL >= Second
      BY ConstantsAreInts
    <2> QED BY <1>1, <1>3, <2>1, <2>2, ConstantsAreInts
  <1>4. CASE ttl >= Second
    <2>1. s = ttl \div Second /\ s > 0 /\ s * Second <= ttl /\ ttl < s * Second + Second
      BY <1>1, <1>4, ClientSecondsOf
    <2>2. s * Second \in Int /\ s * Second <= MaxInt
      <3> HIDE DEF s
      <3> QED BY <1>1, <1>2, <2>1, ConstantsAreInts
    <2>3. d = IF s * Second > MaxTTL THEN MaxTTL ELSE s * Second
      BY <1>2, <2>1, <2>2, ClampFits
    <2>4. CASE ttl <= MaxTTL
      <3>1. d = s * Second
        <4> HIDE DEF s, d
        <4> QED BY <1>1, <1>2, <2>1, <2>2, <2>3, <2>4, ConstantsAreInts
      <3>2. s * Second = Second * s
        <4> HIDE DEF s
        <4> QED BY <1>1, <1>2
      <3>3. d \div Second = s
        <4> HIDE DEF s, d
        <4> QED BY <1>1, <1>2, <3>1, <3>2, DivisionUnique
      <3> QED BY <1>1, <1>4, <2>1, <2>4, <3>3, ConstantsAreInts
    <2>5. CASE ttl > MaxTTL
      <3> DEFINE t == MaxTTL \div Second
      <3>1. t \in Int /\ MaxTTL = Second * t
        BY ConstantsAreInts, Division, DivisionExact
      <3>2. t <= s
        BY <1>1, <2>1, <2>5, DivisionMonotone, ConstantsAreInts
      <3>3. s * Second >= MaxTTL
        <4> HIDE DEF s, t
        <4> QED BY <1>1, <1>2, <3>1, <3>2
      <3>4. d = MaxTTL
        <4> HIDE DEF s, d, t
        <4> QED BY <1>1, <1>2, <2>2, <2>3, <3>3, ConstantsAreInts
      <3> QED BY <1>1, <1>4, <2>5, <3>4, ConstantsAreInts
    <2> QED BY <1>1, <2>4, <2>5, ConstantsAreInts
  <1> QED BY <1>1, <1>3, <1>4, ConstantsAreInts

-----------------------------------------------------------------------------
(* The inductive invariant *)

SendRequest == [op : {"send"}, nonce : Nat, body : Nat, seconds : Int]
AckRequest  == [op : {"ack"}, nonce : Nat, ids : SUBSET handled]

(* The types.  A batch, and what a request to acknowledge names, are       *)
(* messages that were stored; what is acknowledged late was handled.       *)
MTypeOK ==
    /\ clock \in Nat
    /\ stored \in Seq([body : Nat, expires : Int])
    /\ kept \in SUBSET (1..Len(stored))
    /\ handled \in SUBSET (1..Len(stored))
    /\ sender \in [pc : {"idle", "request", "response"}, body : Nat, seconds : Int]
    /\ consumer \in [pc : {"idle", "recv", "drained", "handling", "ack", "acked"},
                     batch : SUBSET (1..Len(stored)), todo : SUBSET (1..Len(stored))]
    /\ late \in SUBSET (SendRequest \cup AckRequest)
    /\ faults \in Nat
    /\ confirmed \in SUBSET Nat

(* Nothing goes missing, and the handled messages leave no gap that still  *)
(* lives.                                                                  *)
NoGaps ==
    /\ \A n \in 1..Len(stored) : n \in kept \cup handled \cup Lapsed
    /\ \A n \in handled : \A k \in 1..(n - 1) : k \in handled \cup Lapsed

(* What the receiving program has got: with a message it has every earlier *)
(* one that is not done with, and what is no longer to do was handled.     *)
BatchFits ==
    /\ consumer.pc \in {"idle", "recv", "drained"} => consumer.todo = {}
    /\ consumer.pc \in {"handling", "ack", "acked"} => Dealt \subseteq handled
    /\ consumer.todo \subseteq consumer.batch
    /\ \A n \in consumer.batch : \A k \in 1..(n - 1) :
           k \in consumer.batch \cup handled \cup Lapsed

(* No body is stored before its turn: a late request carries a body that   *)
(* the sender has reached, and a confirmed body was stored before any that *)
(* comes after it.                                                         *)
BodiesFit ==
    /\ \A n \in 1..Len(stored) : stored[n].body <= sender.body
    /\ \A q \in late : q.op = "send" => q.body <= sender.body
    /\ sender.pc = "response" => Copies(sender.body) # {}
    /\ \A b \in confirmed : b < sender.body /\ Copies(b) # {}
    /\ \A b \in confirmed : \A n \in 1..Len(stored) :
           stored[n].body > b => \E k \in 1..(n - 1) : stored[k].body = b

MIndInv == MTypeOK /\ NoGaps /\ BatchFits /\ BodiesFit

LEMMA InitMIndInv == MInit => MIndInv
  <1> SUFFICES ASSUME MInit PROVE MIndInv
    OBVIOUS
  <1>1. Len(stored) = 0 /\ 1..Len(stored) = {}
    BY DEF MInit
  <1>2. MTypeOK
    BY <1>1 DEF MInit, MTypeOK, SenderIdle, ConsumerIdle
  <1>3. NoGaps /\ BatchFits /\ BodiesFit
    BY <1>1 DEF MInit, NoGaps, BatchFits, BodiesFit, SenderIdle, ConsumerIdle, Dealt
  <1> QED BY <1>2, <1>3 DEF MIndInv


-----------------------------------------------------------------------------
(* Storing a message: a request that is served, in time or late *)

LEMMA SentSecondsAreInts == SentSeconds \subseteq Int
  <1>1. MachineInt \subseteq Int
    BY ConstantsAreInts DEF MachineInt
  <1>2. \A ttl \in Durations : ClientSeconds(ttl) \in Int
    BY <1>1, MailboxAssumption, ClientSecondsOf
  <1> QED BY <1>1, <1>2, MailboxAssumption DEF SentSeconds

LEMMA StoredBodies ==
    ASSUME MTypeOK
    PROVE  \A n \in 1..Len(stored) : stored[n].body \in Nat
  <1> SUFFICES ASSUME NEW n \in 1..Len(stored) PROVE stored[n].body \in Nat
    OBVIOUS
  <1> DEFINE Row == [body : Nat, expires : Int]
  <1>1. stored \in Seq(Row)
    BY DEF MTypeOK
  <1>2. stored[n] \in Row
    <2> HIDE DEF Row
    <2> QED BY <1>1
  <1> QED BY <1>2

LEMMA StoreEffect ==
    ASSUME MTypeOK, NEW body \in Nat, NEW seconds \in Int,
           StoreMessage(body, seconds), clock' = clock
    PROVE  /\ stored' \in Seq([body : Nat, expires : Int])
           /\ Len(stored) \in Nat
           /\ Len(stored') = Len(stored) + 1
           /\ \A n \in 1..Len(stored) : stored'[n] = stored[n]
           /\ stored'[Len(stored) + 1].body = body
           /\ kept' = kept \cup {Len(stored) + 1}
           /\ Lapsed \subseteq Lapsed'
           /\ Lapsed' \in {Lapsed, Lapsed \cup {Len(stored) + 1}}
  <1> DEFINE row == [body |-> body, expires |-> ExpiresAt(seconds)]
             Row == [body : Nat, expires : Int]
  <1>1. row \in Row
    <2>1. ExpiresAt(seconds) \in Int
      BY LifeBounded DEF ExpiresAt, MTypeOK
    <2> QED BY <2>1
  <1>2. stored \in Seq(Row) /\ stored' = Append(stored, row) /\ kept' = kept \cup {Len(stored')}
    BY DEF MTypeOK, StoreMessage
  <1>3. row.body = body
    OBVIOUS
  <1> HIDE DEF row
  <1>4. /\ stored' \in Seq(Row)
        /\ Len(stored) \in Nat
        /\ Len(stored') = Len(stored) + 1
        /\ \A n \in 1..Len(stored) : stored'[n] = stored[n]
        /\ stored'[Len(stored) + 1] = row
    BY <1>1, <1>2
  <1>5. \A n \in 1..Len(stored) : n \in Lapsed' <=> n \in Lapsed
    BY <1>4 DEF Lapsed
  <1>6. Lapsed \subseteq 1..Len(stored) /\ Lapsed' \subseteq 1..Len(stored')
    BY DEF Lapsed
  <1>7. 1..Len(stored') = (1..Len(stored)) \cup {Len(stored) + 1}
    BY <1>4
  <1>8. Lapsed' \in {Lapsed, Lapsed \cup {Len(stored) + 1}}
    <2> HIDE DEF Row
    <2> QED BY <1>5, <1>6, <1>7
  <1> QED BY <1>2, <1>3, <1>4, <1>5, <1>6, <1>8

LEMMA StoreKeepsNoGaps ==
    ASSUME MIndInv, NEW body \in Nat, NEW seconds \in Int,
           StoreMessage(body, seconds), UNCHANGED <<clock, handled, consumer>>
    PROVE  NoGaps' /\ BatchFits'
  <1>1. /\ Len(stored) \in Nat
        /\ Len(stored') = Len(stored) + 1
        /\ kept' = kept \cup {Len(stored) + 1}
        /\ Lapsed \subseteq Lapsed'
    BY StoreEffect DEF MIndInv
  <1>2. 1..Len(stored') = (1..Len(stored)) \cup {Len(stored) + 1}
    BY <1>1
  <1>3. NoGaps'
    BY <1>1, <1>2 DEF MIndInv, NoGaps
  <1>4. BatchFits'
    BY <1>1 DEF MIndInv, BatchFits, Dealt
  <1> QED BY <1>3, <1>4

LEMMA StoreKeepsBodies ==
    ASSUME MIndInv, NEW body \in Nat, NEW seconds \in Int, body <= sender.body,
           StoreMessage(body, seconds), UNCHANGED <<clock, confirmed>>,
           late' \subseteq late, sender'.body = sender.body,
           sender'.pc = "response" => sender.pc = "response" \/ body = sender.body
    PROVE  BodiesFit'
  <1>1. /\ Len(stored) \in Nat
        /\ Len(stored') = Len(stored) + 1
        /\ \A n \in 1..Len(stored) : stored'[n] = stored[n]
        /\ stored'[Len(stored) + 1].body = body
    BY StoreEffect DEF MIndInv
  <1>2. 1..Len(stored') = (1..Len(stored)) \cup {Len(stored) + 1}
    BY <1>1
  <1>3. \A b \in Nat : Copies(b) \subseteq Copies(b)' /\ (b = body => Len(stored) + 1 \in Copies(b)')
    BY <1>1, <1>2 DEF Copies
  <1>4. sender.body \in Nat /\ confirmed \subseteq Nat
    BY DEF MIndInv, MTypeOK
  <1>5. \A n \in 1..Len(stored') : stored'[n].body <= sender'.body
    BY <1>1, <1>2 DEF MIndInv, BodiesFit
  <1>6. \A q \in late' : q.op = "send" => q.body <= sender'.body
    BY DEF MIndInv, BodiesFit
  <1>7. sender'.pc = "response" => Copies(sender.body)' # {}
    BY <1>1, <1>2, <1>4 DEF MIndInv, BodiesFit, Copies
  <1>8. \A b \in confirmed' : b < sender'.body /\ Copies(b)' # {}
    BY <1>3, <1>4 DEF MIndInv, BodiesFit
  <1>9. ASSUME NEW b \in confirmed', NEW n \in 1..Len(stored'), stored'[n].body > b
        PROVE  \E k \in 1..(n - 1) : stored'[k].body = b
    <2>1. CASE n \in 1..Len(stored)
      <3>1. PICK k \in 1..(n - 1) : stored[k].body = b
        BY <1>1, <1>9, <2>1 DEF MIndInv, BodiesFit
      <3>2. k \in 1..Len(stored)
        BY <1>1, <2>1
      <3> QED BY <1>1, <3>1, <3>2
    <2>2. CASE n = Len(stored) + 1
      <3>1. PICK k \in 1..Len(stored) : stored[k].body = b
        BY DEF MIndInv, BodiesFit, Copies
      <3>2. 1..(n - 1) = 1..Len(stored)
        BY <1>1, <2>2
      <3> QED BY <1>1, <3>1, <3>2
    <2> QED BY <1>2, <2>1, <2>2
  <1> QED BY <1>5, <1>6, <1>7, <1>8, <1>9 DEF BodiesFit, Copies


-----------------------------------------------------------------------------
(* The steps that change little: only the sender, only the consumer *)

(* Nothing that the consumer's part of the invariant reads. *)
LEMMA RelayStands ==
    ASSUME MIndInv, UNCHANGED <<clock, stored, kept, handled, consumer>>
    PROVE  NoGaps' /\ BatchFits'
  <1>1. Lapsed' = Lapsed
    BY DEF Lapsed
  <1> QED BY <1>1 DEF MIndInv, NoGaps, BatchFits, Dealt

(* Nothing that the sender's part of the invariant reads. *)
LEMMA SenderStands ==
    ASSUME MIndInv, UNCHANGED <<stored, sender, confirmed>>,
           \A q \in late' : q \in late \/ q.op = "ack"
    PROVE  BodiesFit'
  <1>1. \A b : Copies(b)' = Copies(b)
    BY DEF Copies
  <1> QED BY <1>1 DEF MIndInv, BodiesFit, Copies

(* The consumer starts over; what has been dealt with stays handled. *)
LEMMA ConsumerStartsOver ==
    ASSUME MIndInv, UNCHANGED <<clock, stored, kept, handled>>,
           \/ consumer' = ConsumerIdle
           \/ consumer' = [ConsumerIdle EXCEPT !.pc = "recv"]
    PROVE  /\ NoGaps' /\ BatchFits'
           /\ consumer' \in [pc : {"idle", "recv", "drained", "handling", "ack", "acked"},
                             batch : SUBSET (1..Len(stored)), todo : SUBSET (1..Len(stored))]
  <1>1. Lapsed' = Lapsed
    BY DEF Lapsed
  <1>2. consumer'.batch = {} /\ consumer'.todo = {} /\ consumer'.pc \in {"idle", "recv"}
    BY DEF ConsumerIdle
  <1>3. NoGaps'
    BY <1>1 DEF MIndInv, NoGaps
  <1>4. BatchFits'
    BY <1>2 DEF BatchFits
  <1> QED BY <1>3, <1>4 DEF ConsumerIdle

LEMMA CallSendKeeps ==
    ASSUME MIndInv, NEW seconds \in SentSeconds, CallSend(seconds)
    PROVE  MIndInv'
  <1>1. seconds \in Int
    BY SentSecondsAreInts
  <1>2. MTypeOK'
    BY <1>1 DEF MIndInv, MTypeOK, CallSend, AckRequest
  <1>3. NoGaps' /\ BatchFits'
    BY RelayStands DEF CallSend
  <1>4. sender'.body = sender.body /\ sender'.pc = "request"
    BY DEF CallSend, MIndInv, MTypeOK
  <1>5. BodiesFit'
    BY <1>4 DEF MIndInv, BodiesFit, CallSend, Copies
  <1> QED BY <1>2, <1>3, <1>5 DEF MIndInv

LEMMA ServeSendKeeps ==
    ASSUME MIndInv, ServeSend
    PROVE  MIndInv'
  <1>1. sender.body \in Nat /\ sender.seconds \in Int
    BY DEF MIndInv, MTypeOK
  <1>2. StoreMessage(sender.body, sender.seconds) /\ clock' = clock
    BY DEF ServeSend
  <1>3. PICK b, s : b = sender.body /\ s = sender.seconds
    OBVIOUS
  <1>4. StoreMessage(b, s) /\ b \in Nat /\ s \in Int
    BY <1>1, <1>2, <1>3 DEF StoreMessage, ExpiresAt
  <1>5. sender'.body = sender.body
    BY DEF ServeSend, MIndInv, MTypeOK
  <1>6. NoGaps' /\ BatchFits'
    BY <1>4, StoreKeepsNoGaps DEF ServeSend
  <1>7. BodiesFit'
    BY <1>1, <1>3, <1>4, <1>5, StoreKeepsBodies DEF ServeSend
  <1>8. MTypeOK'
    <2>1. /\ stored' \in Seq([body : Nat, expires : Int])
          /\ Len(stored) \in Nat
          /\ Len(stored') = Len(stored) + 1
          /\ kept' = kept \cup {Len(stored) + 1}
      BY <1>2, <1>4, StoreEffect DEF MIndInv
    <2>2. 1..Len(stored') = (1..Len(stored)) \cup {Len(stored) + 1}
      BY <2>1
    <2> QED BY <2>1, <2>2 DEF MIndInv, MTypeOK, ServeSend, AckRequest
  <1> QED BY <1>6, <1>7, <1>8 DEF MIndInv

LEMMA SendReturnsKeeps ==
    ASSUME MIndInv, SendReturns
    PROVE  MIndInv'
  <1>1. /\ sender.body \in Nat
        /\ sender' = [pc |-> "idle", body |-> sender.body + 1, seconds |-> 0]
        /\ sender.pc = "response"
        /\ confirmed' = confirmed \cup {sender.body}
    BY DEF SendReturns, SenderIdle, MIndInv, MTypeOK
  <1>2. MTypeOK'
    <2>1. sender' \in [pc : {"idle", "request", "response"}, body : Nat, seconds : Int]
      BY <1>1
    <2>2. confirmed' \in SUBSET Nat
      BY <1>1 DEF MIndInv, MTypeOK
    <2> QED BY <2>1, <2>2 DEF MIndInv, MTypeOK, SendReturns, AckRequest
  <1>3. NoGaps' /\ BatchFits'
    BY RelayStands DEF SendReturns
  <1>4. BodiesFit'
    <2>1. stored' = stored /\ late' = late
      BY DEF SendReturns
    <2>2. \A b : Copies(b)' = Copies(b)
      BY <2>1 DEF Copies
    <2>3. \A n \in 1..Len(stored) : stored[n].body \in Nat
      BY StoredBodies DEF MIndInv
    <2>4. \A q \in late : q.op = "send" => q.body \in Nat
      BY DEF MIndInv, MTypeOK, SendRequest, AckRequest
    <2>5. \A n \in 1..Len(stored') : stored'[n].body <= sender'.body
      BY <1>1, <2>1, <2>3 DEF MIndInv, BodiesFit
    <2>6. \A q \in late' : q.op = "send" => q.body <= sender'.body
      BY <1>1, <2>1, <2>4 DEF MIndInv, BodiesFit
    <2>7. \A b \in confirmed' : b < sender'.body /\ Copies(b)' # {}
      BY <1>1, <2>2 DEF MIndInv, BodiesFit, MTypeOK
    <2>8. \A b \in confirmed' : \A n \in 1..Len(stored') :
              stored'[n].body > b => \E k \in 1..(n - 1) : stored'[k].body = b
      BY <1>1, <2>1, <2>3 DEF MIndInv, BodiesFit
    <2> QED BY <1>1, <2>5, <2>6, <2>7, <2>8 DEF BodiesFit, Copies
  <1> QED BY <1>2, <1>3, <1>4 DEF MIndInv

LEMMA SendFailsKeeps ==
    ASSUME MIndInv, SendFails
    PROVE  MIndInv'
  <1>1. PICK b \in {sender.body, sender.body + 1} :
            sender' = [pc |-> "idle", body |-> b, seconds |-> 0]
    BY DEF SendFails, SenderIdle
  <1>2. sender.body \in Nat /\ sender.seconds \in Int /\ b \in Nat /\ sender.body <= b
    BY <1>1 DEF MIndInv, MTypeOK
  <1>3. sender'.body = b /\ sender'.pc = "idle"
    BY <1>1
  <1>4. \A q \in late' : \/ q \in late
                         \/ q = [op |-> "send", nonce |-> faults,
                                 body |-> sender.body, seconds |-> sender.seconds]
    BY DEF SendFails
  <1>5. MTypeOK'
    <2>1. late' \subseteq SendRequest \cup AckRequest
      BY <1>2, <1>4 DEF MIndInv, MTypeOK, SendRequest
    <2>2. AckRequest' = AckRequest
      BY DEF AckRequest, SendFails
    <2> QED BY <1>1, <1>2, <2>1, <2>2 DEF MIndInv, MTypeOK, SendFails, Fault
  <1>6. NoGaps' /\ BatchFits'
    BY RelayStands DEF SendFails
  <1>7. BodiesFit'
    <2>1. stored' = stored /\ confirmed' = confirmed
      BY DEF SendFails
    <2>2. \A n \in 1..Len(stored) : stored[n].body \in Nat
      BY StoredBodies DEF MIndInv
    <2>3. \A n \in 1..Len(stored') : stored'[n].body <= sender'.body
      BY <1>2, <1>3, <2>1, <2>2 DEF MIndInv, BodiesFit
    <2>4. \A q \in late' : q.op = "send" => q.body <= sender'.body
      <3>1. \A q \in late : q.op = "send" => q.body \in Nat /\ q.body <= sender.body
        BY DEF MIndInv, MTypeOK, SendRequest, AckRequest, BodiesFit
      <3> QED BY <1>2, <1>3, <1>4, <3>1
    <2>5. \A c \in confirmed' : c < sender'.body /\ Copies(c)' # {}
      <3>1. \A c \in confirmed : c \in Nat /\ c < sender.body /\ Copies(c) # {}
        BY DEF MIndInv, MTypeOK, BodiesFit
      <3>2. \A c : Copies(c)' = Copies(c)
        BY <2>1 DEF Copies
      <3> QED BY <1>2, <1>3, <2>1, <3>1, <3>2
    <2> QED BY <1>3, <2>1, <2>3, <2>4, <2>5 DEF MIndInv, BodiesFit, Copies
  <1> QED BY <1>5, <1>6, <1>7 DEF MIndInv


-----------------------------------------------------------------------------
(* The receiving program *)

LEMMA CallRecvKeeps ==
    ASSUME MIndInv, CallRecv \/ AckReturns
    PROVE  MIndInv'
  <1>1. /\ NoGaps' /\ BatchFits'
        /\ consumer' \in [pc : {"idle", "recv", "drained", "handling", "ack", "acked"},
                          batch : SUBSET (1..Len(stored)), todo : SUBSET (1..Len(stored))]
    BY ConsumerStartsOver DEF CallRecv, AckReturns
  <1>2. BodiesFit'
    BY SenderStands DEF CallRecv, AckReturns
  <1>3. MTypeOK'
    BY <1>1 DEF MIndInv, MTypeOK, CallRecv, AckReturns, AckRequest
  <1> QED BY <1>1, <1>2, <1>3 DEF MIndInv

(* Whatever has been stored before a message of the batch is in the batch, *)
(* was acknowledged after it had been handled, or is purged here.          *)
LEMMA ServeRecvKeeps ==
    ASSUME MIndInv, ServeRecv
    PROVE  MIndInv'
  <1>1. /\ kept' = kept \ Lapsed /\ consumer.todo = {}
        /\ consumer'.pc = "drained" /\ consumer'.batch = kept' /\ consumer'.todo = {}
    BY DEF MIndInv, MTypeOK, BatchFits, ServeRecv
  <1>2. kept' \subseteq 1..Len(stored) /\ Len(stored) \in Nat
    <2>1. kept \subseteq 1..Len(stored)
      BY DEF MIndInv, MTypeOK
    <2>2. Len(stored) \in Nat
      <3> DEFINE Row == [body : Nat, expires : Int]
      <3>1. stored \in Seq(Row)
        BY DEF MIndInv, MTypeOK
      <3> HIDE DEF Row
      <3> QED BY <3>1
    <2> QED BY <1>1, <2>1, <2>2
  <1>3. Lapsed' = Lapsed
    BY DEF Lapsed, ServeRecv
  <1>4. NoGaps'
    BY <1>1, <1>3 DEF MIndInv, NoGaps, ServeRecv
  <1>5. BatchFits'
    <2>1. ASSUME NEW n \in kept', NEW k \in 1..(n - 1)
          PROVE  k \in kept' \cup handled \cup Lapsed
      <3>1. k \in 1..Len(stored)
        BY <1>2
      <3> QED BY <1>1, <3>1 DEF MIndInv, NoGaps
    <2>2. handled' = handled
      BY DEF ServeRecv
    <2> QED BY <1>1, <1>3, <2>1, <2>2 DEF BatchFits
  <1>6. BodiesFit'
    BY SenderStands DEF ServeRecv
  <1>7. MTypeOK'
    BY <1>2 DEF MIndInv, MTypeOK, ServeRecv, AckRequest
  <1> QED BY <1>4, <1>5, <1>6, <1>7 DEF MIndInv

LEMMA RecvReturnsKeeps ==
    ASSUME MIndInv, RecvReturns
    PROVE  MIndInv'
  <1>1. BodiesFit'
    BY SenderStands DEF RecvReturns
  <1>2. CASE consumer' = ConsumerIdle
    <2>1. /\ NoGaps' /\ BatchFits'
          /\ consumer' \in [pc : {"idle", "recv", "drained", "handling", "ack", "acked"},
                            batch : SUBSET (1..Len(stored)), todo : SUBSET (1..Len(stored))]
      BY <1>2, ConsumerStartsOver DEF RecvReturns
    <2>2. MTypeOK'
      BY <2>1 DEF MIndInv, MTypeOK, RecvReturns, AckRequest
    <2> QED BY <1>1, <2>1, <2>2 DEF MIndInv
  <1>3. CASE consumer' = [consumer EXCEPT !.pc = "handling", !.todo = consumer.batch]
    <2>1. /\ consumer'.pc = "handling" /\ consumer'.batch = consumer.batch
          /\ consumer'.todo = consumer.batch
      BY <1>3 DEF MIndInv, MTypeOK
    <2>2. Lapsed' = Lapsed
      BY DEF Lapsed, RecvReturns
    <2>3. NoGaps'
      BY <2>2 DEF MIndInv, NoGaps, RecvReturns
    <2>4. BatchFits'
      BY <2>1, <2>2 DEF MIndInv, BatchFits, Dealt, RecvReturns
    <2>5. MTypeOK'
      BY <1>3 DEF MIndInv, MTypeOK, RecvReturns, AckRequest
    <2> QED BY <1>1, <2>3, <2>4, <2>5 DEF MIndInv
  <1> QED BY <1>2, <1>3 DEF RecvReturns

(* The oldest message of what is left to do: every earlier one has been    *)
(* handled, or has lapsed.                                                 *)
LEMMA HandleInTurn ==
    ASSUME MIndInv, consumer.pc = "handling", NEW n \in FirstOf(consumer.todo)
    PROVE  /\ n \in 1..Len(stored)
           /\ \A k \in 1..(n - 1) : k \in handled \cup Lapsed
  <1>1. n \in consumer.todo /\ n \in consumer.batch /\ n \in 1..Len(stored)
    BY DEF FirstOf, MIndInv, MTypeOK, BatchFits
  <1>2. ASSUME NEW k \in 1..(n - 1)
        PROVE  k \in handled \cup Lapsed
    <2>1. k \in consumer.batch \cup handled \cup Lapsed
      BY <1>1 DEF MIndInv, BatchFits
    <2>2. k < n
      BY <1>1
    <2>3. k \notin consumer.todo
      BY <1>1, <2>2 DEF FirstOf
    <2>4. Dealt \subseteq handled
      BY DEF MIndInv, BatchFits
    <2> QED BY <2>1, <2>3, <2>4 DEF Dealt
  <1> QED BY <1>1, <1>2

LEMMA HandleKeeps ==
    ASSUME MIndInv, Handle
    PROVE  MIndInv'
  <1>1. PICK n \in FirstOf(consumer.todo) :
            /\ handled' = handled \cup {n}
            /\ consumer' = [consumer EXCEPT !.todo = @ \ {n}]
    BY DEF Handle
  <1>2. consumer.pc = "handling"
    BY DEF Handle
  <1>3. n \in 1..Len(stored) /\ \A k \in 1..(n - 1) : k \in handled \cup Lapsed
    BY <1>2, HandleInTurn
  <1>4. /\ consumer'.pc = "handling" /\ consumer'.batch = consumer.batch
        /\ consumer'.todo = consumer.todo \ {n}
    BY <1>1, <1>2 DEF MIndInv, MTypeOK
  <1>5. Lapsed' = Lapsed
    BY DEF Lapsed, Handle
  <1>6. NoGaps'
    BY <1>1, <1>3, <1>5 DEF MIndInv, NoGaps, Handle
  <1>7. BatchFits'
    BY <1>1, <1>2, <1>4, <1>5 DEF MIndInv, BatchFits, Dealt
  <1>8. BodiesFit'
    BY SenderStands DEF Handle
  <1>9. MTypeOK'
    <2>1. AckRequest \subseteq AckRequest'
      BY <1>1 DEF AckRequest
    <2> QED BY <1>1, <1>3, <2>1 DEF MIndInv, MTypeOK, Handle
  <1> QED BY <1>6, <1>7, <1>8, <1>9 DEF MIndInv

LEMMA CallAckKeeps ==
    ASSUME MIndInv, CallAck
    PROVE  MIndInv'
  <1>1. /\ consumer.pc = "handling" /\ consumer'.pc = "ack"
        /\ consumer'.batch = consumer.batch /\ consumer'.todo = consumer.todo
    BY DEF MIndInv, MTypeOK, CallAck
  <1>2. Lapsed' = Lapsed
    BY DEF Lapsed, CallAck
  <1>3. NoGaps'
    BY <1>2 DEF MIndInv, NoGaps, CallAck
  <1>4. BatchFits'
    BY <1>1, <1>2 DEF MIndInv, BatchFits, Dealt, CallAck
  <1>5. BodiesFit'
    BY SenderStands DEF CallAck
  <1>6. MTypeOK'
    BY DEF MIndInv, MTypeOK, CallAck, AckRequest
  <1> QED BY <1>3, <1>4, <1>5, <1>6 DEF MIndInv

LEMMA ServeAckKeeps ==
    ASSUME MIndInv, ServeAck
    PROVE  MIndInv'
  <1>1. /\ consumer.pc = "ack" /\ consumer'.pc = "acked"
        /\ consumer'.batch = consumer.batch /\ consumer'.todo = consumer.todo
        /\ kept' = kept \ Dealt
    BY DEF MIndInv, MTypeOK, ServeAck, DeleteMessages
  <1>2. Lapsed' = Lapsed
    BY DEF Lapsed, ServeAck
  <1>3. Dealt \subseteq handled
    BY <1>1 DEF MIndInv, BatchFits
  <1>4. NoGaps'
    BY <1>1, <1>2, <1>3 DEF MIndInv, NoGaps, ServeAck
  <1>5. BatchFits'
    BY <1>1, <1>2 DEF MIndInv, BatchFits, Dealt, ServeAck
  <1>6. BodiesFit'
    BY SenderStands DEF ServeAck
  <1>7. MTypeOK'
    BY <1>1 DEF MIndInv, MTypeOK, ServeAck, AckRequest
  <1> QED BY <1>4, <1>5, <1>6, <1>7 DEF MIndInv

LEMMA ConsumerFailsKeeps ==
    ASSUME MIndInv, ConsumerFails
    PROVE  MIndInv'
  <1>1. /\ NoGaps' /\ BatchFits'
        /\ consumer' \in [pc : {"idle", "recv", "drained", "handling", "ack", "acked"},
                          batch : SUBSET (1..Len(stored)), todo : SUBSET (1..Len(stored))]
    BY ConsumerStartsOver DEF ConsumerFails
  <1>2. \A q \in late' : q \in late \/ (consumer.pc = "ack" /\ q = [op |-> "ack", nonce |-> faults, ids |-> Dealt])
    BY DEF ConsumerFails
  <1>3. consumer.pc = "ack" => Dealt \subseteq handled
    BY DEF MIndInv, BatchFits
  <1>4. BodiesFit'
    BY <1>2, SenderStands DEF ConsumerFails
  <1>5. MTypeOK'
    <2>1. late' \subseteq SendRequest \cup AckRequest
      BY <1>2, <1>3 DEF MIndInv, MTypeOK, AckRequest
    <2>2. AckRequest' = AckRequest
      BY DEF AckRequest, ConsumerFails
    <2> QED BY <1>1, <2>1, <2>2 DEF MIndInv, MTypeOK, ConsumerFails, Fault
  <1> QED BY <1>1, <1>4, <1>5 DEF MIndInv


-----------------------------------------------------------------------------
(* The relay by itself *)

LEMMA LateSend ==
    ASSUME MIndInv, NEW q \in late, q.op = "send"
    PROVE  q.body \in Nat /\ q.seconds \in Int /\ q.body <= sender.body
  BY DEF MIndInv, MTypeOK, BodiesFit, SendRequest, AckRequest

LEMMA LateAck ==
    ASSUME MIndInv, NEW q \in late, q.op = "ack"
    PROVE  q.ids \subseteq handled
  BY DEF MIndInv, MTypeOK, SendRequest, AckRequest

LEMMA ServeLateKeeps ==
    ASSUME MIndInv, NEW q \in late, ServeLate(q)
    PROVE  MIndInv'
  <1>1. late' \subseteq late /\ UNCHANGED <<clock, sender, consumer, handled, confirmed, faults>>
    BY DEF ServeLate
  <1>2. CASE q.op = "send" /\ StoreMessage(q.body, q.seconds)
    <2>1. q.body \in Nat /\ q.seconds \in Int /\ q.body <= sender.body
      BY <1>2, LateSend
    <2>2. NoGaps' /\ BatchFits'
      BY <1>1, <1>2, <2>1, StoreKeepsNoGaps
    <2>3. BodiesFit'
      BY <1>1, <1>2, <2>1, StoreKeepsBodies
    <2>4. /\ stored' \in Seq([body : Nat, expires : Int])
          /\ Len(stored) \in Nat
          /\ Len(stored') = Len(stored) + 1
          /\ kept' = kept \cup {Len(stored) + 1}
      BY <1>1, <1>2, <2>1, StoreEffect DEF MIndInv
    <2>5. 1..Len(stored') = (1..Len(stored)) \cup {Len(stored) + 1}
      BY <2>4
    <2>6. MTypeOK'
      BY <1>1, <2>4, <2>5 DEF MIndInv, MTypeOK, AckRequest
    <2> QED BY <2>2, <2>3, <2>6 DEF MIndInv
  <1>3. CASE q.op = "ack" /\ DeleteMessages(q.ids) /\ stored' = stored
    <2>1. kept' = kept \ q.ids /\ q.ids \subseteq handled
      BY <1>3, LateAck DEF DeleteMessages
    <2>2. Lapsed' = Lapsed
      BY <1>1, <1>3 DEF Lapsed
    <2>3. NoGaps'
      BY <1>1, <1>3, <2>1, <2>2 DEF MIndInv, NoGaps
    <2>4. BatchFits'
      BY <1>1, <1>3, <2>2 DEF MIndInv, BatchFits, Dealt
    <2>5. BodiesFit'
      BY <1>1, <1>3, SenderStands
    <2>6. MTypeOK'
      BY <1>1, <1>3, <2>1 DEF MIndInv, MTypeOK, AckRequest
    <2> QED BY <2>3, <2>4, <2>5, <2>6 DEF MIndInv
  <1> QED BY <1>2, <1>3 DEF ServeLate

LEMMA SweepKeeps ==
    ASSUME MIndInv, Sweep
    PROVE  MIndInv'
  <1>1. Lapsed' = Lapsed
    BY DEF Lapsed, Sweep
  <1>2. NoGaps'
    BY <1>1 DEF MIndInv, NoGaps, Sweep
  <1>3. BatchFits'
    BY <1>1 DEF MIndInv, BatchFits, Dealt, Sweep
  <1>4. BodiesFit'
    BY SenderStands DEF Sweep
  <1>5. MTypeOK'
    BY DEF MIndInv, MTypeOK, Sweep, AckRequest
  <1> QED BY <1>2, <1>3, <1>4, <1>5 DEF MIndInv

LEMMA StoredExpires ==
    ASSUME MTypeOK
    PROVE  \A n \in 1..Len(stored) : stored[n].expires \in Int
  <1> SUFFICES ASSUME NEW n \in 1..Len(stored) PROVE stored[n].expires \in Int
    OBVIOUS
  <1> DEFINE Row == [body : Nat, expires : Int]
  <1>1. stored \in Seq(Row)
    BY DEF MTypeOK
  <1>2. stored[n] \in Row
    <2> HIDE DEF Row
    <2> QED BY <1>1
  <1> QED BY <1>2

LEMMA TickLapses ==
    ASSUME MTypeOK, Tick
    PROVE  Lapsed \subseteq Lapsed' /\ Lapsed' \subseteq 1..Len(stored)
  <1>1. clock \in Int /\ clock' = clock + 1 /\ stored' = stored
    BY DEF MTypeOK, Tick
  <1> QED BY <1>1, StoredExpires DEF Lapsed

LEMMA TickKeeps ==
    ASSUME MIndInv, Tick
    PROVE  MIndInv'
  <1>1. Lapsed \subseteq Lapsed'
    BY TickLapses DEF MIndInv
  <1>2. NoGaps'
    BY <1>1 DEF MIndInv, NoGaps, Tick
  <1>3. BatchFits'
    BY <1>1 DEF MIndInv, BatchFits, Dealt, Tick
  <1>4. BodiesFit'
    BY SenderStands DEF Tick
  <1>5. MTypeOK'
    BY DEF MIndInv, MTypeOK, Tick, AckRequest
  <1> QED BY <1>2, <1>3, <1>4, <1>5 DEF MIndInv

LEMMA NextMIndInv == MIndInv /\ [MNext]_mvars => MIndInv'
  <1> SUFFICES ASSUME MIndInv, [MNext]_mvars PROVE MIndInv'
    OBVIOUS
  <1>1. CASE UNCHANGED mvars
    <2>1. NoGaps' /\ BatchFits' /\ BodiesFit'
      BY <1>1, RelayStands, SenderStands DEF mvars
    <2>2. MTypeOK'
      BY <1>1 DEF mvars, MIndInv, MTypeOK, AckRequest
    <2> QED BY <2>1, <2>2 DEF MIndInv
  <1>2. CASE MNext
    BY <1>2, CallSendKeeps, ServeSendKeeps, SendReturnsKeeps, SendFailsKeeps, CallRecvKeeps,
       ServeRecvKeeps, RecvReturnsKeeps, HandleKeeps, CallAckKeeps, ServeAckKeeps,
       ConsumerFailsKeeps, ServeLateKeeps, SweepKeeps, TickKeeps DEF MNext
  <1> QED BY <1>1, <1>2

(* The inductive invariant holds throughout: the types, no message missing *)
(* that nobody handled, batches without holes, and no body stored before   *)
(* its turn, across failed calls and requests served late.                 *)
THEOREM MIndInvHolds == MSpec => []MIndInv
  <1> QED BY InitMIndInv, NextMIndInv, PTL DEF MSpec


-----------------------------------------------------------------------------
(* The properties *)

(* The TTL arithmetic, for integers of any width and any lengths of a      *)
(* second, the default and the maximum that divide: no message outlives    *)
(* maxMessageTTL, none sent by the client library is stored expired, and   *)
(* it lives for the whole seconds that SendOptions.TTL asks for.           *)
THEOREM TTLKept == MSpec => []TTLAsPromised
  <1>1. MIndInv => TTLAsPromised
    <2> SUFFICES ASSUME clock \in Nat PROVE TTLAsPromised
      BY DEF MIndInv, MTypeOK
    <2>1. MachineInt \subseteq Int
      BY ConstantsAreInts DEF MachineInt
    <2>2. MaxTTL \div Second \in Int
      BY Division, ConstantsAreInts
    <2>3. ASSUME NEW seconds \in MachineInt
          PROVE  ExpiresAt(seconds) <= clock + (MaxTTL \div Second)
      BY <2>1, <2>2, LifeBounded DEF ExpiresAt
    <2>4. ASSUME NEW seconds \in MachineInt, seconds <= MaxInt \div Second
          PROVE  ExpiresAt(seconds) > clock
      BY <2>1, <2>4, LifeBounded, LifePositive DEF ExpiresAt
    <2>5. ASSUME NEW ttl \in MachineInt
          PROVE  LET life == ExpiresAt(ClientSeconds(ttl)) - clock
                 IN  CASE ttl < Second                   -> life = DefaultTTL \div Second
                       [] ttl >= Second /\ ttl <= MaxTTL -> life = ttl \div Second
                       [] OTHER                          -> life = MaxTTL \div Second
      <3> DEFINE age  == ClampMessageTTL(ClientSeconds(ttl)) \div Second
                 life == ExpiresAt(ClientSeconds(ttl)) - clock
      <3>1. ttl \in Int /\ ClientSeconds(ttl) \in Int
        BY <2>1, ClientSecondsOf
      <3>2. age \in Int
        BY <3>1, LifeBounded
      <3>3. life = age
        <4>1. life = (clock + age) - clock
          BY DEF ExpiresAt
        <4> HIDE DEF age, life
        <4> QED BY <3>2, <4>1
      <3>4. /\ ttl < Second => life = DefaultTTL \div Second
            /\ ttl >= Second /\ ttl <= MaxTTL => life = ttl \div Second
            /\ ttl > MaxTTL => life = MaxTTL \div Second
        BY <3>3, LifeAsAsked
      <3>5. CASE ttl < Second
        BY <3>4, <3>5
      <3>6. CASE ttl >= Second /\ ttl <= MaxTTL
        <4>1. ~(ttl < Second)
          BY <3>1, <3>6, ConstantsAreInts
        <4> QED BY <3>4, <3>6, <4>1
      <3>7. CASE ttl >= Second /\ ttl > MaxTTL
        <4>1. ~(ttl < Second) /\ ~(ttl <= MaxTTL)
          BY <3>1, <3>7, ConstantsAreInts
        <4> QED BY <3>4, <3>7, <4>1
      <3> QED BY <3>1, <3>5, <3>6, <3>7, ConstantsAreInts
    <2> QED BY <2>3, <2>4, <2>5 DEF TTLAsPromised
  <1> QED BY <1>1, MIndInvHolds, PTL

(* A body for which Send has returned an id is handled, or has lapsed,     *)
(* before any body sent after it is handled, whatever calls failed and     *)
(* whichever requests were served late.                                    *)
THEOREM ConfirmedInOrder == MSpec => []HandledInOrder
  <1>1. MIndInv => HandledInOrder
    <2> SUFFICES ASSUME MIndInv, NEW b \in confirmed, NEW c \in confirmed, b < c,
                        NEW n \in Copies(c) \cap handled
                 PROVE  Copies(b) \cap (handled \cup Lapsed) # {}
      BY DEF HandledInOrder
    <2>1. n \in 1..Len(stored) /\ stored[n].body = c /\ n \in handled
      BY DEF Copies
    <2>2. b \in Nat /\ c \in Nat
      BY DEF MIndInv, MTypeOK
    <2>3. PICK k \in 1..(n - 1) : stored[k].body = b
      BY <2>1, <2>2 DEF MIndInv, BodiesFit
    <2>4. k \in handled \cup Lapsed
      BY <2>1, <2>3 DEF MIndInv, NoGaps
    <2>5. k \in 1..Len(stored)
      BY <2>4 DEF MIndInv, MTypeOK, Lapsed
    <2> QED BY <2>3, <2>4, <2>5 DEF Copies
  <1> QED BY <1>1, MIndInvHolds, PTL


(* A new message: AStore, lapsed already or not. *)
LEMMA StoreIsAStore ==
    ASSUME MTypeOK, NEW body \in Nat, NEW seconds \in Int,
           StoreMessage(body, seconds), UNCHANGED <<clock, handled>>
    PROVE  Promise!AStore
  <1>1. /\ Len(stored') = Len(stored) + 1
        /\ kept' = kept \cup {Len(stored) + 1}
        /\ Lapsed' \in {Lapsed, Lapsed \cup {Len(stored) + 1}}
    BY StoreEffect
  <1> QED BY <1>1 DEF Promise!AStore

(* Rows go, of messages that were handled or have lapsed: AForget. *)
LEMMA RemovalIsAForget ==
    ASSUME MTypeOK, NEW N, N \subseteq handled \cup Lapsed, kept' = kept \ N,
           UNCHANGED <<clock, stored, handled>>
    PROVE  Promise!ANext
  <1>1. handled \cup Lapsed \subseteq 1..Len(stored)
    BY DEF MTypeOK, Lapsed
  <1>2. N \in SUBSET (1..Len(stored))
    BY <1>1
  <1>3. Lapsed' = Lapsed
    BY DEF Lapsed
  <1>4. Promise!AForget(N)
    BY <1>3 DEF Promise!AForget
  <1> QED BY <1>2, <1>4 DEF Promise!ANext

LEMMA StepIsAStep ==
    ASSUME MIndInv, [MNext]_mvars
    PROVE  [Promise!ANext]_Promise!avars
  <1> USE DEF MIndInv
  <1>1. ASSUME UNCHANGED <<clock, stored, kept, handled>>
        PROVE  UNCHANGED Promise!avars
    BY <1>1 DEF Promise!avars, Lapsed
  <1>2. CASE UNCHANGED mvars
    BY <1>1, <1>2 DEF mvars
  <1>3. CASE \/ \E seconds \in SentSeconds : CallSend(seconds)
             \/ SendReturns \/ SendFails \/ CallRecv \/ RecvReturns
             \/ CallAck \/ AckReturns \/ ConsumerFails
    BY <1>1, <1>3 DEF CallSend, SendReturns, SendFails, CallRecv, RecvReturns, CallAck,
       AckReturns, ConsumerFails
  <1>4. CASE ServeSend
    <2>1. PICK b, s : b = sender.body /\ s = sender.seconds
      OBVIOUS
    <2>2. StoreMessage(b, s) /\ b \in Nat /\ s \in Int /\ UNCHANGED <<clock, handled>>
      BY <1>4, <2>1 DEF ServeSend, StoreMessage, ExpiresAt, MTypeOK
    <2>3. Promise!AStore
      BY <2>2, StoreIsAStore
    <2> QED BY <2>3 DEF Promise!ANext
  <1>5. CASE ServeRecv \/ Sweep
    <2>1. kept' = kept \ Lapsed /\ UNCHANGED <<clock, stored, handled>>
      BY <1>5 DEF ServeRecv, Sweep
    <2>2. PICK N : N = Lapsed
      OBVIOUS
    <2> QED BY <2>1, <2>2, RemovalIsAForget
  <1>6. CASE Handle
    <2>1. PICK n \in FirstOf(consumer.todo) : handled' = handled \cup {n}
      BY <1>6 DEF Handle
    <2>2. n \in 1..Len(stored) /\ \A k \in 1..(n - 1) : k \in handled \cup Lapsed
      BY <1>6, HandleInTurn DEF Handle
    <2>3. UNCHANGED <<stored, kept, clock>> /\ Lapsed' = Lapsed
      BY <1>6 DEF Handle, Lapsed
    <2>4. Promise!AHandle(n)
      BY <2>1, <2>2, <2>3 DEF Promise!AHandle
    <2> QED BY <2>2, <2>4 DEF Promise!ANext
  <1>7. CASE ServeAck
    <2>1. kept' = kept \ Dealt /\ UNCHANGED <<clock, stored, handled>> /\ Dealt \subseteq handled
      BY <1>7 DEF ServeAck, DeleteMessages, BatchFits
    <2>2. PICK N : N = Dealt
      OBVIOUS
    <2> QED BY <2>1, <2>2, RemovalIsAForget
  <1>8. ASSUME NEW q \in late, ServeLate(q)
        PROVE  Promise!ANext
    <2>1. CASE q.op = "send" /\ StoreMessage(q.body, q.seconds)
      <3>1. q.body \in Nat /\ q.seconds \in Int
        BY <2>1, LateSend
      <3>2. Promise!AStore
        BY <1>8, <2>1, <3>1, StoreIsAStore DEF ServeLate
      <3> QED BY <3>2 DEF Promise!ANext
    <2>2. CASE q.op = "ack" /\ DeleteMessages(q.ids) /\ stored' = stored
      <3>1. kept' = kept \ q.ids /\ q.ids \subseteq handled
        BY <2>2, LateAck DEF DeleteMessages
      <3> QED BY <1>8, <2>2, <3>1, RemovalIsAForget DEF ServeLate
    <2> QED BY <1>8, <2>1, <2>2 DEF ServeLate
  <1>9. CASE Tick
    <2>1. Lapsed \subseteq Lapsed' /\ Lapsed' \subseteq 1..Len(stored)
      BY <1>9, TickLapses
    <2>2. PICK N : N = Lapsed'
      OBVIOUS
    <2>3. Promise!ALapse(N)
      BY <1>9, <2>1, <2>2 DEF Tick, Promise!ALapse
    <2>4. N \in SUBSET (1..Len(stored))
      BY <2>1, <2>2
    <2> QED BY <2>3, <2>4 DEF Promise!ANext
  <1> QED BY <1>2, <1>3, <1>4, <1>5, <1>6, <1>7, <1>8, <1>9 DEF MNext

(* Sender.Send, the relay and Recipient.Recv and Ack implement the promise *)
(* of AtLeastOnce: messages are handled in the order of their seq, each at *)
(* least once unless it lapses, and no row goes before that.               *)
THEOREM MailboxKeepsPromise == MSpec => ImplementsAtLeastOnce
  <1>1. MInit => Promise!AInit
    BY DEF MInit, Promise!AInit, Lapsed
  <1>2. MIndInv /\ [MNext]_mvars => [Promise!ANext]_Promise!avars
    BY StepIsAStep
  <1> QED BY <1>1, <1>2, MIndInvHolds, PTL DEF MSpec, ImplementsAtLeastOnce, Promise!ASpec
=============================================================================
