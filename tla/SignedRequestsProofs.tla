------------------------ MODULE SignedRequestsProofs ------------------------
(* Proofs about SignedRequests, for every value of its constants. *)
EXTENDS SignedRequests, TLAPS

(* A nonce under a key is used for one request. *)
KeysUnique == \A q1, q2 \in signed : KeyOf(q1) = KeyOf(q2) => q1 = q2

(* What a handler works on was signed and not post-dated by more than the  *)
(* skew, and the time it read for the cache is past.                       *)
HandlersFit ==
    \A h \in Handler : handlers[h].pc # "idle" =>
        /\ handlers[h].req \in signed
        /\ handlers[h].req.ts <= clock + Skew
        /\ handlers[h].now <= clock

(* The cache knows every request it served until the request's timestamp   *)
(* leaves the window, *)
Remembered ==
    \A q \in served : clock < Expiry(q) =>
        KeyOf(q) \in DOMAIN seen /\ seen[KeyOf(q)] = Expiry(q)

(* and knows nothing else. *)
NothingElse ==
    \A k \in DOMAIN seen : \E q \in served :
        KeyOf(q) = k /\ seen[k] = Expiry(q) /\ q.ts <= clock + Skew

SIndInv == STypeOK /\ KeysUnique /\ HandlersFit /\ Remembered /\ NothingElse

(* One handler moves, to something that suits it. *)
LEMMA HandlerMoves ==
    ASSUME SIndInv, NEW h \in Handler, NEW c \in HandlerState,
           handlers' = [handlers EXCEPT ![h] = c], UNCHANGED <<clock, signed>>,
           c.pc # "idle" => /\ c.req \in signed
                            /\ c.req.ts <= clock + Skew
                            /\ c.now <= clock
    PROVE  handlers' \in [Handler -> HandlerState] /\ HandlersFit'
<1>1. handlers \in [Handler -> HandlerState]
    BY DEF SIndInv, STypeOK
<1> QED
    BY <1>1 DEF SIndInv, HandlersFit

(* The idle handler is a handler. *)
LEMMA IdleHandler == HandlerIdle \in HandlerState /\ HandlerIdle.pc = "idle"
BY DEF HandlerIdle, HandlerState

(* The initial state. *)
LEMMA SInitIndInv == SInit => SIndInv
<1> SUFFICES ASSUME SInit PROVE SIndInv
    OBVIOUS
<1> USE DEF SInit
<1>1. STypeOK
    BY IdleHandler, BoundAssumption DEF STypeOK
<1>2. KeysUnique /\ HandlersFit /\ Remembered /\ NothingElse
    BY IdleHandler DEF KeysUnique, HandlersFit, Remembered, NothingElse
<1> QED
    BY <1>1, <1>2 DEF SIndInv

(* sign draws a nonce that was not used under the key. *)
LEMMA SignStep ==
    ASSUME SIndInv, NEW p \in Principal, NEW n \in Nonce, NEW drift \in Drifts,
           Sign(p, n, drift)
    PROVE  SIndInv'
<1> DEFINE new == [by |-> p, nonce |-> n, ts |-> clock + drift]
<1>0. /\ UNCHANGED <<clock, handlers, seen, life, served>>
      /\ signed' = signed \cup {new}
      /\ \A q \in signed : KeyOf(q) # <<p, n>>
    BY DEF Sign
<1>1. new \in SignedRequest /\ KeyOf(new) = <<p, n>>
    BY SkewAssumption, BoundAssumption DEF SignedRequest, KeyOf, SIndInv, STypeOK
<1> HIDE DEF new
<1>2. STypeOK'
    BY <1>0, <1>1 DEF SIndInv, STypeOK
<1>3. KeysUnique'
    BY <1>0, <1>1 DEF SIndInv, KeysUnique
<1>4. HandlersFit' /\ Remembered' /\ NothingElse'
    BY <1>0 DEF SIndInv, HandlersFit, Remembered, NothingElse
<1> QED
    BY <1>2, <1>3, <1>4 DEF SIndInv

(* A handler moves, and nothing besides. *)
LEMMA HandlerOnly ==
    ASSUME SIndInv, UNCHANGED <<clock, signed, seen, life, served>>,
           handlers' \in [Handler -> HandlerState], HandlersFit'
    PROVE  SIndInv'
<1>1. STypeOK' /\ KeysUnique'
    BY DEF SIndInv, STypeOK, KeysUnique
<1>2. Remembered' /\ NothingElse'
    BY DEF SIndInv, Remembered, NothingElse
<1> QED
    BY <1>1, <1>2 DEF SIndInv

(* extractSignature lets through what was signed and is in the window. *)
LEMMA ExtractStep ==
    ASSUME SIndInv, NEW h \in Handler, NEW q \in signed, Extract(h, q)
    PROVE  SIndInv'
<1> DEFINE c == [pc |-> "extracted", req |-> q, now |-> 0]
<1>0. UNCHANGED <<clock, signed, seen, life, served>> /\ handlers' = [handlers EXCEPT ![h] = c]
    BY DEF Extract
<1>1. q \in SignedRequest /\ q.ts \in Int /\ clock \in Nat
    BY BoundAssumption DEF SIndInv, STypeOK, SignedRequest
<1>2. q.ts <= clock + Skew
    BY <1>1, SkewAssumption DEF Extract, InWindow
<1>3. c \in HandlerState /\ c.req = q /\ c.now <= clock
    BY <1>1, BoundAssumption DEF HandlerState
<1> HIDE DEF c
<1>4. handlers' \in [Handler -> HandlerState] /\ HandlersFit'
    BY <1>0, <1>2, <1>3, HandlerMoves
<1> QED
    BY <1>0, <1>4, HandlerOnly

(* checkAndAdd reads the time. *)
LEMMA ReadNowStep ==
    ASSUME SIndInv, NEW h \in Handler, ReadNow(h)
    PROVE  SIndInv'
<1> DEFINE c == [handlers[h] EXCEPT !.pc = "locking", !.now = clock]
<1>0. /\ UNCHANGED <<clock, signed, seen, life, served>>
      /\ handlers[h].pc = "extracted" /\ handlers' = [handlers EXCEPT ![h] = c]
    BY DEF ReadNow, SIndInv, STypeOK
<1>1. /\ handlers[h] \in HandlerState /\ clock \in 0..MaxTime
      /\ handlers[h].req \in signed /\ handlers[h].req.ts <= clock + Skew
    BY <1>0 DEF SIndInv, STypeOK, HandlersFit
<1>2. c \in HandlerState /\ c.req = handlers[h].req /\ c.now <= clock
  <2>1. c \in HandlerState /\ c.req = handlers[h].req /\ c.now = clock
    BY <1>0, <1>1 DEF HandlerState
  <2> HIDE DEF c
  <2> QED
    BY <1>1, <2>1, BoundAssumption
<1> HIDE DEF c
<1>3. handlers' \in [Handler -> HandlerState] /\ HandlersFit'
    BY <1>0, <1>1, <1>2, HandlerMoves
<1> QED
    BY <1>0, <1>3, HandlerOnly

(* An error reply, or the reply of the handler that was served. *)
LEMMA HandlerEnds ==
    ASSUME SIndInv, NEW h \in Handler, Unauthorized(h) \/ Reply(h)
    PROVE  SIndInv'
<1>1. UNCHANGED <<clock, signed, seen, life, served>>
      /\ handlers' = [handlers EXCEPT ![h] = HandlerIdle]
    BY DEF Unauthorized, Reply
<1> QED
    BY <1>1, IdleHandler, HandlerMoves, HandlerOnly

(* A sweep at a time that is past forgets no request in its window. *)
LEMMA SweepKeeps ==
    ASSUME SIndInv, NEW now \in Int, now <= clock,
           NEW q \in served, clock < Expiry(q)
    PROVE  KeyOf(q) \in Held(now) /\ seen[KeyOf(q)] = Expiry(q)
<1>1. q.ts \in Int /\ Expiry(q) \in Int /\ clock \in Int
    BY SkewAssumption, BoundAssumption DEF SIndInv, STypeOK, SignedRequest, Expiry
<1>2. KeyOf(q) \in DOMAIN seen /\ seen[KeyOf(q)] = Expiry(q)
    BY DEF SIndInv, Remembered
<1> QED
    BY <1>1, <1>2 DEF Held, StillHeld

(* What a handler in checkAndAdd works with. *)
LEMMA Locking ==
    ASSUME SIndInv, NEW h \in Handler, handlers[h].pc = "locking"
    PROVE  /\ handlers[h].req \in signed /\ handlers[h].req \in SignedRequest
           /\ handlers[h].req.ts <= clock + Skew
           /\ handlers[h].now \in Int /\ handlers[h].now <= clock
           /\ KeyOf(handlers[h].req) \in CacheKey /\ Expiry(handlers[h].req) \in Int
<1>1. handlers[h] \in HandlerState /\ signed \subseteq SignedRequest
    BY DEF SIndInv, STypeOK
<1>2. handlers[h].now \in Int
    BY <1>1, BoundAssumption DEF HandlerState
<1>3. handlers[h].req \in signed /\ handlers[h].now <= clock
      /\ handlers[h].req.ts <= clock + Skew
    BY DEF SIndInv, HandlersFit
<1>4. \A q \in SignedRequest : KeyOf(q) \in CacheKey /\ Expiry(q) \in Int
    BY SkewAssumption DEF SignedRequest, KeyOf, CacheKey, Expiry
<1> QED
    BY <1>1, <1>2, <1>3, <1>4

(* checkAndAdd admits a request and records it. *)
LEMMA AdmitStep ==
    ASSUME SIndInv, NEW h \in Handler, Admit(h)
    PROVE  SIndInv'
<1> DEFINE q == handlers[h].req
           now == handlers[h].now
           c == [handlers[h] EXCEPT !.pc = "serving"]
<1>0. /\ UNCHANGED <<clock, signed, life>> /\ handlers[h].pc = "locking"
      /\ served' = served \cup {q}
      /\ seen' = [k \in Held(now) \cup {KeyOf(q)} |->
                     IF k = KeyOf(q) THEN Expiry(q) ELSE seen[k]]
      /\ handlers' = [handlers EXCEPT ![h] = c]
    BY DEF Admit, SIndInv, STypeOK
<1>1. /\ q \in signed /\ q \in SignedRequest /\ q.ts <= clock + Skew
      /\ now \in Int /\ now <= clock
      /\ KeyOf(q) \in CacheKey /\ Expiry(q) \in Int
    BY <1>0, Locking
<1>2. c \in HandlerState /\ c.req = q /\ c.now = now
  <2>1. handlers[h] \in HandlerState
    BY DEF SIndInv, STypeOK
  <2> QED
    BY <1>0, <2>1 DEF HandlerState
<1> HIDE DEF q, now, c
<1>3. handlers' \in [Handler -> HandlerState] /\ HandlersFit'
    BY <1>0, <1>1, <1>2, HandlerMoves
<1>4. /\ DOMAIN seen' = Held(now) \cup {KeyOf(q)} /\ Held(now) \subseteq DOMAIN seen
      /\ seen'[KeyOf(q)] = Expiry(q)
      /\ \A k \in Held(now) : k # KeyOf(q) => seen'[k] = seen[k]
    BY <1>0 DEF Held
<1>5. STypeOK'
    BY <1>0, <1>1, <1>3, <1>4 DEF SIndInv, STypeOK
<1>6. KeysUnique'
    BY <1>0 DEF SIndInv, KeysUnique
<1>7. Remembered'
  <2> SUFFICES ASSUME NEW x \in served', clock < Expiry(x)
               PROVE  KeyOf(x) \in DOMAIN seen' /\ seen'[KeyOf(x)] = Expiry(x)
    BY <1>0 DEF Remembered, Expiry
  <2>1. CASE KeyOf(x) = KeyOf(q)
    <3>1. x = q
        BY <1>0, <1>1, <2>1 DEF SIndInv, STypeOK, KeysUnique
    <3> QED
        BY <1>4, <3>1
  <2>2. CASE KeyOf(x) # KeyOf(q)
    <3>1. x \in served
        BY <1>0, <2>2
    <3>2. KeyOf(x) \in Held(now) /\ seen[KeyOf(x)] = Expiry(x)
        BY <1>1, <3>1, SweepKeeps
    <3> QED
        BY <1>4, <2>2, <3>2
  <2> QED
    BY <2>1, <2>2
<1>8. NothingElse'
  <2> SUFFICES ASSUME NEW k \in DOMAIN seen'
               PROVE  \E x \in served' : KeyOf(x) = k /\ seen'[k] = Expiry(x)
                                          /\ x.ts <= clock + Skew
    BY <1>0 DEF NothingElse, Expiry
  <2>1. CASE k = KeyOf(q)
    BY <1>0, <1>1, <1>4, <2>1
  <2>2. CASE k # KeyOf(q)
    <3>1. k \in DOMAIN seen /\ seen'[k] = seen[k]
        BY <1>4, <2>2
    <3> QED
        BY <1>0, <3>1 DEF SIndInv, NothingElse
  <2> QED
    BY <2>1, <2>2
<1> QED
    BY <1>3, <1>5, <1>6, <1>7, <1>8 DEF SIndInv

(* checkAndAdd refuses a replay; its sweep has happened. *)
LEMMA RejectReplayStep ==
    ASSUME SIndInv, NEW h \in Handler, RejectReplay(h)
    PROVE  SIndInv'
<1> DEFINE now == handlers[h].now
<1>0. /\ UNCHANGED <<clock, signed, life, served>> /\ handlers[h].pc = "locking"
      /\ seen' = [k \in Held(now) |-> seen[k]]
      /\ handlers' = [handlers EXCEPT ![h] = HandlerIdle]
    BY DEF RejectReplay
<1>1. now \in Int /\ now <= clock
    BY <1>0, Locking
<1> HIDE DEF now
<1>2. handlers' \in [Handler -> HandlerState] /\ HandlersFit'
    BY <1>0, IdleHandler, HandlerMoves
<1>3. /\ DOMAIN seen' = Held(now) /\ Held(now) \subseteq DOMAIN seen
      /\ \A k \in Held(now) : seen'[k] = seen[k]
    BY <1>0 DEF Held
<1>4. STypeOK' /\ KeysUnique'
    BY <1>0, <1>2, <1>3 DEF SIndInv, STypeOK, KeysUnique
<1>5. Remembered'
    BY <1>0, <1>1, <1>3, SweepKeeps DEF Remembered, Expiry
<1>6. NothingElse'
    BY <1>0, <1>3 DEF SIndInv, NothingElse, Expiry
<1> QED
    BY <1>2, <1>4, <1>5, <1>6 DEF SIndInv

(* Time passes. *)
LEMMA TickStep ==
    ASSUME SIndInv, Tick
    PROVE  SIndInv'
<1>0. /\ UNCHANGED <<signed, handlers, seen, life, served>>
      /\ clock' = clock + 1 /\ clock \in Nat /\ clock' \in 0..MaxTime
    BY BoundAssumption DEF Tick, SIndInv, STypeOK
<1>1. STypeOK' /\ KeysUnique'
    BY <1>0 DEF SIndInv, STypeOK, KeysUnique
<1>2. \A q \in signed : q.ts \in Int /\ Expiry(q) \in Int
    BY SkewAssumption DEF SIndInv, STypeOK, SignedRequest, Expiry
<1>3. HandlersFit'
  <2> SUFFICES ASSUME NEW h \in Handler, handlers[h].pc # "idle"
               PROVE  /\ handlers[h].req \in signed
                      /\ handlers[h].req.ts <= clock + 1 + Skew
                      /\ handlers[h].now <= clock + 1
    BY <1>0 DEF HandlersFit
  <2>1. /\ handlers[h].req \in signed /\ handlers[h].req.ts <= clock + Skew
        /\ handlers[h].now <= clock
    BY DEF SIndInv, HandlersFit
  <2>2. handlers[h].now \in Int
    BY BoundAssumption DEF SIndInv, STypeOK, HandlerState
  <2> QED
    BY <1>0, <1>2, <2>1, <2>2, SkewAssumption
<1>4. Remembered'
    BY <1>0, <1>2 DEF SIndInv, STypeOK, Remembered, Expiry
<1>5. NothingElse'
  <2> SUFFICES ASSUME NEW k \in DOMAIN seen
               PROVE  \E q \in served : KeyOf(q) = k /\ seen[k] = Expiry(q)
                                         /\ q.ts <= clock + 1 + Skew
    BY <1>0 DEF NothingElse, Expiry
  <2>1. PICK q \in served : KeyOf(q) = k /\ seen[k] = Expiry(q) /\ q.ts <= clock + Skew
    BY DEF SIndInv, NothingElse
  <2>2. q.ts \in Int
    BY <1>2 DEF SIndInv, STypeOK
  <2> QED
    BY <1>0, <2>1, <2>2, SkewAssumption
<1> QED
    BY <1>1, <1>3, <1>4, <1>5 DEF SIndInv

(* A restart forgets everything that was served, and the cache with it. *)
LEMMA RestartStep ==
    ASSUME SIndInv, Restart
    PROVE  SIndInv'
<1>0. /\ UNCHANGED <<clock, signed>> /\ life' \in 0..MaxRestarts
      /\ handlers' = [h \in Handler |-> HandlerIdle]
      /\ seen' = [k \in {} |-> 0] /\ served' = {}
    BY BoundAssumption DEF Restart, SIndInv, STypeOK
<1>1. STypeOK'
    BY <1>0, IdleHandler DEF SIndInv, STypeOK
<1>2. KeysUnique' /\ HandlersFit'
    BY <1>0, IdleHandler DEF SIndInv, KeysUnique, HandlersFit
<1>3. Remembered' /\ NothingElse'
    BY <1>0 DEF Remembered, NothingElse
<1> QED
    BY <1>1, <1>2, <1>3 DEF SIndInv

(* Every step keeps the invariant. *)
LEMMA SNextStep ==
    ASSUME SIndInv, [SNext]_svars
    PROVE  SIndInv'
<1>1. CASE UNCHANGED svars
    BY <1>1 DEF svars, SIndInv, STypeOK, KeysUnique, HandlersFit, Remembered, NothingElse
<1>2. CASE \E p \in Principal, n \in Nonce, drift \in Drifts : Sign(p, n, drift)
    BY <1>2, SignStep
<1>3. ASSUME NEW h \in Handler,
             \/ \E q \in signed : Extract(h, q)
             \/ Unauthorized(h) \/ ReadNow(h) \/ Admit(h) \/ RejectReplay(h) \/ Reply(h)
      PROVE  SIndInv'
    BY <1>3, ExtractStep, HandlerEnds, ReadNowStep, AdmitStep, RejectReplayStep
<1>4. CASE Tick
    BY <1>4, TickStep
<1>5. CASE Restart
    BY <1>5, RestartStep
<1> QED
    BY <1>1, <1>2, <1>3, <1>4, <1>5 DEF SNext, AdmissionNext

(* The invariant holds throughout. *)
LEMMA SIndInvHolds == SSpec => []SIndInv
<1>1. SIndInv /\ [SNext]_svars => SIndInv'
    BY SNextStep
<1> QED
    BY <1>1, SInitIndInv, PTL DEF SSpec

(* Requests, handlers and cache keep their types in every instance. *)
THEOREM AdmissionTypes == SSpec => []STypeOK
<1>1. SIndInv => STypeOK
    BY DEF SIndInv
<1> QED
    BY <1>1, SIndInvHolds, PTL

(* In every instance, the nonce cache holds only requests that were served *)
(* since the last restart, and none past two windows from now: checkAndAdd *)
(* is reached by verified requests alone, and only by those that           *)
(* extractSignature did not find post-dated.                               *)
THEOREM CacheBounded == SSpec => []CacheIsBounded
<1>1. SIndInv => CacheIsBounded
  <2> SUFFICES ASSUME SIndInv, NEW k \in DOMAIN seen
               PROVE  /\ \E q \in signed : KeyOf(q) = k /\ q \in served
                      /\ seen[k] <= clock + 2 * Skew
    BY DEF CacheIsBounded
  <2>1. PICK q \in served : KeyOf(q) = k /\ seen[k] = Expiry(q) /\ q.ts <= clock + Skew
    BY DEF SIndInv, NothingElse
  <2>2. q \in signed /\ q.ts \in Int /\ clock \in Nat
    BY BoundAssumption DEF SIndInv, STypeOK, SignedRequest
  <2> QED
    BY <2>1, <2>2, SkewAssumption DEF Expiry
<1> QED
    BY <1>1, SIndInvHolds, PTL

(* Only checkAndAdd takes a handler out of its lock. *)
LEMMA LeavesTheLock ==
    ASSUME SIndInv, [SNext]_svars, NEW h \in Handler,
           handlers[h].pc = "locking", handlers'[h].pc # "locking"
    PROVE  Admit(h) \/ RejectReplay(h) \/ Restart
<1>1. handlers \in [Handler -> HandlerState]
    BY DEF SIndInv, STypeOK
<1>2. handlers' # handlers /\ handlers'[h] # handlers[h]
    OBVIOUS
<1>3. ASSUME NEW x \in Handler,
             \/ \E q \in signed : Extract(x, q)
             \/ Unauthorized(x) \/ ReadNow(x) \/ Reply(x)
      PROVE  FALSE
  <2>1. handlers[x].pc # "locking"
    BY <1>3 DEF Extract, Unauthorized, ReadNow, Reply
  <2>2. x # h
    BY <2>1
  <2> QED
    BY <1>1, <1>2, <1>3, <2>2 DEF Extract, Unauthorized, ReadNow, Reply
<1>4. ASSUME NEW x \in Handler, Admit(x) \/ RejectReplay(x)
      PROVE  x = h
    BY <1>1, <1>2, <1>4 DEF Admit, RejectReplay
<1>5. (\E p \in Principal, n \in Nonce, drift \in Drifts : Sign(p, n, drift)) \/ Tick
        => handlers' = handlers
    BY DEF Sign, Tick
<1>6. UNCHANGED svars => handlers' = handlers
    BY DEF svars
<1> QED
    BY <1>2, <1>3, <1>4, <1>5, <1>6 DEF SNext, AdmissionNext

(* In every instance, the server serves a request a second time only after *)
(* a restart, or when the request's timestamp has run out by the time it   *)
(* is recorded.  The cache keeps an entry until then, whichever handlers   *)
(* sweep it and however late their `now' is.                               *)
THEOREM ServedOnce == SSpec => ServedOnceInItsWindow
<1>1. ASSUME SIndInv, [SNext]_svars PROVE AdmissionStep
  <2> SUFFICES ASSUME NEW h \in Handler, handlers[h].pc = "locking",
                      handlers'[h].pc = "serving", handlers[h].req \in served,
                      ~(clock >= Expiry(handlers[h].req))
               PROVE  FALSE
    BY DEF AdmissionStep
  <2>1. Admit(h)
    <3>1. Admit(h) \/ RejectReplay(h) \/ Restart
        BY <1>1, LeavesTheLock
    <3>2. handlers \in [Handler -> HandlerState]
        BY <1>1 DEF SIndInv, STypeOK
    <3> QED
        BY <3>1, <3>2 DEF RejectReplay, Restart, HandlerIdle
  <2>2. /\ handlers[h].now \in Int /\ handlers[h].now <= clock
        /\ Expiry(handlers[h].req) \in Int /\ clock \in Int
    BY <1>1, Locking, BoundAssumption DEF SIndInv, STypeOK
  <2>3. clock < Expiry(handlers[h].req)
    BY <2>2
  <2>4. /\ KeyOf(handlers[h].req) \in Held(handlers[h].now)
        /\ seen[KeyOf(handlers[h].req)] = Expiry(handlers[h].req)
    BY <1>1, <2>2, <2>3, SweepKeeps
  <2>5. IsReplay(h)
    BY <2>2, <2>3, <2>4 DEF IsReplay
  <2> QED
    BY <2>1, <2>5 DEF Admit
<1>2. SIndInv /\ [SNext]_svars => [AdmissionStep]_svars
    BY <1>1
<1> QED
    BY <1>2, SIndInvHolds, PTL DEF SSpec, ServedOnceInItsWindow

(* In every instance, a request is refused as a replay only if that very   *)
(* request was served: the key of the cache names the signer as well as    *)
(* the nonce, and a signer uses a nonce once.                              *)
THEOREM ReplayIsReplay == SSpec => NoFalseReplay
<1>1. ASSUME SIndInv, [SNext]_svars PROVE RejectionStep
  <2> SUFFICES ASSUME NEW h \in Handler, handlers[h].pc = "locking",
                      handlers'[h].pc = "idle", life' = life
               PROVE  handlers[h].req \in served
    BY DEF RejectionStep
  <2>1. RejectReplay(h)
    <3>1. Admit(h) \/ RejectReplay(h) \/ Restart
        BY <1>1, LeavesTheLock
    <3>2. handlers \in [Handler -> HandlerState] /\ life \in Nat
        BY <1>1, BoundAssumption DEF SIndInv, STypeOK
    <3>3. ~Restart
        BY <3>2 DEF Restart
    <3>4. ~Admit(h)
        BY <3>2 DEF Admit, HandlerState
    <3> QED
        BY <3>1, <3>3, <3>4
  <2>2. KeyOf(handlers[h].req) \in DOMAIN seen
    BY <2>1 DEF RejectReplay, IsReplay, Held
  <2>3. PICK q \in served : KeyOf(q) = KeyOf(handlers[h].req)
    BY <1>1, <2>2 DEF SIndInv, NothingElse
  <2>4. handlers[h].req \in signed /\ q \in signed
    BY <1>1, Locking DEF SIndInv, STypeOK
  <2> QED
    BY <1>1, <2>3, <2>4 DEF SIndInv, KeysUnique
<1>2. SIndInv /\ [SNext]_svars => [RejectionStep]_svars
    BY <1>1
<1> QED
    BY <1>2, SIndInvHolds, PTL DEF SSpec, NoFalseReplay
=============================================================================
