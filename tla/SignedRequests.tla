--------------------------- MODULE SignedRequests ---------------------------
(***************************************************************************)
(* How the server admits a signed request: the timestamp window and the    *)
(* nonce cache of internal/server/auth.go, in front of every handler of    *)
(* both planes.                                                            *)
(*                                                                         *)
(* The client library signs each request once, with a fresh nonce and its  *)
(* own clock.  What the network does with it is not up to the client: a    *)
(* signed request may arrive late, never, or more than once.  The server   *)
(* reads its clock twice on the way, first to judge the timestamp and then *)
(* for the cache, and time passes in between.  The cache is memory: a      *)
(* restart empties it.  Signatures are taken as unforgeable, so only       *)
(* signed requests arrive at all.                                          *)
(***************************************************************************)
EXTENDS Integers, FiniteSets

CONSTANTS
    Principal,    \* devices and queue ends: whoever a nonce is scoped to
    Nonce,        \* the nonces clients draw
    Handler,      \* request handlers running at the same time
    None,         \* no request
    Skew,         \* clockSkew
    Drifts,       \* how far clients' clocks are ahead of the server's
    MaxSigned,    \* bound: requests ever signed
    MaxTime,      \* bound: the clock
    MaxRestarts   \* bound: restarts of the server

ASSUME SkewAssumption  == Skew \in Nat /\ Drifts \subseteq Int
ASSUME BoundAssumption == MaxSigned \in Nat /\ MaxTime \in Nat /\ MaxRestarts \in Nat

VARIABLES
    clock,        \* time.Now() at the server
    signed,       \* the requests signed so far, all of them still on the wire
    handlers,     \* what each handler is doing
    seen,         \* nonceCache.seen: key to expiry
    life,         \* how often the server has been restarted
    served        \* history: the requests admitted since the last restart

svars == <<clock, signed, handlers, seen, life, served>>

-----------------------------------------------------------------------------
(* Requests, cache keys and handlers *)

SignedRequest == [by : Principal, nonce : Nonce, ts : Int]

CacheKey == Principal \X Nonce

(* Mutant: nonces are not scoped to their principal. *)
KeyOfNonce(q) == <<CHOOSE p \in Principal : TRUE, q.nonce>>

(* Mutant: the parts of the key are in the wrong order. *)
KeyOfSwapped(q) == <<q.nonce, q.by>>

(* principal + "\x00" + nonce *)
KeyOf(q) == <<q.by, q.nonce>>

(* When the timestamp leaves the window; the cache forgets the key then.   *)
Expiry(q) == q.ts + Skew

(* A handler: idle; "extracted" when the envelope has passed; "locking"    *)
(* when checkAndAdd has read the time and waits for the mutex; "serving"   *)
(* when the request is admitted.                                           *)
HandlerIdle == [pc |-> "idle", req |-> None, now |-> 0]
HandlerState ==
    [pc : {"idle"}, req : {None}, now : {0}] \cup
    [pc : {"extracted", "locking", "serving"}, req : SignedRequest, now : 0..MaxTime]

SInit ==
    /\ clock = 0
    /\ signed = {}
    /\ handlers = [h \in Handler |-> HandlerIdle]
    /\ seen = [k \in {} |-> 0]
    /\ life = 0
    /\ served = {}

-----------------------------------------------------------------------------
(* sign: the client's clock, and a nonce nobody under that key has used.   *)
Sign(p, n, drift) ==
    /\ Cardinality(signed) < MaxSigned
    /\ \A q \in signed : KeyOf(q) # <<p, n>>
    /\ signed' = signed \cup {[by |-> p, nonce |-> n, ts |-> clock + drift]}
    /\ UNCHANGED <<clock, handlers, seen, life, served>>

(* Mutant: timestamps from the future are let through. *)
InWindowOrAhead(q) == clock - q.ts <= Skew

(* extractSignature: the timestamp is within clockSkew of the clock. *)
InWindow(q) == clock - q.ts <= Skew /\ clock - q.ts >= -Skew

Extract(h, q) ==
    /\ handlers[h].pc = "idle"
    /\ q \in signed
    /\ InWindow(q)
    /\ handlers' = [handlers EXCEPT ![h] = [pc |-> "extracted", req |-> q, now |-> 0]]
    /\ UNCHANGED <<clock, signed, seen, life, served>>

(* The device or queue is unknown, revoked or retired, the body cannot be  *)
(* read, or a store call fails: an error reply before the nonce counts.    *)
Unauthorized(h) ==
    /\ handlers[h].pc = "extracted"
    /\ handlers' = [handlers EXCEPT ![h] = HandlerIdle]
    /\ UNCHANGED <<clock, signed, seen, life, served>>

(* checkAndAdd reads the time before it has the mutex. *)
ReadNow(h) ==
    /\ handlers[h].pc = "extracted"
    /\ handlers' = [handlers EXCEPT ![h].pc = "locking", ![h].now = clock]
    /\ UNCHANGED <<clock, signed, seen, life, served>>

(* Mutant: an entry is dropped a moment before it expires. *)
StillHeldEarly(k, now) == seen[k] > now + 1

(* Entries whose expiry is before `now' are deleted, whoever they belong to. *)
StillHeld(k, now) == seen[k] >= now

Held(now) == {k \in DOMAIN seen : StillHeld(k, now)}

(* A key that is held and expires after `now' is a replay. *)
IsReplay(h) ==
    LET k == KeyOf(handlers[h].req)
    IN  k \in Held(handlers[h].now) /\ seen[k] > handlers[h].now

Admit(h) ==
    /\ handlers[h].pc = "locking"
    /\ ~IsReplay(h)
    /\ LET q == handlers[h].req IN
       /\ seen' = [k \in Held(handlers[h].now) \cup {KeyOf(q)} |->
                      IF k = KeyOf(q) THEN Expiry(q) ELSE seen[k]]
       /\ served' = served \cup {q}
    /\ handlers' = [handlers EXCEPT ![h].pc = "serving"]
    /\ UNCHANGED <<clock, signed, life>>

(* 401; the sweep has happened all the same. *)
RejectReplay(h) ==
    /\ handlers[h].pc = "locking"
    /\ IsReplay(h)
    /\ seen' = [k \in Held(handlers[h].now) |-> seen[k]]
    /\ handlers' = [handlers EXCEPT ![h] = HandlerIdle]
    /\ UNCHANGED <<clock, signed, life, served>>

(* The handler behind the signature has replied. *)
Reply(h) ==
    /\ handlers[h].pc = "serving"
    /\ handlers' = [handlers EXCEPT ![h] = HandlerIdle]
    /\ UNCHANGED <<clock, signed, seen, life, served>>

Tick ==
    /\ clock < MaxTime
    /\ clock' = clock + 1
    /\ UNCHANGED <<signed, handlers, seen, life, served>>

(* The server stops, with whatever it was doing, and starts again. *)
Restart ==
    /\ life < MaxRestarts
    /\ life' = life + 1
    /\ handlers' = [h \in Handler |-> HandlerIdle]
    /\ seen' = [k \in {} |-> 0]
    /\ served' = {}
    /\ UNCHANGED <<clock, signed>>

(* Everything but what the handlers do once a request is admitted. *)
AdmissionNext ==
    \/ \E p \in Principal, n \in Nonce, drift \in Drifts : Sign(p, n, drift)
    \/ \E h \in Handler : \/ \E q \in signed : Extract(h, q)
                          \/ Unauthorized(h)
                          \/ ReadNow(h)
                          \/ Admit(h)
                          \/ RejectReplay(h)
    \/ Tick
    \/ Restart

SNext == AdmissionNext \/ \E h \in Handler : Reply(h)

SSpec == SInit /\ [][SNext]_svars

-----------------------------------------------------------------------------
(* Properties *)

(* Requests, handlers and cache keep their types. *)
STypeOK ==
    /\ clock \in 0..MaxTime
    /\ signed \subseteq SignedRequest
    /\ handlers \in [Handler -> HandlerState]
    /\ DOMAIN seen \subseteq CacheKey
    /\ \A k \in DOMAIN seen : seen[k] \in Int
    /\ life \in 0..MaxRestarts
    /\ served \subseteq signed

(* A request is served a second time only if the server was restarted in   *)
(* between, or if its timestamp has run out by the time it is recorded: a  *)
(* repeated delivery that passes the window just in time may find its      *)
(* nonce forgotten.  Otherwise the cache catches every repetition, also    *)
(* when other requests sweep it and when the first delivery is still being *)
(* handled.                                                                *)
AdmissionStep ==
    \A h \in Handler :
        handlers[h].pc = "locking" /\ handlers'[h].pc = "serving"
            => \/ handlers[h].req \notin served
               \/ clock >= Expiry(handlers[h].req)
ServedOnceInItsWindow == [][AdmissionStep]_svars

(* Nobody is taken for a replay of somebody else: a request is refused as  *)
(* a replay only if the server has served that very request.               *)
RejectionStep ==
    \A h \in Handler :
        handlers[h].pc = "locking" /\ handlers'[h].pc = "idle" /\ life' = life
            => handlers[h].req \in served
NoFalseReplay == [][RejectionStep]_svars

(* The cache holds nothing but requests it has served, and nothing that    *)
(* outlives two windows: neither a bogus nor a post-dated request can make *)
(* it grow without end.                                                    *)
CacheIsBounded ==
    \A k \in DOMAIN seen :
        /\ \E q \in signed : KeyOf(q) = k /\ q \in served
        /\ seen[k] <= clock + 2 * Skew
=============================================================================
