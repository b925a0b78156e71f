----------------------------- MODULE MessageTTL -----------------------------
(***************************************************************************)
(* How long a message lives: the conversion of SendOptions.TTL to seconds  *)
(* in client/queue.go and the clamp of transport.go, on machine integers.  *)
(* A duration counts ticks; a second has Second of them (nanoseconds in    *)
(* the code, few here, with the integers narrowed to match).               *)
(***************************************************************************)
EXTENDS Integers

CONSTANTS
    Second,      \* time.Second
    DefaultTTL,  \* defaultMessageTTL
    MaxTTL,      \* maxMessageTTL
    MaxInt       \* the largest machine integer; -MaxInt - 1 is the smallest

ASSUME TTLAssumption ==
    /\ {Second, DefaultTTL, MaxTTL, MaxInt} \subseteq Nat \ {0}
    /\ DefaultTTL <= MaxTTL /\ MaxTTL <= MaxInt
    /\ DefaultTTL % Second = 0 /\ MaxTTL % Second = 0

MachineInt == (-MaxInt - 1)..MaxInt

(* Two's complement. *)
Wrap(n) == ((n + MaxInt + 1) % (2 * (MaxInt + 1))) - (MaxInt + 1)

(* Mutant: part of a second counts as a whole one. *)
ClientSecondsRoundedUp(ttl) == (ttl + Second - 1) \div Second

(* int(opts.TTL / time.Second), which truncates towards zero. *)
ClientSeconds(ttl) == IF ttl >= 0 THEN ttl \div Second ELSE -((-ttl) \div Second)

ClampMessageTTL(seconds) ==
    LET d == Wrap(seconds * Second)
    IN  IF seconds <= 0 THEN DefaultTTL ELSE IF d > MaxTTL THEN MaxTTL ELSE d
=============================================================================
