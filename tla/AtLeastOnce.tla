---------------------------- MODULE AtLeastOnce ----------------------------
(***************************************************************************)
(* What a queue promises the two ends that use it: messages are handled in *)
(* the order in which they were stored, each of them at least once, unless *)
(* they lapse first; and none is forgotten before it was handled or has    *)
(* lapsed.                                                                 *)
(***************************************************************************)
EXTENDS Naturals

VARIABLES
    count,    \* messages stored so far; they are numbered in that order
    kept,     \* the messages that are still stored
    handled,  \* the messages the recipient has dealt with
    lapsed    \* the messages whose time is up

avars == <<count, kept, handled, lapsed>>

AInit == count = 0 /\ kept = {} /\ handled = {} /\ lapsed = {}

(* A message may be stored with no time left. *)
AStore ==
    /\ count' = count + 1
    /\ kept' = kept \cup {count'}
    /\ lapsed' \in {lapsed, lapsed \cup {count'}}
    /\ handled' = handled

AHandle(n) ==
    /\ \A k \in 1..(n - 1) : k \in handled \cup lapsed
    /\ handled' = handled \cup {n}
    /\ UNCHANGED <<count, kept, lapsed>>

ALapse(N) ==
    /\ lapsed' = lapsed \cup N
    /\ UNCHANGED <<count, kept, handled>>

AForget(N) ==
    /\ N \subseteq handled \cup lapsed
    /\ kept' = kept \ N
    /\ UNCHANGED <<count, handled, lapsed>>

ANext ==
    \/ AStore
    \/ \E n \in 1..count : AHandle(n)
    \/ \E N \in SUBSET (1..count) : ALapse(N) \/ AForget(N)

ASpec == AInit /\ [][ANext]_avars
=============================================================================
