----------------------------- MODULE MCTransport -----------------------------
(* Small instances of Transport for TLC. *)
EXTENDS Transport, TLC

NoAccountLimit == [a \in Account |-> 0]

(* One account with a ceiling and others without, so that the ceilings of   *)
(* devices and queues are not always behind that of the account.            *)
OneAccountLimit ==
    LET capped == CHOOSE a \in Account : TRUE
    IN  [a \in Account |-> IF a = capped THEN 3 ELSE 0]

(* Devices, queues, keys and slots are interchangeable.  Safety runs only.  *)
Symmetry == Permutations(Device) \cup Permutations(Queue) \cup Permutations(Key)
            \cup Permutations(Slot)
=============================================================================
