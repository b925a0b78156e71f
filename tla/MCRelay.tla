------------------------------- MODULE MCRelay -------------------------------
(* A small instance of Relay for TLC. *)
EXTENDS Relay, TLC

NoAccountLimit == [a \in Account |-> 0]

(* Accounts, devices, invitations and call slots are interchangeable.      *)
Symmetry == Permutations(Account) \cup Permutations(Device)
            \cup Permutations(Invitation) \cup Permutations(Request)
=============================================================================
