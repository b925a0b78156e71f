--------------------------- MODULE MCStatementLog ---------------------------
(* A small instance of StatementLog, and with it of SignedRequests. *)
EXTENDS StatementLog, TLC

OneHome == [d \in Principal |-> CHOOSE a \in Account : TRUE]

(* Nonces and handlers are interchangeable; devices differ in their role.  *)
Symmetry == Permutations(Nonce) \cup Permutations(Handler)
=============================================================================
