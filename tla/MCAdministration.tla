-------------------------- MODULE MCAdministration --------------------------
(* Small instances of Administration for TLC. *)
EXTENDS Administration, TLC

(* Accounts, devices, invitations and call slots are interchangeable: no   *)
(* definition orders them or picks one.  Safety runs only.                 *)
Symmetry == Permutations(Account) \cup Permutations(Device)
            \cup Permutations(Invitation) \cup Permutations(Request)

(* For the run with fairness, where symmetry is not sound: an operator has *)
(* created an account, and its first device has enrolled with the founding *)
(* invitation.  Which account, device and invitation these are does not    *)
(* matter, so they are fixed.                                              *)
FirstAccount    == CHOOSE a \in Account : TRUE
FirstInvitation == CHOOSE i \in Invitation : TRUE
FirstDevice     == CHOOSE d \in Device : TRUE

Founded ==
    /\ mode \in [Account -> {"none", "flat", "managed"}]
    /\ \A a \in Account : mode[a] = "none" <=> a # FirstAccount
    /\ inv = [i \in Invitation |->
                 IF i = FirstInvitation
                 THEN [MintedRow(FirstAccount, "admin") EXCEPT !.consumed = 1]
                 ELSE NoInvitation]
    /\ dev \in {[d \in Device |->
                    IF d = FirstDevice
                    THEN [NoDevice EXCEPT !.account = FirstAccount,
                                          !.role = "admin", !.push = push]
                    ELSE NoDevice] : push \in Offered}
    /\ calls  = [r \in Request |-> Idle]
    /\ cli    = CliIdle
    /\ pings  = {}
    /\ faults = 0

FoundedSpec == Founded /\ [][Next]_vars /\ Fairness
=============================================================================
