---------------------------- MODULE StatementLog ----------------------------
(***************************************************************************)
(* The administrative statement log of an account (AppendStatement and     *)
(* ListStatements in internal/store/store.go, their handlers in            *)
(* internal/server/statements.go, the calls in client/device.go).          *)
(*                                                                         *)
(* A statement reaches the log as a signed request and through the nonce   *)
(* cache of SignedRequests: what repeats, delays or loses the request, and *)
(* what restarts the server, is described there.  Sequence numbers are per *)
(* account, the log keeps the most recent statements only, and readers     *)
(* poll with the highest number they have.                                 *)
(***************************************************************************)
EXTENDS SignedRequests, Sequences, FiniteSetsExt

CONSTANTS
    Account,                  \* accounts
    Home,                     \* the account of each device
    Admin,                    \* the devices that authenticate as admins
    Reader,                   \* the devices that poll the log
    MaxStatementsPerAccount,  \* the log's limit
    MaxAppends                \* bound: statements ever appended to a log

ASSUME HomeAssumption == Home \in [Principal -> Account] /\ Admin \cup Reader \subseteq Principal
ASSUME LogAssumption  == MaxStatementsPerAccount \in Nat \ {0} /\ MaxAppends \in Nat

VARIABLES
    log,         \* the statements table
    appended,    \* history: everything ever appended, in order
    since,       \* per reader: the highest sequence number it has
    got          \* per reader: the statements it has read

lvars == <<svars, log, appended, since, got>>

(* A row: the statement is the signed request that brought it. *)
Row == [seq : 1..MaxAppends, stmt : SignedRequest]

LInit ==
    /\ SInit
    /\ log = [a \in Account |-> {}]
    /\ appended = [a \in Account |-> <<>>]
    /\ since = [d \in Reader |-> 0]
    /\ got = [d \in Reader |-> {}]

(* Mutant: the next number is one more than there are rows. *)
NextSeqByCount(a) == Cardinality(log[a]) + 1

(* COALESCE(MAX(seq), 0) + 1 *)
NextSeq(a) == Max({0} \cup {row.seq : row \in log[a]}) + 1

(* DELETE ... seq <= next - MaxStatementsPerAccount *)
Trimmed(rows, next) == {row \in rows : row.seq > next - MaxStatementsPerAccount}

(* handleAppendStatement for an admitted request: one transaction assigns  *)
(* the number, inserts, and trims.                                         *)
AppendStatement(h) ==
    LET q == handlers[h].req
        a == Home[q.by]
        next == NextSeq(a)
    IN
    /\ handlers[h].pc = "serving"
    /\ q.by \in Admin
    /\ Len(appended[a]) < MaxAppends
    /\ log' = [log EXCEPT ![a] = Trimmed(@ \cup {[seq |-> next, stmt |-> q]}, next)]
    /\ appended' = [appended EXCEPT ![a] = Append(@, q)]
    /\ Reply(h)
    /\ UNCHANGED <<since, got>>

(* 403 for a member; 400, 413, or a store error for anybody. *)
NotAppended(h) ==
    /\ Reply(h)
    /\ UNCHANGED <<log, appended, since, got>>

(* Mutant: the page starts one too late. *)
PageAfterNext(d) == {row \in log[Home[d]] : row.seq > since[d] + 1}

(* ListStatements(since) *)
Page(d) == {row \in log[Home[d]] : row.seq > since[d]}

(* A device of the account, admin or not, polls; a poll whose response is  *)
(* lost changes nothing.                                                   *)
Statements(d) ==
    /\ Page(d) # {}
    /\ got' = [got EXCEPT ![d] = @ \cup Page(d)]
    /\ since' = [since EXCEPT ![d] = Max({row.seq : row \in Page(d)})]
    /\ UNCHANGED <<svars, log, appended>>

LNext ==
    \/ AdmissionNext /\ UNCHANGED <<log, appended, since, got>>
    \/ \E h \in Handler : AppendStatement(h) \/ NotAppended(h)
    \/ \E d \in Reader : Statements(d)

LSpec == LInit /\ [][LNext]_lvars

-----------------------------------------------------------------------------
(* Properties *)

(* The log is exactly the most recent statements of its account, numbered  *)
(* without holes in the order they were appended, and no number is ever    *)
(* given twice, although the numbers are computed from a table that is     *)
(* being trimmed.                                                          *)
LogIsRecentWindow ==
    \A a \in Account :
        LET n == Len(appended[a])
        IN  log[a] = {[seq |-> i, stmt |-> appended[a][i]] :
                         i \in {j \in 1..n : j > n - MaxStatementsPerAccount}}

(* A reader that polls with the highest number it has reads the account's  *)
(* own history, whenever it polls, and misses only what had been trimmed:  *)
(* a gap in what it read means lost to the limit, never skipped or still   *)
(* to come.                                                                *)
MissesOnlyTrimmed ==
    \A d \in Reader :
        /\ \A row \in got[d] : row.stmt = appended[Home[d]][row.seq]
        /\ \A i \in 1..since[d] :
               \/ \E row \in got[d] : row.seq = i
               \/ i <= Len(appended[Home[d]]) - MaxStatementsPerAccount
=============================================================================
