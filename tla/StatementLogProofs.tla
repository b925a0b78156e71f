------------------------- MODULE StatementLogProofs -------------------------
(* Proofs about StatementLog, for every value of its constants. *)
EXTENDS StatementLog, SignedRequestsProofs

(* The greatest element of a set of numbers, when one is known. *)
LEMMA MaxIs ==
    ASSUME NEW S \in SUBSET Int, NEW n \in S, \A x \in S : x <= n
    PROVE  Max(S) = n
<1>1. \A y \in S : n >= y
    OBVIOUS
<1>2. \A x \in S : (\A y \in S : x >= y) => x = n
    OBVIOUS
<1> QED
    BY <1>1, <1>2 DEF Max

(* The log is a client of the admission described in SignedRequests: what  *)
(* is proved of every behaviour of SSpec holds of LSpec.                   *)
LEMMA LogUsesAdmission == LSpec => SSpec
<1>1. LInit => SInit
    BY DEF LInit
<1>2. ASSUME [LNext]_lvars PROVE [SNext]_svars
  <2>1. CASE AdmissionNext
    BY <2>1 DEF SNext
  <2>2. ASSUME NEW h \in Handler, AppendStatement(h) \/ NotAppended(h)
        PROVE  SNext
    BY <2>2 DEF AppendStatement, NotAppended, SNext
  <2>3. ASSUME NEW d \in Reader, Statements(d)
        PROVE  UNCHANGED svars
    BY <2>3 DEF Statements
  <2>4. UNCHANGED lvars => UNCHANGED svars
    BY DEF lvars
  <2> QED
    BY <1>2, <2>1, <2>2, <2>3, <2>4 DEF LNext
<1> QED
    BY <1>1, <1>2, PTL DEF LSpec, SSpec

-----------------------------------------------------------------------------
(* The log *)

Appended(a) == Len(appended[a])

(* The rows of a log after the statements s, n of them. *)
WindowRows(s, n) ==
    {[seq |-> i, stmt |-> s[i]] :
        i \in {j \in 1..n : j > n - MaxStatementsPerAccount}}

Shapes ==
    /\ appended \in [Account -> Seq(SignedRequest)]
    /\ DOMAIN log = Account
    /\ since \in [Reader -> Nat]
    /\ DOMAIN got = Reader

(* The next number is one more than the statements ever appended, although *)
(* it is computed from the rows that are left.                             *)
LEMMA NextSeqIs ==
    ASSUME Shapes, LogIsRecentWindow, NEW a \in Account
    PROVE  NextSeq(a) = Appended(a) + 1
<1> DEFINE n == Appended(a)
           S == {0} \cup {row.seq : row \in log[a]}
<1>1. n \in Nat
    BY DEF Shapes, Appended
<1>2. log[a] = WindowRows(appended[a], n)
    BY DEF LogIsRecentWindow, WindowRows, Appended
<1>3. \A row \in log[a] : row.seq \in 1..n
    BY <1>1, <1>2 DEF WindowRows
<1>4. n # 0 => \E row \in log[a] : row.seq = n
  <2> SUFFICES ASSUME n # 0 PROVE [seq |-> n, stmt |-> appended[a][n]] \in WindowRows(appended[a], n)
    BY <1>2
  <2>1. n \in 1..n /\ n > n - MaxStatementsPerAccount
    BY <1>1, LogAssumption
  <2> QED
    BY <2>1 DEF WindowRows
<1> HIDE DEF n
<1>5. S \in SUBSET Int /\ n \in S /\ \A x \in S : x <= n
    BY <1>1, <1>3, <1>4
<1>6. Max(S) = n
    BY <1>5, MaxIs
<1> QED
    BY <1>6 DEF NextSeq, n

(* What a serving handler brings. *)
LEMMA Serving ==
    ASSUME SIndInv, NEW h \in Handler, handlers[h].pc = "serving"
    PROVE  handlers[h].req \in SignedRequest /\ Home[handlers[h].req.by] \in Account
<1>1. handlers[h].req \in SignedRequest
    BY DEF SIndInv, STypeOK, HandlersFit
<1> QED
    BY <1>1, HomeAssumption DEF SignedRequest

(* AppendStatement on one account: what is appended, and what is left of   *)
(* the log.                                                                *)
LEMMA AppendEffect ==
    ASSUME SIndInv, Shapes, LogIsRecentWindow, NEW h \in Handler, AppendStatement(h)
    PROVE  \E a \in Account, q \in SignedRequest :
               /\ appended' = [appended EXCEPT ![a] = Append(appended[a], q)]
               /\ log' = [log EXCEPT ![a] =
                             Trimmed(log[a] \cup {[seq |-> Appended(a) + 1, stmt |-> q]},
                                     Appended(a) + 1)]
               /\ UNCHANGED <<since, got>>
<1>1. handlers[h].req \in SignedRequest /\ Home[handlers[h].req.by] \in Account
    BY Serving DEF AppendStatement
<1> DEFINE q == handlers[h].req
           a == Home[q.by]
<1>2. NextSeq(a) = Appended(a) + 1
    BY <1>1, NextSeqIs
<1> QED
    BY <1>1, <1>2 DEF AppendStatement

(* Steps that leave the log alone. *)
LEMMA LogKept ==
    ASSUME [LNext]_lvars
    PROVE  \/ UNCHANGED <<log, appended, since, got>>
           \/ \E h \in Handler : AppendStatement(h)
           \/ \E d \in Reader : Statements(d)
BY DEF LNext, NotAppended, lvars

(* Appending keeps the log the window of the most recent statements. *)
LEMMA WindowStep ==
    ASSUME Shapes, LogIsRecentWindow, NEW a \in Account, NEW q \in SignedRequest,
           appended' = [appended EXCEPT ![a] = Append(appended[a], q)],
           log' = [log EXCEPT ![a] =
                      Trimmed(log[a] \cup {[seq |-> Appended(a) + 1, stmt |-> q]},
                              Appended(a) + 1)]
    PROVE  LogIsRecentWindow'
<1> DEFINE n == Appended(a)
           M == MaxStatementsPerAccount
<1>0. n \in Nat /\ M \in Nat /\ M >= 1 /\ appended[a] \in Seq(SignedRequest)
    BY LogAssumption DEF Shapes, Appended
<1>1. /\ appended'[a] = Append(appended[a], q) /\ Len(appended'[a]) = n + 1
      /\ appended'[a][n + 1] = q
      /\ \A i \in 1..n : appended'[a][i] = appended[a][i]
    BY <1>0 DEF Shapes, Appended
<1>2. log'[a] = Trimmed(log[a] \cup {[seq |-> n + 1, stmt |-> q]}, n + 1)
    BY DEF Shapes
<1>3. \A b \in Account : b # a => log'[b] = log[b] /\ appended'[b] = appended[b]
    BY DEF Shapes
<1>4. log[a] = WindowRows(appended[a], n)
    BY DEF LogIsRecentWindow, WindowRows, Appended
<1> HIDE DEF n, M
<1>5. log'[a] = WindowRows(appended'[a], n + 1)
  <2>0. log[a] \subseteq [seq : Int, stmt : {appended[a][i] : i \in 1..n}]
    BY <1>0, <1>4 DEF WindowRows
  <2>1. ASSUME NEW row \in log'[a] PROVE row \in WindowRows(appended'[a], n + 1)
    <3>1. row \in log[a] \/ row = [seq |-> n + 1, stmt |-> q]
        BY <1>2, <2>1 DEF Trimmed
    <3>2. row.seq > n + 1 - M
        BY <1>0, <1>2, <2>0, <2>1, <3>1 DEF Trimmed, M
    <3>3. CASE row = [seq |-> n + 1, stmt |-> q]
        BY <1>0, <1>1, <3>3 DEF WindowRows, M
    <3>4. CASE row \in log[a]
        <4>1. PICK i \in 1..n : row = [seq |-> i, stmt |-> appended[a][i]]
            BY <1>4, <3>4 DEF WindowRows
        <4>2. row = [seq |-> i, stmt |-> appended'[a][i]] /\ i > n + 1 - M
            BY <1>1, <3>2, <4>1
        <4>3. i \in 1..(n + 1)
            BY <1>0
        <4>4. i \in {j \in 1..(n + 1) : j > (n + 1) - MaxStatementsPerAccount}
            BY <1>0, <4>2, <4>3 DEF M
        <4> QED
            BY <4>2, <4>4, Zenon DEF WindowRows
    <3> QED
        BY <3>1, <3>3, <3>4
  <2>2. ASSUME NEW i \in 1..(n + 1), i > n + 1 - M
        PROVE  [seq |-> i, stmt |-> appended'[a][i]] \in log'[a]
    <3>1. CASE i = n + 1
        BY <1>0, <1>1, <1>2, <3>1 DEF Trimmed, M
    <3>2. CASE i # n + 1
        <4>1. i \in 1..n /\ i > n - M
            BY <1>0, <2>2, <3>2
        <4>2. [seq |-> i, stmt |-> appended[a][i]] \in log[a]
            BY <1>4, <4>1 DEF WindowRows, M
        <4>3. [seq |-> i, stmt |-> appended[a][i]] \in log'[a]
            BY <1>0, <1>2, <2>2, <4>2 DEF Trimmed, M
        <4> QED
            BY <1>1, <4>1, <4>3
    <3> QED
        BY <3>1, <3>2
  <2>3. ASSUME NEW row \in WindowRows(appended'[a], n + 1) PROVE row \in log'[a]
    <3>1. PICK i \in {j \in 1..(n + 1) : j > (n + 1) - MaxStatementsPerAccount} :
              row = [seq |-> i, stmt |-> appended'[a][i]]
        BY <2>3, Zenon DEF WindowRows
    <3>2. i \in 1..(n + 1) /\ i > n + 1 - M
        BY <1>0 DEF M
    <3> QED
        BY <2>2, <3>1, <3>2
  <2> QED
    BY <2>1, <2>3
<1> SUFFICES ASSUME NEW b \in Account
             PROVE  log'[b] = WindowRows(appended'[b], Len(appended'[b]))
    BY DEF LogIsRecentWindow, WindowRows
<1>6. CASE b = a
    BY <1>1, <1>5, <1>6
<1>7. CASE b # a
    BY <1>3, <1>7 DEF LogIsRecentWindow, WindowRows
<1> QED
    BY <1>6, <1>7

(* A poll that finds anything finds the newest statement. *)
LEMMA PageEnds ==
    ASSUME Shapes, LogIsRecentWindow, NEW d \in Reader, Page(d) # {}
    PROVE  /\ Max({row.seq : row \in Page(d)}) = Appended(Home[d])
           /\ since[d] <= Appended(Home[d])
<1> DEFINE a == Home[d]
           n == Appended(a)
<1>1. a \in Account /\ n \in Nat /\ since[d] \in Nat
    BY HomeAssumption DEF Shapes, Appended
<1>2. log[a] = WindowRows(appended[a], n)
    BY <1>1 DEF LogIsRecentWindow, WindowRows, Appended
<1>3. PICK first \in log[a] : first.seq > since[d]
    BY DEF Page
<1>4. \A row \in log[a] : row.seq \in 1..n
    BY <1>1, <1>2 DEF WindowRows
<1>5. n > since[d] /\ n \in {j \in 1..n : j > n - MaxStatementsPerAccount}
    BY <1>1, <1>3, <1>4, LogAssumption
<1>6. [seq |-> n, stmt |-> appended[a][n]] \in log[a]
    BY <1>2, <1>5, Zenon DEF WindowRows
<1>7. [seq |-> n, stmt |-> appended[a][n]] \in Page(d)
    BY <1>5, <1>6 DEF Page
<1>8. \A row \in Page(d) : row.seq \in 1..n
    BY <1>4 DEF Page
<1> HIDE DEF n, a
<1> DEFINE S == {row.seq : row \in Page(d)}
<1>9. n \in S /\ S \in SUBSET Int /\ \A x \in S : x <= n
    BY <1>1, <1>7, <1>8
<1>10. Max(S) = n
    BY <1>9, MaxIs
<1> QED
    BY <1>1, <1>5, <1>10 DEF n, a

-----------------------------------------------------------------------------
(* Readers *)

(* What a reader has read is history, and what it has not read, up to the  *)
(* number it polls with, had been trimmed.                                 *)
ReaderFits(d) ==
    LET a == Home[d] IN
    /\ since[d] <= Appended(a)
    /\ \A row \in got[d] : row.seq \in 1..Appended(a) /\ row.stmt = appended[a][row.seq]
    /\ \A i \in 1..since[d] :
           \/ \E row \in got[d] : row.seq = i
           \/ i <= Appended(a) - MaxStatementsPerAccount
ReadersFit == \A d \in Reader : ReaderFits(d)

LIndInv == Shapes /\ LogIsRecentWindow /\ ReadersFit

(* Readers lose nothing when a statement is appended. *)
LEMMA ReadersAfterAppend ==
    ASSUME LIndInv, NEW a \in Account, NEW q \in SignedRequest,
           appended' = [appended EXCEPT ![a] = Append(appended[a], q)],
           UNCHANGED <<since, got>>
    PROVE  ReadersFit'
<1> SUFFICES ASSUME NEW d \in Reader PROVE ReaderFits(d)'
    BY DEF ReadersFit
<1> DEFINE b == Home[d]
<1>1. b \in Account /\ appended \in [Account -> Seq(SignedRequest)] /\ since[d] \in Nat
    BY HomeAssumption DEF LIndInv, Shapes
<1>2. Appended(b) \in Nat
    BY <1>1 DEF Appended
<1>3. /\ Appended(b)' \in {Appended(b), Appended(b) + 1}
      /\ \A i \in 1..Appended(b) : appended'[b][i] = appended[b][i]
  <2>1. CASE b = a
    BY <1>1, <2>1 DEF Appended
  <2>2. CASE b # a
    BY <1>1, <2>2 DEF Appended
  <2> QED
    BY <2>1, <2>2
<1>4. ReaderFits(d)
    BY DEF LIndInv, ReadersFit
<1> HIDE DEF b
<1>5. since[d] <= Appended(b)'
    BY <1>1, <1>2, <1>3, <1>4 DEF ReaderFits, b
<1>6. \A row \in got[d] : /\ row.seq \in 1..Appended(b)'
                          /\ row.stmt = appended'[b][row.seq]
  <2>1. \A row \in got[d] : /\ row.seq \in 1..Appended(b)
                            /\ row.stmt = appended[b][row.seq]
    BY <1>4 DEF ReaderFits, b
  <2>2. \A i \in 1..Appended(b) : i \in 1..Appended(b)'
    BY <1>2, <1>3
  <2> QED
    BY <1>3, <2>1, <2>2
<1>7. ASSUME NEW i \in 1..since[d]
      PROVE  \/ \E row \in got[d] : row.seq = i
             \/ i <= Appended(b)' - MaxStatementsPerAccount
    BY <1>1, <1>2, <1>3, <1>4, LogAssumption DEF ReaderFits, b
<1> QED
    BY <1>5, <1>6, <1>7 DEF ReaderFits, b

(* A poll. *)
LEMMA ReadersAfterPoll ==
    ASSUME LIndInv, NEW d \in Reader, Statements(d)
    PROVE  LIndInv'
<1> DEFINE a == Home[d]
           n == Appended(a)
<1>1. a \in Account /\ n \in Nat /\ since[d] \in Nat
    BY HomeAssumption DEF LIndInv, Shapes, Appended
<1>2. /\ UNCHANGED <<log, appended>>
      /\ got' = [got EXCEPT ![d] = got[d] \cup Page(d)]
      /\ since' = [since EXCEPT ![d] = n]
  <2>1. Max({row.seq : row \in Page(d)}) = n
    BY PageEnds DEF LIndInv, Statements
  <2> QED
    BY <2>1 DEF Statements
<1>3. since[d] <= n
    BY PageEnds DEF LIndInv, Statements
<1>4. log[a] = WindowRows(appended[a], n)
    BY <1>1 DEF LIndInv, LogIsRecentWindow, WindowRows, Appended
<1>5. Shapes' /\ LogIsRecentWindow'
    BY <1>1, <1>2 DEF LIndInv, Shapes, LogIsRecentWindow
<1>6. /\ got'[d] = got[d] \cup Page(d) /\ since'[d] = n
      /\ \A e \in Reader : e # d => got'[e] = got[e] /\ since'[e] = since[e]
    BY <1>2 DEF LIndInv, Shapes
<1>7. ReaderFits(d)
    BY DEF LIndInv, ReadersFit
<1>8. Appended(a)' = n /\ \A e \in Reader : Appended(Home[e])' = Appended(Home[e])
    BY <1>2 DEF Appended
<1>9. ReaderFits(d)'
  <2>1. \A row \in Page(d) : row.seq \in 1..n /\ row.stmt = appended[a][row.seq]
    BY <1>1, <1>4 DEF Page, WindowRows
  <2>2. \A row \in got[d] : row.seq \in 1..n /\ row.stmt = appended[a][row.seq]
    BY <1>7 DEF ReaderFits
  <2>3. ASSUME NEW i \in 1..n
        PROVE  \/ \E row \in got[d] \cup Page(d) : row.seq = i
               \/ i <= n - MaxStatementsPerAccount
    <3>1. CASE i <= since[d]
        <4>1. i \in 1..since[d]
            BY <1>1, <3>1
        <4> QED
            BY <1>7, <4>1 DEF ReaderFits
    <3>2. CASE i > since[d] /\ i > n - MaxStatementsPerAccount
        <4>1. i \in {j \in 1..n : j > n - MaxStatementsPerAccount}
            BY <3>2
        <4>2. [seq |-> i, stmt |-> appended[a][i]] \in log[a]
            BY <1>4, <4>1, Zenon DEF WindowRows
        <4>3. [seq |-> i, stmt |-> appended[a][i]] \in Page(d)
            BY <3>2, <4>2 DEF Page
        <4> QED
            BY <4>3
    <3> QED
        BY <1>1, <3>1, <3>2, LogAssumption
  <2> HIDE DEF n
  <2>4. /\ since'[d] <= n
        /\ \A row \in got'[d] : row.seq \in 1..n /\ row.stmt = appended'[a][row.seq]
        /\ \A i \in 1..since'[d] :
              \/ \E row \in got'[d] : row.seq = i
              \/ i <= n - MaxStatementsPerAccount
    BY <1>1, <1>2, <1>6, <2>1, <2>2, <2>3
  <2> QED
    BY <1>8, <2>4 DEF ReaderFits
<1>10. ASSUME NEW e \in Reader, e # d PROVE ReaderFits(e)'
    BY <1>2, <1>6, <1>8, <1>10 DEF LIndInv, ReadersFit, ReaderFits
<1> QED
    BY <1>5, <1>9, <1>10 DEF LIndInv, ReadersFit

(* The initial state. *)
LEMMA LInitIndInv == LInit => LIndInv
<1> SUFFICES ASSUME LInit PROVE LIndInv
    OBVIOUS
<1>1. Shapes
    BY DEF LInit, Shapes
<1>2. \A a \in Account : Len(appended[a]) = 0 /\ log[a] = {}
    BY DEF LInit
<1>3. LogIsRecentWindow
    BY <1>2 DEF LogIsRecentWindow
<1>4. ReadersFit
    BY <1>2, HomeAssumption DEF LInit, ReadersFit, ReaderFits, Appended
<1> QED
    BY <1>1, <1>3, <1>4 DEF LIndInv

(* Every step keeps the invariant. *)
LEMMA LNextStep ==
    ASSUME SIndInv, LIndInv, [LNext]_lvars
    PROVE  LIndInv'
<1>1. CASE UNCHANGED <<log, appended, since, got>>
    BY <1>1 DEF LIndInv, Shapes, LogIsRecentWindow, ReadersFit, ReaderFits, Appended
<1>2. ASSUME NEW h \in Handler, AppendStatement(h)
      PROVE  LIndInv'
  <2>1. PICK a \in Account, q \in SignedRequest :
            /\ appended' = [appended EXCEPT ![a] = Append(appended[a], q)]
            /\ log' = [log EXCEPT ![a] =
                          Trimmed(log[a] \cup {[seq |-> Appended(a) + 1, stmt |-> q]},
                                  Appended(a) + 1)]
            /\ UNCHANGED <<since, got>>
    BY <1>2, AppendEffect DEF LIndInv
  <2>2. Shapes'
    BY <2>1 DEF LIndInv, Shapes
  <2>3. LogIsRecentWindow'
    BY <2>1, WindowStep DEF LIndInv
  <2>4. ReadersFit'
    BY <2>1, ReadersAfterAppend
  <2> QED
    BY <2>2, <2>3, <2>4 DEF LIndInv
<1>3. ASSUME NEW d \in Reader, Statements(d)
      PROVE  LIndInv'
    BY <1>3, ReadersAfterPoll
<1> QED
    BY <1>1, <1>2, <1>3, LogKept

(* The invariant holds throughout. *)
LEMMA LIndInvHolds == LSpec => []LIndInv
<1>1. SIndInv /\ LIndInv /\ [LNext]_lvars => LIndInv'
    BY LNextStep
<1> QED
    BY <1>1, LInitIndInv, LogUsesAdmission, SIndInvHolds, PTL DEF LSpec

(* In every instance, the log is the most recent statements of its         *)
(* account, numbered without holes in the order they were appended:        *)
(* COALESCE(MAX(seq), 0) + 1 counts on from the last statement because the *)
(* trimming never deletes the newest row.                                  *)
THEOREM RecentWindow == LSpec => []LogIsRecentWindow
<1>1. LIndInv => LogIsRecentWindow
    BY DEF LIndInv
<1> QED
    BY <1>1, LIndInvHolds, PTL

(* In every instance, a reader that polls with the highest number it has   *)
(* misses only what had been trimmed before it polled.                     *)
THEOREM ReadersMissOnlyTrimmed == LSpec => []MissesOnlyTrimmed
<1>1. LIndInv => MissesOnlyTrimmed
    BY DEF LIndInv, ReadersFit, ReaderFits, MissesOnlyTrimmed, Appended
<1> QED
    BY <1>1, LIndInvHolds, PTL
=============================================================================
