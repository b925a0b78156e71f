---------------------------- MODULE StartupProofs ----------------------------
(* Proofs about Startup, for every value of its constants.  They use only  *)
(* the safety part of its specification.                                   *)
EXTENDS Startup, FiniteSetTheorems, TLAPS

-----------------------------------------------------------------------------
(* The database *)

OpenState == [pc : {"closed", "migrating", "altering", "open"},
              at : 1..(Len(Statements) + 1)]

DTypeOK ==
    /\ tables \in [Table -> SUBSET Column]
    /\ indexed \in BOOLEAN
    /\ opens \in [Proc -> OpenState]

(* No table has a column it should not have, except the one to be dropped. *)
ColumnsKnown == \A t \in Table : tables[t] \subseteq EverHad(t)

(* What the statement s is there for, over tables D. *)
InEffect(s, D, ix) ==
    /\ s.op \in {"create", "add"} => s.column \in D[s.table]
    /\ s.op = "index" => ix
    /\ s.op = "drop" => s.column \notin D[s.table]

(* Every statement that some process has left behind is in effect, and     *)
(* whoever is done has left all of them behind.                            *)
OpensFit ==
    \A p \in Proc :
        /\ \A i \in 1..(opens[p].at - 1) : InEffect(Statements[i], tables, indexed)
        /\ opens[p].pc = "altering" => /\ opens[p].at <= Len(Statements)
                                       /\ At(p).op \in {"add", "drop"}
        /\ opens[p].pc = "open" => opens[p].at = Len(Statements) + 1

DIndInv == DTypeOK /\ ColumnsKnown /\ OpensFit

(* The tables by name. *)
LEMMA TableNames ==
    Table = {"accounts", "invitations", "devices", "queues", "messages", "bundles",
             "statements"}
BY DEF Table, Schema

(* The statements of migrate are 17. *)
LEMMA StatementCount == Len(Statements) = 17
BY DEF Statements

(* Every statement is about a table of the schema; what it creates or adds *)
(* belongs there, and what it drops does not.                              *)
LEMMA StatementFacts ==
    ASSUME NEW i \in 1..17
    PROVE  LET s == Statements[i] IN
           /\ s.table \in Table
           /\ s.op \in {"create", "add"} => s.column \in Schema[s.table] /\ s.column # "status"
           /\ s.op = "drop" => s.table = "messages" /\ s.column = "status"
           /\ s.op \in {"create", "add", "index", "drop"}
<1>1. \/ i = 1 \/ i = 2 \/ i = 3 \/ i = 4 \/ i = 5 \/ i = 6 \/ i = 7 \/ i = 8 \/ i = 9
      \/ i = 10 \/ i = 11 \/ i = 12 \/ i = 13 \/ i = 14 \/ i = 15 \/ i = 16 \/ i = 17
    OBVIOUS
<1> QED
    BY <1>1, TableNames DEF Statements, Create, Ensure, Index, Drop, Schema

(* With all of them in effect the schema is the current one. *)
LEMMA AllInEffect ==
    ASSUME DTypeOK, ColumnsKnown,
           \A i \in 1..17 : InEffect(Statements[i], tables, indexed)
    PROVE  tables = Schema /\ indexed
<1>1. /\ InEffect(Create("accounts"), tables, indexed)
      /\ InEffect(Create("invitations"), tables, indexed)
      /\ InEffect(Create("devices"), tables, indexed)
      /\ InEffect(Create("queues"), tables, indexed)
      /\ InEffect(Create("messages"), tables, indexed)
      /\ InEffect(Create("bundles"), tables, indexed)
      /\ InEffect(Create("statements"), tables, indexed)
      /\ InEffect(Ensure("accounts", "quota_bytes"), tables, indexed)
      /\ InEffect(Ensure("accounts", "admin_mode"), tables, indexed)
      /\ InEffect(Ensure("invitations", "id"), tables, indexed)
      /\ InEffect(Ensure("invitations", "revoked"), tables, indexed)
      /\ InEffect(Ensure("invitations", "grants_role"), tables, indexed)
      /\ InEffect(Ensure("devices", "role"), tables, indexed)
      /\ InEffect(Ensure("devices", "quota_bytes"), tables, indexed)
      /\ InEffect(Ensure("queues", "quota_bytes"), tables, indexed)
      /\ InEffect(Index("invitations", "id"), tables, indexed)
      /\ InEffect(Drop("messages", "status"), tables, indexed)
    BY DEF Statements
<1>2. /\ {"base", "quota_bytes", "admin_mode"} \subseteq tables["accounts"]
      /\ {"base", "id", "revoked", "grants_role"} \subseteq tables["invitations"]
      /\ {"base", "quota_bytes", "role"} \subseteq tables["devices"]
      /\ {"base", "quota_bytes"} \subseteq tables["queues"]
      /\ "base" \in tables["messages"] /\ "status" \notin tables["messages"]
      /\ "base" \in tables["bundles"] /\ "base" \in tables["statements"]
      /\ indexed
    BY <1>1 DEF InEffect, Create, Ensure, Index, Drop
<1>3. ASSUME NEW t \in Table
      PROVE  tables[t] = Schema[t]
    BY <1>2, TableNames DEF ColumnsKnown, EverHad, Schema
<1>4. Schema = [t \in Table |-> Schema[t]] /\ tables = [t \in Table |-> tables[t]]
    BY DEF Schema, Table, DTypeOK
<1> QED
    BY <1>2, <1>3, <1>4

(* Columns only come, but for the one that is dropped, and an index stays. *)
Grown ==
    /\ \A t \in Table : \A c \in tables[t] : c # "status" => c \in tables'[t]
    /\ "status" \notin tables["messages"] => "status" \notin tables'["messages"]
    /\ indexed => indexed'

(* So a statement in effect stays in effect. *)
LEMMA StaysInEffect ==
    ASSUME Grown, NEW i \in 1..17, InEffect(Statements[i], tables, indexed)
    PROVE  InEffect(Statements[i], tables', indexed')
<1>1. /\ Statements[i].table \in Table
      /\ Statements[i].op \in {"create", "add"} => Statements[i].column # "status"
      /\ Statements[i].op = "drop" => /\ Statements[i].table = "messages"
                                      /\ Statements[i].column = "status"
    BY StatementFacts
<1> QED
    BY <1>1 DEF Grown, InEffect

(* A step of process p, to the state o, over tables that have grown. *)
LEMMA OpenMoves ==
    ASSUME DIndInv, NEW p \in Proc, NEW o \in OpenState,
           opens' = [opens EXCEPT ![p] = o],
           tables' \in [Table -> SUBSET Column], indexed' \in BOOLEAN,
           ColumnsKnown', Grown,
           o.at \in {1, opens[p].at, opens[p].at + 1},
           o.at = opens[p].at + 1 =>
               InEffect(Statements[opens[p].at], tables', indexed'),
           o.pc = "altering" => o.at <= 17 /\ Statements[o.at].op \in {"add", "drop"},
           o.pc = "open" => o.at = 18
    PROVE  DIndInv'
<1>1. opens \in [Proc -> OpenState] /\ opens' \in [Proc -> OpenState] /\ opens'[p] = o
    BY DEF DIndInv, DTypeOK
<1>2. ASSUME NEW q \in Proc, NEW i \in 1..(opens'[q].at - 1)
      PROVE  InEffect(Statements[i], tables', indexed')
  <2>1. opens[q].at \in 1..18 /\ opens'[q].at \in 1..18 /\ opens[p].at \in 1..18
    BY <1>1, StatementCount DEF OpenState
  <2>2. CASE i \in 1..(opens[q].at - 1)
    <3>1. i \in 1..17 /\ InEffect(Statements[i], tables, indexed)
        BY <2>1, <2>2 DEF DIndInv, OpensFit
    <3> QED
        BY <3>1, StaysInEffect
  <2>3. CASE i \notin 1..(opens[q].at - 1)
    <3>1. q = p
        BY <1>1, <2>1, <2>3
    <3>2. i = opens[p].at /\ o.at = opens[p].at + 1
        BY <1>1, <2>1, <2>3, <3>1
    <3> QED
        BY <3>2
  <2> QED
    BY <2>2, <2>3
<1>3. ASSUME NEW q \in Proc
      PROVE  /\ opens'[q].pc = "altering" =>
                    opens'[q].at <= 17 /\ Statements[opens'[q].at].op \in {"add", "drop"}
             /\ opens'[q].pc = "open" => opens'[q].at = 18
  <2>1. CASE q = p
    BY <1>1, <2>1
  <2>2. CASE q # p
    <3>1. opens'[q] = opens[q]
        BY <1>1, <2>2
    <3> QED
        BY <3>1, StatementCount DEF DIndInv, OpensFit, At
  <2> QED
    BY <2>1, <2>2
<1> QED
    BY <1>1, <1>2, <1>3, StatementCount DEF DIndInv, DTypeOK, OpensFit, At

(* Tables left alone have grown, if nothing. *)
LEMMA NothingAltered ==
    ASSUME DIndInv, tables' = tables, indexed' \in {indexed, TRUE}
    PROVE  /\ Grown /\ ColumnsKnown'
           /\ tables' \in [Table -> SUBSET Column] /\ indexed' \in BOOLEAN
BY DEF DIndInv, DTypeOK, Grown, ColumnsKnown

(* A process that goes on past the statement it was at. *)
LEMMA GoesOn ==
    ASSUME DIndInv, NEW p \in Proc, opens[p].pc \in {"migrating", "altering"},
           opens[p].at <= 17, Proceed(p),
           tables' \in [Table -> SUBSET Column], indexed' \in BOOLEAN,
           ColumnsKnown', Grown, InEffect(At(p), tables', indexed')
    PROVE  DIndInv'
<1>1. opens \in [Proc -> OpenState] /\ opens[p] \in OpenState /\ opens[p].at \in 1..18
    BY StatementCount DEF DIndInv, DTypeOK, OpenState
<1> DEFINE o == [opens[p] EXCEPT !.pc = "migrating", !.at = opens[p].at + 1]
<1>2. o \in OpenState /\ o.pc = "migrating" /\ o.at = opens[p].at + 1
  <2>1. opens[p].at + 1 \in 1..(Len(Statements) + 1)
    BY <1>1, StatementCount
  <2> QED
    BY <1>1, <2>1 DEF OpenState
<1>3. opens' = [opens EXCEPT ![p] = o]
    BY DEF Proceed
<1> HIDE DEF o
<1> QED
    BY <1>2, <1>3, OpenMoves DEF At

(* A process that gives up, or ends. *)
LEMMA GivesUp ==
    ASSUME DIndInv, NEW p \in Proc, UNCHANGED <<tables, indexed>>, OpenFails(p)
    PROVE  DIndInv'
<1>1. opens \in [Proc -> OpenState] /\ opens[p].at \in 1..18
    BY StatementCount DEF DIndInv, DTypeOK, OpenState
<1>2. NotOpen \in OpenState /\ NotOpen.pc = "closed" /\ NotOpen.at = 1
    BY StatementCount DEF NotOpen, OpenState
<1>3. NotOpen.at # opens[p].at + 1
    BY <1>1, <1>2
<1> QED
    BY <1>2, <1>3, OpenMoves, NothingAltered DEF OpenFails

(* A process that stays at its statement, or has opened the database. *)
LEMMA Stays ==
    ASSUME DIndInv, NEW p \in Proc, UNCHANGED <<tables, indexed>>,
           NEW pc \in {"migrating", "altering", "open"},
           opens' = [opens EXCEPT ![p].pc = pc],
           pc = "altering" => opens[p].at <= 17 /\ At(p).op \in {"add", "drop"},
           pc = "open" => opens[p].at = 18
    PROVE  DIndInv'
<1>1. opens \in [Proc -> OpenState] /\ opens[p] \in OpenState /\ opens[p].at \in 1..18
    BY StatementCount DEF DIndInv, DTypeOK, OpenState
<1> DEFINE o == [opens[p] EXCEPT !.pc = pc]
<1>2. o \in OpenState /\ o.pc = pc /\ o.at = opens[p].at
    BY <1>1 DEF OpenState
<1>3. opens' = [opens EXCEPT ![p] = o] /\ o.at # opens[p].at + 1
    BY <1>1, <1>2
<1> HIDE DEF o
<1> QED
    BY <1>2, <1>3, OpenMoves, NothingAltered DEF At

(* Each statement of a migration. *)
LEMMA OpenNextStep ==
    ASSUME DIndInv, NEW p \in Proc, OpenNext(p)
    PROVE  DIndInv'
<1>0. /\ opens[p] \in OpenState /\ opens[p].at \in 1..18
      /\ tables \in [Table -> SUBSET Column] /\ indexed \in BOOLEAN
      /\ \A t \in Table : tables[t] \subseteq EverHad(t)
    BY StatementCount DEF DIndInv, DTypeOK, OpenState, ColumnsKnown
<1>1. opens[p].at <= 17 => /\ At(p).table \in Table
                           /\ At(p).op \in {"create", "add"} =>
                                  At(p).column \in Schema[At(p).table] /\ At(p).column # "status"
                           /\ At(p).op = "drop" => /\ At(p).table = "messages"
                                                   /\ At(p).column = "status"
  <2>1. opens[p].at <= 17 => opens[p].at \in 1..17
    BY <1>0
  <2> QED
    BY <2>1, StatementFacts DEF At
<1>2. /\ \A t \in Table : Schema[t] \subseteq EverHad(t) /\ "status" \notin Schema[t]
                          /\ Schema[t] \in SUBSET Column
      /\ "status" \in EverHad("messages") /\ "messages" \in Table
  <2>1. \A t \in Table : "status" \notin Schema[t]
    BY TableNames DEF Schema
  <2>2. \A t \in Table : Schema[t] \subseteq EverHad(t) /\ EverHad(t) \subseteq Column
    BY DEF EverHad, Column
  <2> QED
    BY <2>1, <2>2, TableNames DEF EverHad
<1>3. CASE CreateTable(p)
  <2>1. /\ opens[p].pc = "migrating" /\ opens[p].at <= 17 /\ At(p).op = "create"
        /\ indexed' = indexed /\ Proceed(p)
        /\ tables' = IF Has(p) THEN tables
                     ELSE [tables EXCEPT ![At(p).table] = Schema[At(p).table]]
    BY <1>3, StatementCount DEF CreateTable, Executing
  <2>2. CASE Has(p)
    <3>1. InEffect(At(p), tables', indexed')
        BY <2>1, <2>2 DEF InEffect, Has
    <3> QED
        BY <2>1, <2>2, <3>1, NothingAltered, GoesOn
  <2>3. CASE ~Has(p)
    <3>1. tables' = [tables EXCEPT ![At(p).table] = Schema[At(p).table]]
        BY <2>1, <2>3
    <3>2. tables' \in [Table -> SUBSET Column] /\ ColumnsKnown'
        BY <1>0, <1>1, <1>2, <2>1, <3>1 DEF ColumnsKnown
    <3>3. \A t \in Table : \A c \in tables[t] : c # "status" => c \in Schema[t]
        BY <1>0 DEF EverHad
    <3>4. Grown
        BY <1>0, <1>1, <1>2, <2>1, <3>1, <3>3 DEF Grown
    <3>5. InEffect(At(p), tables', indexed')
        BY <1>0, <1>1, <2>1, <3>1 DEF InEffect
    <3> QED
        BY <1>0, <2>1, <3>2, <3>4, <3>5, GoesOn
  <2> QED
    BY <2>2, <2>3
<1>4. CASE CreateIndex(p)
  <2>1. /\ opens[p].pc = "migrating" /\ opens[p].at <= 17 /\ At(p).op = "index"
        /\ tables' = tables
        /\ \/ indexed' = TRUE /\ Proceed(p)
           \/ indexed' = indexed /\ OpenFails(p)
    BY <1>4, StatementCount DEF CreateIndex, Executing
  <2>2. CASE indexed' = TRUE /\ Proceed(p)
    <3>1. InEffect(At(p), tables', indexed')
        BY <2>1, <2>2 DEF InEffect
    <3> QED
        BY <2>1, <2>2, <3>1, NothingAltered, GoesOn
  <2>3. CASE indexed' = indexed /\ OpenFails(p)
    BY <2>1, <2>3, GivesUp
  <2> QED
    BY <2>1, <2>2, <2>3
<1>5. CASE CheckColumn(p)
  <2>1. /\ opens[p].pc = "migrating" /\ opens[p].at <= 17 /\ At(p).op \in {"add", "drop"}
        /\ tables' = tables /\ indexed' = indexed
        /\ \/ (At(p).op = "add") = Has(p) /\ Proceed(p)
           \/ opens' = [opens EXCEPT ![p].pc = "altering"]
    BY <1>5, StatementCount DEF CheckColumn, Executing
  <2>2. CASE (At(p).op = "add") = Has(p) /\ Proceed(p)
    <3>1. InEffect(At(p), tables', indexed')
        BY <2>1, <2>2 DEF InEffect, Has
    <3> QED
        BY <2>1, <2>2, <3>1, NothingAltered, GoesOn
  <2>3. CASE opens' = [opens EXCEPT ![p].pc = "altering"]
    BY <2>1, <2>3, Stays
  <2> QED
    BY <2>1, <2>2, <2>3
<1>6. CASE AlterTable(p)
  <2>1. /\ opens[p].pc = "altering" /\ opens[p].at <= 17 /\ At(p).op \in {"add", "drop"}
        /\ indexed' = indexed
    BY <1>6, StatementCount DEF AlterTable, DIndInv, OpensFit
  <2>2. CASE (At(p).op = "add") = Has(p)
    BY <1>6, <2>1, <2>2, GivesUp DEF AlterTable
  <2>3. CASE (At(p).op = "add") # Has(p)
    <3>1. /\ tables' = [tables EXCEPT ![At(p).table] =
                           IF At(p).column \in @ THEN @ \ {At(p).column}
                                                 ELSE @ \cup {At(p).column}]
          /\ Proceed(p)
        BY <1>6, <2>3 DEF AlterTable
    <3>2. CASE At(p).op = "add"
      <4>1. tables' = [tables EXCEPT ![At(p).table] = @ \cup {At(p).column}]
        BY <1>0, <1>1, <2>1, <2>3, <3>1, <3>2 DEF Has
      <4>2. /\ tables' \in [Table -> SUBSET Column] /\ ColumnsKnown' /\ Grown
            /\ InEffect(At(p), tables', indexed')
        BY <1>0, <1>1, <1>2, <2>1, <3>2, <4>1 DEF ColumnsKnown, Grown, InEffect
      <4> QED
        BY <1>0, <2>1, <3>1, <4>2, GoesOn
    <3>3. CASE At(p).op = "drop"
      <4>1. tables' = [tables EXCEPT !["messages"] = @ \ {"status"}]
        <5>1. At(p).table = "messages" /\ At(p).column = "status"
            BY <1>1, <2>1, <3>3
        <5>2. "status" \in tables["messages"]
            BY <2>3, <3>3, <5>1 DEF Has
        <5> QED
            BY <1>0, <1>2, <3>1, <5>1, <5>2
      <4>2. /\ tables' \in [Table -> SUBSET Column] /\ ColumnsKnown' /\ Grown
            /\ InEffect(At(p), tables', indexed')
        BY <1>0, <1>1, <1>2, <2>1, <3>3, <4>1 DEF ColumnsKnown, Grown, InEffect
      <4> QED
        BY <1>0, <2>1, <3>1, <4>2, GoesOn
    <3> QED
        BY <2>1, <3>2, <3>3
  <2> QED
    BY <2>2, <2>3
<1>7. CASE Opened(p)
  <2>1. /\ opens[p].at = 18 /\ UNCHANGED <<tables, indexed>>
        /\ opens' = [opens EXCEPT ![p].pc = "open"]
    BY <1>0, <1>7, StatementCount DEF Opened
  <2> QED
    BY <2>1, Stays
<1> QED
    BY <1>3, <1>4, <1>5, <1>6, <1>7 DEF OpenNext

(* Every step of an installation preserves it. *)
LEMMA DNextStep ==
    ASSUME DIndInv, [UNext]_uvars
    PROVE  DIndInv'
<1>1. ASSUME NEW p \in Proc, BeginOpen(p) PROVE DIndInv'
    BY <1>1, Stays DEF BeginOpen
<1>2. ASSUME NEW p \in Proc, Close(p) PROVE DIndInv'
    BY <1>2, GivesUp DEF Close
<1>3. ASSUME UNCHANGED dvars PROVE DIndInv'
    BY <1>3 DEF dvars, DIndInv, DTypeOK, ColumnsKnown, OpensFit, At
<1>4. \/ UNCHANGED dvars
      \/ \E p \in Proc : BeginOpen(p) \/ OpenNext(p) \/ Close(p)
    BY DEF UNext, uvars, Start, OpenStep, LoadingStep, CommandEnds, Kill, Exit,
       ServeLoads, LeafEvent
<1> QED
    BY <1>1, <1>2, <1>3, <1>4, OpenNextStep

(* In every installation, with any number of processes and any database    *)
(* that an earlier version may have left, a process that has the database  *)
(* open finds the current schema.  The invariant says more: a statement    *)
(* that one process has left behind stays in effect whatever the others    *)
(* are at, so that the last one to open finds them all.                    *)
THEOREM OpenIsCurrent == USpec => []OpenMeansCurrent
<1>1. UInit => DIndInv
  <2> SUFFICES ASSUME UInit PROVE DIndInv
    OBVIOUS
  <2>1. /\ tables \in Databases /\ indexed \in BOOLEAN
        /\ opens = [p \in Proc |-> NotOpen]
    BY DEF UInit, DInit
  <2>2. NotOpen \in OpenState /\ NotOpen.pc = "closed" /\ NotOpen.at = 1
    BY StatementCount DEF NotOpen, OpenState
  <2>3. DTypeOK /\ ColumnsKnown
    BY <2>1, <2>2, DatabaseAssumption DEF DTypeOK, ColumnsKnown
  <2>4. OpensFit
    BY <2>1, <2>2 DEF OpensFit
  <2> QED
    BY <2>3, <2>4 DEF DIndInv
<1>2. DIndInv /\ [UNext]_uvars => DIndInv'
    BY DNextStep
<1>3. DIndInv => OpenMeansCurrent
  <2> SUFFICES ASSUME DIndInv, NEW p \in Proc, opens[p].pc = "open"
               PROVE  tables = Schema /\ indexed
    BY DEF OpenMeansCurrent
  <2>1. opens[p].at = 18
    BY StatementCount DEF DIndInv, OpensFit
  <2>2. \A i \in 1..17 : InEffect(Statements[i], tables, indexed)
    BY <2>1 DEF DIndInv, OpensFit
  <2> QED
    BY <2>2, AllInEffect DEF DIndInv
<1> QED
    BY <1>1, <1>2, <1>3, PTL DEF USpec

-----------------------------------------------------------------------------
(* The TLS identity: leaves *)

Content == [state : {"absent", "torn", "pem"}, key : Nat, by : Nat]
LoadState == [pc : {"none", "ca", "readCA", "leaf", "readLeaf", "checkLeaf",
                    "truncate", "fill", "loaded"},
              file : File, new : Nat,
              ca : Content, caKey : Content, leaf : Content, leafKey : Content]

ITypeOK ==
    /\ files \in [File -> Content]
    /\ loads \in [Proc -> LoadState]
    /\ lastKey \in Nat
    /\ expired \subseteq Nat

(* Key pairs are used after they were generated. *)
KeysKnown ==
    /\ \A f \in File : files[f].key <= lastKey
    /\ \A p \in Proc : loads[p].new <= lastKey
    /\ \A k \in expired : k <= lastKey

(* A leaf under way is fresh, and for the CA whose key the process holds. *)
Writing(l) == l.pc \in {"truncate", "fill"}
LeafFits(l, X) ==
    Writing(l) => /\ l.new \notin X
                  /\ l.file \in {Crt, Key} => l.caKey.key = l.ca.key
LeavesFit == \A p \in Proc : LeafFits(loads[p], expired)

LeafInv == ITypeOK /\ KeysKnown /\ LeavesFit

(* Files and what is held of them have their types. *)
LEMMA ContentTypes ==
    /\ Absent \in Content /\ Torn \in Content
    /\ \A k \in Nat : PrivateKey(k) \in Content /\ PrivateKey(k).key = k
                      /\ PrivateKey(k).state = "pem"
    /\ \A k, by \in Nat : Cert(k, by) \in Content /\ Cert(k, by).key = k
                          /\ Cert(k, by).by = by /\ Cert(k, by).state = "pem"
    /\ Absent.state = "absent" /\ Absent.key = 0 /\ Torn.state = "torn" /\ Torn.key = 0
    /\ NotLoaded \in LoadState /\ NotLoaded.pc = "none" /\ NotLoaded.new = 0
BY DEF Content, Absent, Torn, PrivateKey, Cert, NotLoaded, LoadState, File

(* A process whose load moves to l. *)
LEMMA LoadMoves ==
    ASSUME LeafInv, NEW p \in Proc, NEW l \in LoadState,
           loads' = [loads EXCEPT ![p] = l],
           files' \in [File -> Content], \A f \in File : files'[f].key <= lastKey',
           lastKey' \in Nat, lastKey <= lastKey', expired' = expired,
           l.new <= lastKey', LeafFits(l, expired)
    PROVE  LeafInv'
<1>1. /\ loads \in [Proc -> LoadState] /\ expired \subseteq Nat /\ lastKey \in Nat
      /\ \A q \in Proc : loads[q].new \in Nat /\ loads[q].new <= lastKey
      /\ \A k \in expired : k <= lastKey
    BY DEF LeafInv, ITypeOK, KeysKnown, LoadState
<1>2. ITypeOK'
    BY <1>1 DEF ITypeOK
<1>3. ASSUME NEW q \in Proc PROVE loads'[q].new <= lastKey'
  <2>1. CASE q = p
    BY <1>1, <2>1
  <2>2. CASE q # p
    BY <1>1, <2>2
  <2> QED
    BY <2>1, <2>2
<1>4. ASSUME NEW k \in expired PROVE k <= lastKey'
    BY <1>1
<1>5. ASSUME NEW q \in Proc PROVE LeafFits(loads'[q], expired)
    BY <1>1 DEF LeafInv, LeavesFit
<1> QED
    BY <1>2, <1>3, <1>4, <1>5 DEF LeafInv, KeysKnown, LeavesFit

(* A process that has the CA's certificate. *)
HoldsCA(l) ==
    \/ l.pc \in {"leaf", "readLeaf", "checkLeaf", "loaded"}
    \/ l.pc = "readCA" /\ l.file # CACrt
    \/ Writing(l) /\ l.file \in {Crt, Key}

(* What the load of p becomes in a step that writes no file: it may have   *)
(* failed, have read or checked something, or have a new key pair to       *)
(* write.                                                                  *)
BecomesReader(p, l) ==
    /\ loads' = [loads EXCEPT ![p] = l]
    /\ lastKey' \in Nat /\ lastKey <= lastKey' /\ l.new <= lastKey'
    /\ Writing(l) => /\ lastKey' = lastKey + 1 /\ l.new = lastKey'
                     /\ \/ l.file = CACrt /\ ~CAExists
                        \/ l.file = Crt /\ l.caKey.key = l.ca.key
    /\ l.pc = "readCA" => CAExists \/ loads[p].pc = "readCA"
    /\ HoldsCA(l) => \/ HoldsCA(loads[p]) /\ l.ca = loads[p].ca
                     \/ loads[p].pc = "readCA" /\ l.ca = files[CACrt]
    /\ l.pc = "loaded" => l.leaf.by = l.ca.key /\ l.leaf.key \notin expired

(* A load that fails. *)
LEMMA FailedLoad ==
    ASSUME LeafInv, NEW p \in Proc, LoadFails(p), lastKey' = lastKey
    PROVE  \E l \in LoadState : BecomesReader(p, l)
<1>1. lastKey \in Nat
    BY DEF LeafInv, ITypeOK
<1>2. NotLoaded \in LoadState /\ NotLoaded.pc = "none" /\ NotLoaded.new = 0
    BY ContentTypes
<1>3. BecomesReader(p, NotLoaded)
    BY <1>1, <1>2 DEF LoadFails, BecomesReader, Writing, HoldsCA
<1> QED
    BY <1>2, <1>3

(* createLeaf *)
LEMMA CreateLeafBecomes ==
    ASSUME LeafInv, NEW p \in Proc, HoldsCA(loads[p]), CreateLeaf(p)
    PROVE  \E l \in LoadState : BecomesReader(p, l)
<1>1. CASE loads[p].caKey.key = loads[p].ca.key
  <2>1. lastKey \in Nat /\ lastKey' = lastKey + 1 /\ loads[p] \in LoadState
        /\ loads' = [loads EXCEPT ![p].pc = "truncate", ![p].file = Crt, ![p].new = lastKey']
    BY <1>1 DEF CreateLeaf, Generate, LeafInv, ITypeOK
  <2>2. PICK k : k = lastKey'
    OBVIOUS
  <2>3. k \in Nat
    BY <2>1, <2>2
  <2> DEFINE l == [loads[p] EXCEPT !.pc = "truncate", !.file = Crt, !.new = k]
  <2>4. /\ l \in LoadState /\ l.pc = "truncate" /\ l.file = Crt /\ l.new = k
        /\ l.ca = loads[p].ca /\ l.caKey = loads[p].caKey
    BY <2>1, <2>3 DEF LoadState, File
  <2>5. loads' = [loads EXCEPT ![p] = l]
    BY <2>1, <2>2
  <2> HIDE DEF l
  <2>6. BecomesReader(p, l)
    <3>1. lastKey' \in Nat /\ lastKey <= lastKey' /\ l.new <= lastKey'
        BY <2>1, <2>2, <2>4
    <3> QED
        BY <1>1, <2>1, <2>2, <2>4, <2>5, <3>1 DEF BecomesReader, Writing
  <2> QED
    BY <2>4, <2>6
<1>2. CASE loads[p].caKey.key # loads[p].ca.key
    BY <1>2, FailedLoad DEF CreateLeaf
<1> QED
    BY <1>1, <1>2

(* A load that goes on to pc, at the file f, with no new key pair, and     *)
(* with c in the place of what it holds.                                   *)
LEMMA ReadOn ==
    ASSUME LeafInv, NEW p \in Proc, NEW l \in LoadState,
           loads' = [loads EXCEPT ![p] = l], lastKey' = lastKey,
           l.new = loads[p].new, ~Writing(l),
           l.pc = "readCA" => CAExists \/ loads[p].pc = "readCA",
           HoldsCA(l) => \/ HoldsCA(loads[p]) /\ l.ca = loads[p].ca
                         \/ loads[p].pc = "readCA" /\ l.ca = files[CACrt],
           l.pc = "loaded" => l.leaf.by = l.ca.key /\ l.leaf.key \notin expired
    PROVE  BecomesReader(p, l)
<1>1. lastKey \in Nat /\ loads[p].new <= lastKey /\ loads[p].new \in Nat
    BY DEF LeafInv, ITypeOK, KeysKnown, LoadState
<1> QED
    BY <1>1 DEF BecomesReader

(* Every such step. *)
LEMMA ReaderStep ==
    ASSUME LeafInv, NEW p \in Proc,
           BeginLoad(p) \/ StatCA(p) \/ ReadCA(p) \/ StatLeaf(p) \/ ReadLeaf(p)
               \/ CheckLeaf(p) \/ Unload(p)
    PROVE  /\ files' = files /\ expired' = expired
           /\ \E l \in LoadState : BecomesReader(p, l)
<1>0. /\ loads[p] \in LoadState /\ loads[p].file \in File /\ lastKey \in Nat
      /\ files[loads[p].file] \in Content /\ files[CACrt] \in Content
    BY DEF LeafInv, ITypeOK, LoadState, File
<1>1. files' = files /\ expired' = expired
    BY DEF BeginLoad, StatCA, ReadCA, StatLeaf, ReadLeaf, CheckLeaf, Unload
<1>2. CASE BeginLoad(p)
  <2> DEFINE l == [loads[p] EXCEPT !.pc = "ca"]
  <2>1. l \in LoadState /\ l.pc = "ca" /\ l.new = loads[p].new
    BY <1>0 DEF LoadState
  <2>2. loads' = [loads EXCEPT ![p] = l] /\ lastKey' = lastKey
    BY <1>2 DEF BeginLoad
  <2> HIDE DEF l
  <2>3. ~Writing(l) /\ ~HoldsCA(l)
    BY <2>1 DEF Writing, HoldsCA
  <2>4. BecomesReader(p, l)
    BY <2>1, <2>2, <2>3, ReadOn
  <2> QED
    BY <1>1, <2>1, <2>4
<1>3. CASE StatCA(p)
  <2>1. CASE CAExists
    <3> DEFINE l == [loads[p] EXCEPT !.pc = "readCA", !.file = CACrt]
    <3>1. l \in LoadState /\ l.pc = "readCA" /\ l.file = CACrt /\ l.new = loads[p].new
        BY <1>0 DEF LoadState, File
    <3>2. loads' = [loads EXCEPT ![p] = l] /\ lastKey' = lastKey
        BY <1>3, <2>1 DEF StatCA
    <3> HIDE DEF l
    <3>3. ~Writing(l) /\ ~HoldsCA(l)
        BY <3>1 DEF Writing, HoldsCA
    <3>4. BecomesReader(p, l)
        BY <2>1, <3>1, <3>2, <3>3, ReadOn
    <3> QED
        BY <1>1, <3>1, <3>4
  <2>2. CASE ~CAExists
    <3>1. lastKey' = lastKey + 1
          /\ loads' = [loads EXCEPT ![p].pc = "truncate", ![p].file = CACrt, ![p].new = lastKey']
        BY <1>3, <2>2 DEF StatCA, Generate
    <3>2. PICK k : k = lastKey'
        OBVIOUS
    <3>3. k \in Nat
        BY <1>0, <3>1, <3>2
    <3> DEFINE l == [loads[p] EXCEPT !.pc = "truncate", !.file = CACrt, !.new = k]
    <3>4. l \in LoadState /\ l.pc = "truncate" /\ l.file = CACrt /\ l.new = k
        BY <1>0, <3>3 DEF LoadState, File
    <3>5. loads' = [loads EXCEPT ![p] = l]
        BY <3>1, <3>2
    <3> HIDE DEF l
    <3>6. ~HoldsCA(l)
        BY <3>4 DEF HoldsCA, CACrt, Crt, Key
    <3>7. lastKey' \in Nat /\ lastKey <= lastKey' /\ l.new <= lastKey'
        BY <1>0, <3>1, <3>2, <3>4
    <3>8. BecomesReader(p, l)
        BY <2>2, <3>1, <3>2, <3>4, <3>5, <3>6, <3>7 DEF BecomesReader
    <3> QED
        BY <1>1, <3>4, <3>8
  <2> QED
    BY <2>1, <2>2
<1>4. CASE ReadCA(p)
  <2> DEFINE content == files[loads[p].file]
  <2>1. CASE content.state # "pem"
    BY <1>4, <2>1, FailedLoad DEF ReadCA
  <2>2. CASE content.state = "pem" /\ loads[p].file = CACrt
    <3> DEFINE l == [loads[p] EXCEPT !.ca = content, !.file = CAKey]
    <3>1. /\ l \in LoadState /\ l.pc = loads[p].pc /\ l.file = CAKey
          /\ l.new = loads[p].new /\ l.ca = files[CACrt]
        BY <1>0, <2>2 DEF LoadState, File
    <3>2. loads' = [loads EXCEPT ![p] = l] /\ lastKey' = lastKey /\ loads[p].pc = "readCA"
        BY <1>4, <2>2 DEF ReadCA
    <3> HIDE DEF l
    <3>3. ~Writing(l)
        BY <3>1, <3>2 DEF Writing
    <3>4. BecomesReader(p, l)
        BY <3>1, <3>2, <3>3, ReadOn
    <3> QED
        BY <1>1, <3>1, <3>4
  <2>3. CASE content.state = "pem" /\ loads[p].file # CACrt
    <3> DEFINE l == [loads[p] EXCEPT !.caKey = content, !.pc = "leaf"]
    <3>1. /\ l \in LoadState /\ l.pc = "leaf"
          /\ l.new = loads[p].new /\ l.ca = loads[p].ca
        BY <1>0, <2>3 DEF LoadState
    <3>2. loads' = [loads EXCEPT ![p] = l] /\ lastKey' = lastKey /\ loads[p].pc = "readCA"
        BY <1>4, <2>3 DEF ReadCA
    <3> HIDE DEF l
    <3>3. ~Writing(l) /\ HoldsCA(loads[p])
        BY <2>3, <3>1, <3>2 DEF Writing, HoldsCA
    <3>4. BecomesReader(p, l)
        BY <3>1, <3>2, <3>3, ReadOn
    <3> QED
        BY <1>1, <3>1, <3>4
  <2> QED
    BY <2>1, <2>2, <2>3
<1>5. CASE StatLeaf(p)
  <2>0. HoldsCA(loads[p])
    BY <1>5 DEF StatLeaf, HoldsCA
  <2>1. CASE FileExists(Crt) /\ FileExists(Key)
    <3> DEFINE l == [loads[p] EXCEPT !.pc = "readLeaf", !.file = Crt]
    <3>1. l \in LoadState /\ l.pc = "readLeaf" /\ l.new = loads[p].new /\ l.ca = loads[p].ca
        BY <1>0 DEF LoadState, File
    <3>2. loads' = [loads EXCEPT ![p] = l] /\ lastKey' = lastKey
        BY <1>5, <2>1 DEF StatLeaf
    <3> HIDE DEF l
    <3>3. ~Writing(l)
        BY <3>1 DEF Writing
    <3>4. BecomesReader(p, l)
        BY <2>0, <3>1, <3>2, <3>3, ReadOn
    <3> QED
        BY <1>1, <3>1, <3>4
  <2>2. CASE ~(FileExists(Crt) /\ FileExists(Key))
    BY <1>5, <2>0, <2>2, CreateLeafBecomes DEF StatLeaf
  <2> QED
    BY <2>1, <2>2
<1>6. CASE ReadLeaf(p)
  <2> DEFINE content == files[loads[p].file]
  <2>0. HoldsCA(loads[p])
    BY <1>6 DEF ReadLeaf, HoldsCA
  <2>1. CASE content.state # "pem"
    BY <1>6, <2>0, <2>1, CreateLeafBecomes DEF ReadLeaf
  <2>2. CASE content.state = "pem"
    <3> DEFINE l == IF loads[p].file = Crt
                    THEN [loads[p] EXCEPT !.leaf = content, !.file = Key]
                    ELSE [loads[p] EXCEPT !.leafKey = content, !.pc = "checkLeaf"]
    <3>1. loads[p].pc = "readLeaf" /\ loads' = [loads EXCEPT ![p] = l] /\ lastKey' = lastKey
        BY <1>6, <2>2 DEF ReadLeaf
    <3>2. /\ l \in LoadState /\ l.pc \in {"readLeaf", "checkLeaf"}
          /\ l.new = loads[p].new /\ l.ca = loads[p].ca
      <4>1. CASE loads[p].file = Crt
        BY <1>0, <3>1, <4>1 DEF LoadState, File
      <4>2. CASE loads[p].file # Crt
        BY <1>0, <3>1, <4>2 DEF LoadState, File
      <4> QED
        BY <4>1, <4>2
    <3> HIDE DEF l
    <3>3. ~Writing(l)
        BY <3>2 DEF Writing
    <3>4. BecomesReader(p, l)
        BY <2>0, <3>1, <3>2, <3>3, ReadOn
    <3> QED
        BY <1>1, <3>2, <3>4
  <2> QED
    BY <2>1, <2>2
<1>7. CASE CheckLeaf(p)
  <2>0. HoldsCA(loads[p])
    BY <1>7 DEF CheckLeaf, HoldsCA
  <2>1. CASE LeafUsable(p)
    <3> DEFINE l == [loads[p] EXCEPT !.pc = "loaded"]
    <3>1. /\ l \in LoadState /\ l.pc = "loaded" /\ l.new = loads[p].new
          /\ l.ca = loads[p].ca /\ l.leaf = loads[p].leaf
        BY <1>0 DEF LoadState
    <3>2. loads' = [loads EXCEPT ![p] = l] /\ lastKey' = lastKey
        BY <1>7, <2>1 DEF CheckLeaf
    <3>3. l.leaf.by = l.ca.key /\ l.leaf.key \notin expired
        BY <2>1, <3>1 DEF LeafUsable
    <3> HIDE DEF l
    <3>4. ~Writing(l)
        BY <3>1 DEF Writing
    <3>5. BecomesReader(p, l)
        BY <2>0, <3>1, <3>2, <3>3, <3>4, ReadOn
    <3> QED
        BY <1>1, <3>1, <3>5
  <2>2. CASE ~LeafUsable(p)
    BY <1>7, <2>0, <2>2, CreateLeafBecomes DEF CheckLeaf
  <2> QED
    BY <2>1, <2>2
<1>8. CASE Unload(p)
    BY <1>8, FailedLoad DEF Unload
<1> QED
    BY <1>1, <1>2, <1>3, <1>4, <1>5, <1>6, <1>7, <1>8

(* What the load of p becomes when it has written c into its file. *)
BecomesWriter(p, l, c) ==
    /\ Writing(loads[p])
    /\ loads' = [loads EXCEPT ![p] = l]
    /\ files' = [files EXCEPT ![loads[p].file] = c]
    /\ lastKey' = lastKey /\ expired' = expired
    /\ l.new = loads[p].new
    /\ \/ /\ loads[p].pc = "truncate" /\ c = Torn
          /\ l.pc = "fill" /\ l.file = loads[p].file
          /\ l.ca = loads[p].ca /\ l.caKey = loads[p].caKey
       \/ /\ loads[p].pc = "fill" /\ loads[p].file = CACrt
          /\ c = Cert(l.new, l.new)
          /\ l.pc = "truncate" /\ l.file = CAKey
       \/ /\ loads[p].pc = "fill" /\ loads[p].file = CAKey
          /\ c = PrivateKey(l.new)
          /\ l.pc = "leaf" /\ l.ca = Cert(l.new, l.new)
       \/ /\ loads[p].pc = "fill" /\ loads[p].file = Crt
          /\ c = Cert(l.new, loads[p].caKey.key)
          /\ l.pc = "truncate" /\ l.file = Key
          /\ l.ca = loads[p].ca /\ l.caKey = loads[p].caKey
       \/ /\ loads[p].pc = "fill" /\ loads[p].file = Key
          /\ c = PrivateKey(l.new)
          /\ l.pc = "loaded" /\ l.ca = loads[p].ca
          /\ l.leaf = Cert(l.new, loads[p].caKey.key)

(* Every step that writes a file. *)
LEMMA WriterStep ==
    ASSUME LeafInv, NEW p \in Proc, Truncate(p) \/ Fill(p)
    PROVE  \E l \in LoadState, c \in Content : BecomesWriter(p, l, c) /\ c.key <= lastKey
<1>0. /\ loads[p] \in LoadState /\ loads[p].file \in File /\ lastKey \in Nat
      /\ loads[p].new \in Nat /\ loads[p].new <= lastKey /\ loads[p].caKey.key \in Nat
    BY DEF LeafInv, ITypeOK, LoadState, KeysKnown, Content
<1>1. CASE Truncate(p)
  <2> DEFINE l == [loads[p] EXCEPT !.pc = "fill"]
  <2>1. /\ l \in LoadState /\ l.pc = "fill" /\ l.new = loads[p].new /\ l.file = loads[p].file
        /\ l.ca = loads[p].ca /\ l.caKey = loads[p].caKey
    BY <1>0 DEF LoadState
  <2>2. /\ loads[p].pc = "truncate" /\ loads' = [loads EXCEPT ![p] = l]
        /\ files' = [files EXCEPT ![loads[p].file] = Torn]
        /\ lastKey' = lastKey /\ expired' = expired
    BY <1>1 DEF Truncate
  <2> HIDE DEF l
  <2>3. BecomesWriter(p, l, Torn)
    BY <2>1, <2>2 DEF BecomesWriter, Writing
  <2> QED
    BY <1>0, <2>1, <2>3, ContentTypes
<1>2. ASSUME NEW l \in LoadState, NEW c \in Content, BecomesWriter(p, l, c),
             c.key = loads[p].new
      PROVE  \E m \in LoadState, d \in Content : BecomesWriter(p, m, d) /\ d.key <= lastKey
    BY <1>0, <1>2
<1>3. CASE Fill(p)
  <2> DEFINE k == loads[p].new
             ca == Cert(k, k)
             leaf == Cert(k, loads[p].caKey.key)
             key == PrivateKey(k)
  <2>0. /\ ca \in Content /\ leaf \in Content /\ key \in Content
        /\ ca.key = k /\ leaf.key = k /\ key.key = k
    BY <1>0, ContentTypes
  <2>1. /\ loads[p].pc = "fill" /\ lastKey' = lastKey /\ expired' = expired
        /\ files' = [files EXCEPT ![loads[p].file] =
                CASE loads[p].file = CACrt         -> ca
                  [] loads[p].file = Crt           -> leaf
                  [] loads[p].file \in {CAKey, Key} -> key]
        /\ loads' = [loads EXCEPT ![p] =
                CASE loads[p].file = CACrt -> [loads[p] EXCEPT !.pc = "truncate", !.file = CAKey]
                  [] loads[p].file = CAKey -> [loads[p] EXCEPT !.pc = "leaf", !.ca = ca, !.caKey = key]
                  [] loads[p].file = Crt   -> [loads[p] EXCEPT !.pc = "truncate", !.file = Key]
                  [] loads[p].file = Key   -> [loads[p] EXCEPT !.pc = "loaded", !.leaf = leaf,
                                                               !.leafKey = key]]
    BY <1>3 DEF Fill
  <2> HIDE DEF ca, leaf, key
  <2>2. CASE loads[p].file = CACrt
    <3> DEFINE l == [loads[p] EXCEPT !.pc = "truncate", !.file = CAKey]
    <3>1. l \in LoadState /\ l.pc = "truncate" /\ l.file = CAKey /\ l.new = k
        BY <1>0 DEF LoadState, File
    <3>2. files' = [files EXCEPT ![loads[p].file] = ca] /\ loads' = [loads EXCEPT ![p] = l]
        BY <2>1, <2>2 DEF CACrt, CAKey, Crt, Key
    <3> HIDE DEF l
    <3>3. BecomesWriter(p, l, ca)
        BY <2>1, <2>2, <3>1, <3>2 DEF BecomesWriter, Writing, ca
    <3> QED
        BY <1>2, <2>0, <3>1, <3>3
  <2>3. CASE loads[p].file = CAKey
    <3> DEFINE l == [loads[p] EXCEPT !.pc = "leaf", !.ca = ca, !.caKey = key]
    <3>1. l \in LoadState /\ l.pc = "leaf" /\ l.ca = ca /\ l.new = k
        BY <1>0, <2>0 DEF LoadState
    <3>2. files' = [files EXCEPT ![loads[p].file] = key] /\ loads' = [loads EXCEPT ![p] = l]
        BY <2>1, <2>3 DEF CACrt, CAKey, Crt, Key
    <3> HIDE DEF l
    <3>3. BecomesWriter(p, l, key)
        BY <2>1, <2>3, <3>1, <3>2 DEF BecomesWriter, Writing, ca, key
    <3> QED
        BY <1>2, <2>0, <3>1, <3>3
  <2>4. CASE loads[p].file = Crt
    <3> DEFINE l == [loads[p] EXCEPT !.pc = "truncate", !.file = Key]
    <3>1. /\ l \in LoadState /\ l.pc = "truncate" /\ l.file = Key /\ l.new = k
          /\ l.ca = loads[p].ca /\ l.caKey = loads[p].caKey
        BY <1>0 DEF LoadState, File
    <3>2. files' = [files EXCEPT ![loads[p].file] = leaf] /\ loads' = [loads EXCEPT ![p] = l]
        BY <2>1, <2>4 DEF CACrt, CAKey, Crt, Key
    <3> HIDE DEF l
    <3>3. BecomesWriter(p, l, leaf)
        BY <2>1, <2>4, <3>1, <3>2 DEF BecomesWriter, Writing, leaf
    <3> QED
        BY <1>2, <2>0, <3>1, <3>3
  <2>5. CASE loads[p].file = Key
    <3> DEFINE l == [loads[p] EXCEPT !.pc = "loaded", !.leaf = leaf, !.leafKey = key]
    <3>1. /\ l \in LoadState /\ l.pc = "loaded" /\ l.leaf = leaf /\ l.new = k
          /\ l.ca = loads[p].ca
        BY <1>0, <2>0 DEF LoadState
    <3>2. files' = [files EXCEPT ![loads[p].file] = key] /\ loads' = [loads EXCEPT ![p] = l]
        BY <2>1, <2>5 DEF CACrt, CAKey, Crt, Key
    <3> HIDE DEF l
    <3>3. BecomesWriter(p, l, key)
        BY <2>1, <2>5, <3>1, <3>2 DEF BecomesWriter, Writing, leaf, key
    <3> QED
        BY <1>2, <2>0, <3>1, <3>3
  <2> QED
    BY <1>0, <2>2, <2>3, <2>4, <2>5 DEF File
<1> QED
    BY <1>1, <1>3

(* A step of the installation, as far as the identity is concerned. *)
IdentityStep ==
    \/ UNCHANGED <<ivars, announced, raced>>
    \/ \E p \in Proc : (BeginLoad(p) \/ Unload(p)) /\ UNCHANGED <<announced, raced>>
    \/ \E p \in Proc :
          /\ LoadNext(p)
          /\ announced' = IF Loaded(p)' THEN announced \cup {Fingerprint(p)'} ELSE announced
          /\ raced' = (raced \/ \E q \in Proc \ {p} : CreatingCA(q) /\ CreatingCA(p)')
    \/ (LeafExpires \/ \E f \in File : DeleteLeafFile(f)) /\ UNCHANGED <<announced, raced>>

(* Opening the database is no concern of it. *)
LEMMA IsIdentityStep ==
    ASSUME [UNext]_uvars
    PROVE  IdentityStep
<1>1. ASSUME UNCHANGED uvars \/ ServeLoads \/ LeafEvent
      PROVE  IdentityStep
  <2>1. ASSUME BeginLoad(Serve), UNCHANGED <<announced, raced>>
        PROVE  IdentityStep
    BY <2>1 DEF IdentityStep, Proc
  <2> QED
    BY <1>1, <2>1 DEF uvars, ServeLoads, LeafEvent, rest, IdentityStep
<1>2. ASSUME NEW p \in Proc, Start(p) \/ OpenStep(p) \/ CommandEnds(p) \/ Kill(p)
      PROVE  IdentityStep
    BY <1>2 DEF Start, OpenStep, CommandEnds, Kill, Exit, IdentityStep
<1>3. ASSUME NEW p \in Proc, LoadingStep(p)
      PROVE  IdentityStep
    BY <1>3 DEF LoadingStep, IdentityStep
<1> QED
    BY <1>1, <1>2, <1>3 DEF UNext

(* Two views of a step of LoadNext. *)
LEMMA LoadNextBecomes ==
    ASSUME LeafInv, NEW p \in Proc, LoadNext(p)
    PROVE  \/ /\ files' = files /\ expired' = expired
              /\ \E l \in LoadState : BecomesReader(p, l)
           \/ \E l \in LoadState, c \in Content : BecomesWriter(p, l, c) /\ c.key <= lastKey
BY ReaderStep, WriterStep DEF LoadNext

(* The steps that only read leave the leaves as they should be, *)
LEMMA ReaderLeaves ==
    ASSUME LeafInv, NEW p \in Proc, NEW l \in LoadState, BecomesReader(p, l),
           files' = files, expired' = expired
    PROVE  LeafInv'
<1>1. /\ files \in [File -> Content] /\ lastKey \in Nat /\ expired \subseteq Nat
      /\ \A f \in File : files[f].key \in Nat /\ files[f].key <= lastKey
      /\ \A k \in expired : k <= lastKey
    BY DEF LeafInv, ITypeOK, KeysKnown, Content
<1>2. lastKey' \in Nat /\ lastKey <= lastKey' /\ l.new <= lastKey'
    BY DEF BecomesReader
<1>3. \A f \in File : files'[f].key <= lastKey'
    BY <1>1, <1>2
<1>4. LeafFits(l, expired)
  <2> SUFFICES ASSUME Writing(l) PROVE LeafFits(l, expired)
    BY DEF LeafFits
  <2>1. l.new = lastKey + 1
    BY DEF BecomesReader
  <2>2. l.new \notin expired
    BY <1>1, <2>1
  <2>3. l.file \in {Crt, Key} => l.caKey.key = l.ca.key
    BY DEF BecomesReader, CACrt, Crt, Key
  <2> QED
    BY <2>2, <2>3 DEF LeafFits
<1> QED
    BY <1>1, <1>2, <1>3, <1>4, LoadMoves DEF BecomesReader

(* and so do the steps that write a file, *)
LEMMA WriterLeaves ==
    ASSUME LeafInv, NEW p \in Proc, NEW l \in LoadState, NEW c \in Content,
           BecomesWriter(p, l, c), c.key <= lastKey
    PROVE  LeafInv'
<1>1. /\ files \in [File -> Content] /\ lastKey \in Nat
      /\ \A f \in File : files[f].key \in Nat /\ files[f].key <= lastKey
      /\ loads[p].new <= lastKey /\ loads[p].file \in File
      /\ LeafFits(loads[p], expired)
    BY DEF LeafInv, ITypeOK, KeysKnown, Content, LoadState, LeavesFit
<1>2. /\ loads' = [loads EXCEPT ![p] = l] /\ files' = [files EXCEPT ![loads[p].file] = c]
      /\ lastKey' = lastKey /\ expired' = expired /\ l.new = loads[p].new
      /\ Writing(loads[p])
    BY DEF BecomesWriter
<1>3. files' \in [File -> Content] /\ \A f \in File : files'[f].key <= lastKey
    BY <1>1, <1>2
<1>4. LeafFits(l, expired)
    BY <1>1, <1>2 DEF LeafFits, Writing, BecomesWriter, CACrt, CAKey, Crt, Key
<1>5. lastKey <= lastKey' /\ l.new <= lastKey'
    BY <1>1, <1>2
<1> QED
    BY <1>1, <1>2, <1>3, <1>4, <1>5, LoadMoves

(* and so do an operator who rotates the leaf, and time. *)
LEMMA LeafInvStep ==
    ASSUME LeafInv, IdentityStep
    PROVE  LeafInv'
<1>0. /\ files \in [File -> Content] /\ loads \in [Proc -> LoadState]
      /\ lastKey \in Nat /\ expired \subseteq Nat
      /\ \A f \in File : files[f].key \in Nat /\ files[f].key <= lastKey
    BY DEF LeafInv, ITypeOK, KeysKnown, Content
<1>1. CASE UNCHANGED ivars
    BY <1>1 DEF ivars, LeafInv, ITypeOK, KeysKnown, LeavesFit
<1>2. ASSUME NEW p \in Proc, BeginLoad(p) \/ Unload(p)
      PROVE  LeafInv'
    BY <1>2, ReaderStep, ReaderLeaves
<1>3. ASSUME NEW p \in Proc, LoadNext(p)
      PROVE  LeafInv'
    BY <1>3, LoadNextBecomes, ReaderLeaves, WriterLeaves
<1>4. CASE LeafExpires
  <2>1. /\ files' = files /\ loads' = loads /\ lastKey' = lastKey
        /\ expired' = expired \cup {files[Crt].key} /\ Crt \in File
        /\ \A p \in Proc : loads[p].new = files[Crt].key => loads[p].pc = "loaded"
    BY <1>4 DEF LeafExpires, File
  <2>2. ITypeOK' /\ KeysKnown'
    BY <1>0, <2>1 DEF LeafInv, ITypeOK, KeysKnown
  <2>3. ASSUME NEW p \in Proc PROVE LeafFits(loads[p], expired')
    <3>1. LeafFits(loads[p], expired)
        BY DEF LeafInv, LeavesFit
    <3>2. Writing(loads[p]) => loads[p].new # files[Crt].key
        BY <2>1 DEF Writing
    <3> QED
        BY <2>1, <3>1, <3>2 DEF LeafFits
  <2> QED
    BY <2>1, <2>2, <2>3 DEF LeafInv, LeavesFit
<1>5. ASSUME NEW f \in File, DeleteLeafFile(f)
      PROVE  LeafInv'
  <2>1. /\ files' = [files EXCEPT ![f] = Absent]
        /\ UNCHANGED <<loads, lastKey, expired>>
    BY <1>5 DEF DeleteLeafFile
  <2>2. files' \in [File -> Content] /\ \A g \in File : files'[g].key <= lastKey
    BY <1>0, <2>1, ContentTypes
  <2> QED
    BY <2>1, <2>2 DEF LeafInv, ITypeOK, KeysKnown, LeavesFit
<1> QED
    BY <1>1, <1>2, <1>3, <1>4, <1>5 DEF IdentityStep

(* The leaf part of the invariant holds throughout. *)
LEMMA LeafInvHolds == USpec => []LeafInv
<1>1. UInit => LeafInv
  <2> SUFFICES ASSUME UInit PROVE LeafInv
    OBVIOUS
  <2>1. /\ files = [f \in File |-> Absent] /\ loads = [p \in Proc |-> NotLoaded]
        /\ lastKey = 0 /\ expired = {}
    BY DEF UInit, IInit
  <2>2. ITypeOK /\ KeysKnown
    BY <2>1, ContentTypes DEF ITypeOK, KeysKnown
  <2>3. LeavesFit
    BY <2>1, ContentTypes DEF LeavesFit, LeafFits, Writing
  <2> QED
    BY <2>2, <2>3 DEF LeafInv
<1>2. LeafInv /\ [UNext]_uvars => LeafInv'
    BY IsIdentityStep, LeafInvStep
<1> QED
    BY <1>1, <1>2, PTL DEF USpec

(* In every installation, a process that has loaded an identity presents a *)
(* leaf that a client accepts under the fingerprint it announces, whatever *)
(* the files it found, the processes alongside and the crashes before.     *)
THEOREM LoadedAccepted == USpec => LoadedIsAccepted
<1>1. ASSUME LeafInv, IdentityStep, NEW p \in Proc, ~Loaded(p), Loaded(p)'
      PROVE  VerifyPinned(p, Fingerprint(p))'
  <2>0. loads \in [Proc -> LoadState] /\ loads[p].pc # "loaded" /\ loads'[p].pc = "loaded"
    BY <1>1 DEF LeafInv, ITypeOK, Loaded
  <2>1. ASSUME NEW q \in Proc, NEW l \in LoadState, loads' = [loads EXCEPT ![q] = l]
        PROVE  q = p /\ loads'[p] = l /\ l.pc = "loaded"
    BY <2>0, <2>1
  <2>2. ASSUME NEW q \in Proc, NEW l \in LoadState, BecomesReader(q, l), expired' = expired
        PROVE  /\ loads'[p].leaf.by = loads'[p].ca.key
               /\ loads'[p].leaf.key \notin expired'
    <3>1. loads' = [loads EXCEPT ![q] = l]
        BY <2>2 DEF BecomesReader
    <3>2. loads'[p] = l /\ l.pc = "loaded"
        BY <2>1, <3>1
    <3> QED
        BY <2>2, <3>2 DEF BecomesReader
  <2>3. ASSUME NEW q \in Proc, NEW l \in LoadState, NEW c \in Content, BecomesWriter(q, l, c)
        PROVE  /\ loads'[p].leaf.by = loads'[p].ca.key
               /\ loads'[p].leaf.key \notin expired'
    <3>1. q = p /\ loads'[p] = l /\ l.pc = "loaded"
        BY <2>1, <2>3 DEF BecomesWriter
    <3>2. /\ Writing(loads[p]) /\ loads[p].file = Key /\ l.ca = loads[p].ca
          /\ l.new = loads[p].new /\ l.leaf = Cert(l.new, loads[p].caKey.key)
          /\ expired' = expired
        BY <2>3, <3>1 DEF BecomesWriter
    <3>3. LeafFits(loads[p], expired) /\ loads[p].caKey.key \in Nat /\ l.new \in Nat
        BY <1>1, <2>0 DEF LeafInv, LeavesFit, LoadState, Content
    <3>4. l.leaf.by = loads[p].caKey.key /\ l.leaf.key = l.new
        BY <3>2, <3>3, ContentTypes
    <3> QED
        BY <3>1, <3>2, <3>3, <3>4 DEF LeafFits
  <2>4. \/ \E q \in Proc : BeginLoad(q) \/ Unload(q)
        \/ \E q \in Proc : LoadNext(q)
    <3>1. loads' # loads
        BY <2>0
    <3> QED
        BY <1>1, <3>1 DEF IdentityStep, ivars, LeafExpires, DeleteLeafFile
  <2>5. /\ loads'[p].leaf.by = loads'[p].ca.key
        /\ loads'[p].leaf.key \notin expired'
    <3>1. ASSUME NEW q \in Proc, BeginLoad(q) \/ Unload(q)
          PROVE  expired' = expired /\ \E l \in LoadState : BecomesReader(q, l)
        BY <1>1, <3>1, ReaderStep
    <3>2. ASSUME NEW q \in Proc, LoadNext(q)
          PROVE  \/ expired' = expired /\ \E l \in LoadState : BecomesReader(q, l)
                 \/ \E l \in LoadState, c \in Content : BecomesWriter(q, l, c)
        BY <1>1, <3>2, LoadNextBecomes
    <3> QED
        BY <2>2, <2>3, <2>4, <3>1, <3>2
  <2> QED
    BY <2>5 DEF VerifyPinned, Fingerprint
<1>2. LeafInv /\ [UNext]_uvars => [LoadStep]_ivars
    BY <1>1, IsIdentityStep DEF LoadStep
<1> QED
    BY <1>2, LeafInvHolds, PTL DEF USpec, LoadedIsAccepted

-----------------------------------------------------------------------------
(* The TLS identity: the CA *)

(* The creator of a CA, with the files F: it writes the certificate while  *)
(* there is no key, and the key when there is its certificate.             *)
Creating(l) == Writing(l) /\ l.file \in {CACrt, CAKey}
CreatorFits(l, F) ==
    Creating(l) =>
        /\ l.file = CACrt \/ l.pc = "truncate" => F[CAKey].state = "absent"
        /\ l.file = CAKey => F[CACrt] = Cert(l.new, l.new)

(* Whoever has the CA has the one on disk, which is there to stay. *)
HolderFits(l, F) ==
    /\ l.pc = "readCA" => F[CAKey].state # "absent"
    /\ HoldsCA(l) => F[CAKey].state # "absent" /\ l.ca.key = F[CACrt].key

(* Unless two processes created a CA at the same time, there is one. *)
OneCA ==
    /\ \A p, q \in Proc : Creating(loads[p]) /\ Creating(loads[q]) => p = q
    /\ \A p \in Proc : CreatorFits(loads[p], files) /\ HolderFits(loads[p], files)
    /\ \A k \in announced : files[CAKey].state # "absent" /\ k = files[CACrt].key
    /\ files[CAKey].state # "absent" => files[CACrt].state # "absent"
CAInv == raced \/ OneCA

(* The load of p moves to l, and nobody else is the worse for it. *)
LEMMA OneCAMoves ==
    ASSUME ITypeOK, OneCA, NEW p \in Proc, NEW l \in LoadState,
           loads' = [loads EXCEPT ![p] = l],
           \A q \in Proc \ {p} : ~(Creating(loads[q]) /\ Creating(l)),
           CreatorFits(l, files'), HolderFits(l, files'),
           \A q \in Proc \ {p} : CreatorFits(loads[q], files') /\ HolderFits(loads[q], files'),
           announced' \subseteq announced \cup {k \in {l.ca.key} : HoldsCA(l)},
           \A k \in announced : files'[CAKey].state # "absent" /\ k = files'[CACrt].key,
           files'[CAKey].state # "absent" => files'[CACrt].state # "absent"
    PROVE  OneCA'
<1>1. /\ loads'[p] = l
      /\ \A q \in Proc \ {p} : loads'[q] = loads[q]
    BY DEF ITypeOK
<1>2. ASSUME NEW q \in Proc, NEW r \in Proc, Creating(loads'[q]), Creating(loads'[r])
      PROVE  q = r
    BY <1>1, <1>2 DEF OneCA
<1>3. ASSUME NEW q \in Proc
      PROVE  CreatorFits(loads'[q], files') /\ HolderFits(loads'[q], files')
    BY <1>1
<1>4. ASSUME NEW k \in announced'
      PROVE  files'[CAKey].state # "absent" /\ k = files'[CACrt].key
  <2>1. CASE k \in announced
    BY <2>1
  <2>2. CASE k = l.ca.key /\ HoldsCA(l)
    BY <2>2 DEF HolderFits
  <2> QED
    BY <2>1, <2>2
<1> QED
    BY <1>2, <1>3, <1>4 DEF OneCA

(* A step that leaves the CA's files alone. *)
LEMMA ReaderOneCA ==
    ASSUME LeafInv, OneCA, NEW p \in Proc, NEW l \in LoadState, BecomesReader(p, l),
           files' = files,
           \A q \in Proc \ {p} : ~(Creating(loads[q]) /\ Creating(l)),
           announced' \subseteq announced \cup {k \in {l.ca.key} : HoldsCA(l)}
    PROVE  OneCA'
<1>1. /\ ITypeOK /\ loads' = [loads EXCEPT ![p] = l]
      /\ CreatorFits(loads[p], files) /\ HolderFits(loads[p], files)
    BY DEF LeafInv, OneCA, BecomesReader
<1>2. CreatorFits(l, files)
  <2> SUFFICES ASSUME Creating(l)
               PROVE  files[CAKey].state = "absent" /\ l.file = CACrt
    BY DEF CreatorFits, CACrt, CAKey
  <2>1. l.file = CACrt /\ ~CAExists
    BY DEF Creating, BecomesReader, CACrt, CAKey, Crt
  <2> QED
    BY <2>1 DEF CAExists, FileExists, OneCA
<1>3. HolderFits(l, files)
  <2>1. CAExists => files[CAKey].state # "absent"
    BY DEF CAExists, FileExists
  <2>2. l.pc = "readCA" => files[CAKey].state # "absent"
    BY <1>1, <2>1 DEF BecomesReader, HolderFits
  <2>3. HoldsCA(l) => files[CAKey].state # "absent" /\ l.ca.key = files[CACrt].key
    BY <1>1 DEF BecomesReader, HolderFits
  <2> QED
    BY <2>2, <2>3 DEF HolderFits
<1> QED
    BY <1>1, <1>2, <1>3, OneCAMoves DEF OneCA

(* A step that writes a file: a creator's files are its own, and a leaf's  *)
(* file is none of the CA's.                                               *)
LEMMA WriterOneCA ==
    ASSUME LeafInv, OneCA, NEW p \in Proc, NEW l \in LoadState, NEW c \in Content,
           BecomesWriter(p, l, c),
           \A q \in Proc \ {p} : ~(Creating(loads[q]) /\ Creating(l)),
           announced' \subseteq announced \cup {k \in {l.ca.key} : HoldsCA(l)}
    PROVE  OneCA'
<1>1. /\ ITypeOK /\ loads' = [loads EXCEPT ![p] = l] /\ files \in [File -> Content]
      /\ files' = [files EXCEPT ![loads[p].file] = c] /\ loads[p].file \in File
      /\ l.new \in Nat /\ loads[p].new = l.new
      /\ CreatorFits(loads[p], files) /\ HolderFits(loads[p], files)
      /\ Writing(loads[p])
    BY DEF LeafInv, ITypeOK, OneCA, BecomesWriter, LoadState
<1>2. CACrt \in File /\ CAKey \in File /\ CACrt # CAKey
    BY DEF File, CACrt, CAKey
<1>3. c.state # "absent"
  <2>1. l.new \in Nat /\ loads[p].caKey.key \in Nat
    BY <1>1 DEF ITypeOK, LoadState, Content
  <2>2. \/ c = Torn \/ c = Cert(l.new, l.new) \/ c = PrivateKey(l.new)
        \/ c = Cert(l.new, loads[p].caKey.key)
    BY DEF BecomesWriter
  <2> QED
    BY <2>1, <2>2, ContentTypes
<1>4. CASE loads[p].file \in {Crt, Key}
  <2>1. files'[CACrt] = files[CACrt] /\ files'[CAKey] = files[CAKey]
    BY <1>1, <1>2, <1>4 DEF CACrt, CAKey, Crt, Key
  <2>2. HoldsCA(loads[p]) /\ l.ca = loads[p].ca /\ l.pc # "readCA" /\ ~Creating(l)
    BY <1>1, <1>4 DEF HoldsCA, BecomesWriter, Creating, Writing, CACrt, CAKey, Crt, Key
  <2>3. CreatorFits(l, files') /\ HolderFits(l, files')
    BY <1>1, <2>1, <2>2 DEF CreatorFits, HolderFits
  <2>4. \A q \in Proc \ {p} : CreatorFits(loads[q], files') /\ HolderFits(loads[q], files')
    BY <2>1 DEF OneCA, CreatorFits, HolderFits
  <2> QED
    BY <1>1, <2>1, <2>3, <2>4, OneCAMoves DEF OneCA
<1>5. CASE loads[p].file \in {CACrt, CAKey}
  <2>1. Creating(loads[p]) /\ \A q \in Proc \ {p} : ~Creating(loads[q])
    BY <1>1, <1>5 DEF OneCA, Creating
  <2>2. \A q \in Proc \ {p} : CreatorFits(loads[q], files')
    BY <2>1 DEF CreatorFits
  <2>3. CASE loads[p].file = CACrt
    <3>1. files[CAKey].state = "absent" /\ files'[CAKey].state = "absent"
        BY <1>1, <1>2, <2>1, <2>3 DEF CreatorFits
    <3>2. announced = {} /\ \A q \in Proc : loads[q].pc # "readCA" /\ ~HoldsCA(loads[q])
        BY <3>1 DEF OneCA, HolderFits
    <3>3. \/ l.pc = "fill" /\ l.file = CACrt
          \/ l.pc = "truncate" /\ l.file = CAKey /\ c = Cert(l.new, l.new)
        BY <2>3 DEF BecomesWriter, CACrt, CAKey, Crt, Key
    <3>4. CreatorFits(l, files') /\ HolderFits(l, files')
      <4>1. files'[CACrt] = c
        BY <1>1, <1>2, <2>3
      <4>2. l.pc # "readCA" /\ ~HoldsCA(l)
        BY <3>3 DEF HoldsCA, Writing, CACrt, CAKey, Crt, Key
      <4> QED
        BY <1>2, <3>1, <3>3, <4>1, <4>2 DEF CreatorFits, HolderFits
    <3>5. \A q \in Proc \ {p} : HolderFits(loads[q], files')
        BY <3>2 DEF HolderFits
    <3> QED
        BY <1>1, <2>2, <3>1, <3>2, <3>4, <3>5, OneCAMoves
  <2>4. CASE loads[p].file = CAKey
    <3>1. /\ files'[CACrt] = files[CACrt] /\ files'[CAKey] = c
          /\ files[CACrt] = Cert(l.new, l.new)
        BY <1>1, <1>2, <2>1, <2>4 DEF CreatorFits
    <3>2. files[CACrt].key = l.new /\ files[CACrt].state # "absent"
        BY <1>1, <3>1, ContentTypes
    <3>3. \/ l.pc = "fill" /\ l.file = CAKey
          \/ l.pc = "leaf" /\ l.ca = Cert(l.new, l.new)
        BY <2>4 DEF BecomesWriter, CACrt, CAKey, Crt, Key
    <3>4. CreatorFits(l, files')
        BY <1>2, <3>1, <3>3 DEF CreatorFits, Creating, Writing
    <3>5. HolderFits(l, files')
      <4>1. CASE l.pc = "fill" /\ l.file = CAKey
        BY <4>1 DEF HolderFits, HoldsCA, Writing, CAKey, Crt, Key
      <4>2. CASE l.pc = "leaf" /\ l.ca = Cert(l.new, l.new)
        BY <1>3, <3>1, <4>2 DEF HolderFits
      <4> QED
        BY <3>3, <4>1, <4>2
    <3>6. \A q \in Proc \ {p} : HolderFits(loads[q], files')
        BY <1>3, <3>1 DEF OneCA, HolderFits
    <3>7. \A k \in announced : files'[CAKey].state # "absent" /\ k = files'[CACrt].key
        BY <1>3, <3>1 DEF OneCA
    <3> QED
        BY <1>1, <2>2, <3>1, <3>2, <3>4, <3>5, <3>6, <3>7, OneCAMoves
  <2> QED
    BY <1>5, <2>3, <2>4
<1> QED
    BY <1>1, <1>4, <1>5 DEF File

(* Every step preserves it. *)
LEMMA CAInvStep ==
    ASSUME LeafInv, CAInv, IdentityStep
    PROVE  CAInv'
<1> SUFFICES ASSUME ~raced' PROVE OneCA'
    BY DEF CAInv
<1>0. ~raced /\ OneCA
  <2>1. ~raced
    BY DEF IdentityStep
  <2> QED
    BY <2>1 DEF CAInv
<1>1. ASSUME files'[CACrt] = files[CACrt], files'[CAKey] = files[CAKey],
             loads' = loads, announced' = announced
      PROVE  OneCA'
    BY <1>0, <1>1 DEF OneCA, CreatorFits, HolderFits
<1>2. CASE UNCHANGED <<ivars, announced, raced>>
    BY <1>1, <1>2 DEF ivars
<1>3. ASSUME NEW p \in Proc, BeginLoad(p) \/ Unload(p), announced' = announced
      PROVE  OneCA'
  <2>1. PICK l \in LoadState : BecomesReader(p, l)
    BY <1>3, ReaderStep
  <2>2. loads \in [Proc -> LoadState] /\ loads'[p] = l
    BY <2>1 DEF LeafInv, ITypeOK, BecomesReader
  <2>3. loads'[p].pc \in {"ca", "none"}
    BY <1>3, <2>2, ContentTypes DEF BeginLoad, Unload, LoadFails, LoadState
  <2>4. ~Creating(l)
    BY <2>2, <2>3 DEF Creating, Writing
  <2> QED
    BY <1>0, <1>3, <2>1, <2>4, ReaderStep, ReaderOneCA
<1>4. ASSUME NEW p \in Proc, LoadNext(p),
             announced' = IF Loaded(p)' THEN announced \cup {Fingerprint(p)'} ELSE announced,
             ~\E q \in Proc \ {p} : CreatingCA(q) /\ CreatingCA(p)'
      PROVE  OneCA'
  <2>0. loads \in [Proc -> LoadState]
    BY DEF LeafInv, ITypeOK
  <2>1. ASSUME NEW l \in LoadState, loads' = [loads EXCEPT ![p] = l]
        PROVE  /\ \A q \in Proc \ {p} : ~(Creating(loads[q]) /\ Creating(l))
               /\ announced' \subseteq announced \cup {k \in {l.ca.key} : HoldsCA(l)}
    <3>1. loads'[p] = l
        BY <2>0, <2>1
    <3>2. l.pc = "loaded" => HoldsCA(l)
        BY DEF HoldsCA
    <3> QED
        BY <1>4, <3>1, <3>2 DEF CreatingCA, Creating, Writing, Loaded, Fingerprint
  <2>2. ASSUME files' = files, NEW l \in LoadState, BecomesReader(p, l)
        PROVE  OneCA'
    <3>1. loads' = [loads EXCEPT ![p] = l]
        BY <2>2 DEF BecomesReader
    <3> QED
        BY <1>0, <2>1, <2>2, <3>1, ReaderOneCA
  <2>3. ASSUME NEW l \in LoadState, NEW c \in Content, BecomesWriter(p, l, c)
        PROVE  OneCA'
    <3>1. loads' = [loads EXCEPT ![p] = l]
        BY <2>3 DEF BecomesWriter
    <3> QED
        BY <1>0, <2>1, <2>3, <3>1, WriterOneCA
  <2> QED
    BY <1>4, <2>2, <2>3, LoadNextBecomes
<1>5. ASSUME LeafExpires \/ \E f \in File : DeleteLeafFile(f), announced' = announced
      PROVE  OneCA'
  <2>1. loads' = loads /\ files'[CACrt] = files[CACrt] /\ files'[CAKey] = files[CAKey]
    BY <1>5 DEF LeafExpires, DeleteLeafFile, LeafInv, ITypeOK, CACrt, CAKey, Crt, Key, File
  <2> QED
    BY <1>1, <1>5, <2>1
<1> QED
    BY <1>2, <1>3, <1>4, <1>5 DEF IdentityStep

(* In every installation all fingerprints ever announced are the same,     *)
(* unless two processes created the CA at the same time.  The invariant    *)
(* says why: ca.key is created last and never deleted, no process starts a *)
(* CA once it is there, and none reads one before.                         *)
THEOREM PinStable == USpec => []PinIsStable
<1>1. UInit => CAInv
  <2> SUFFICES ASSUME UInit PROVE OneCA
    BY DEF CAInv
  <2>1. /\ files = [f \in File |-> Absent] /\ loads = [p \in Proc |-> NotLoaded]
        /\ announced = {} /\ CAKey \in File
    BY DEF UInit, IInit, File
  <2>2. /\ \A p \in Proc : loads[p].pc = "none"
        /\ files[CAKey].state = "absent"
    BY <2>1, ContentTypes
  <2>3. \A p \in Proc : ~Creating(loads[p]) /\ ~HoldsCA(loads[p]) /\ loads[p].pc # "readCA"
    BY <2>2 DEF Creating, HoldsCA, Writing
  <2> QED
    BY <2>1, <2>2, <2>3 DEF OneCA, CreatorFits, HolderFits
<1>2. LeafInv /\ CAInv /\ [UNext]_uvars => CAInv'
    BY IsIdentityStep, CAInvStep
<1>3. CAInv => PinIsStable
  <2> SUFFICES ASSUME OneCA PROVE Cardinality(announced) <= 1
    BY DEF CAInv, PinIsStable
  <2>1. announced \subseteq {files[CACrt].key}
    BY DEF OneCA
  <2>2. IsFiniteSet({files[CACrt].key}) /\ Cardinality({files[CACrt].key}) = 1
    BY FS_Singleton
  <2>3. Cardinality(announced) <= Cardinality({files[CACrt].key})
    BY <2>1, <2>2, FS_Subset
  <2> QED
    BY <2>2, <2>3
<1> QED
    BY <1>1, <1>2, <1>3, LeafInvHolds, PTL DEF USpec
=============================================================================
