--------------------------- MODULE SchemaMigration ---------------------------
(***************************************************************************)
(* Open and migrate of internal/store/store.go, run at the same time by    *)
(* every process that opens the database file: the server and each         *)
(* operator command.  migrate takes no lock and no transaction, so each    *)
(* statement is a step; ensureColumn and dropColumn are two, the look at   *)
(* the table and the ALTER.                                                *)
(*                                                                         *)
(* Of a table only the columns that have come or gone since its first      *)
(* version are told apart; "base" stands for the others, and a table       *)
(* without columns does not exist.                                         *)
(***************************************************************************)
EXTENDS Processes, Integers, Sequences

CONSTANT
    Databases    \* the database files that may be found: new ones, old ones

VARIABLES
    tables,      \* the columns of each table
    indexed,     \* is there an index on invitations.id
    opens        \* how far each process is with Open

dvars == <<tables, indexed, opens>>

(* What the schema script creates. *)
Schema ==
    [accounts    |-> {"base", "quota_bytes", "admin_mode"},
     invitations |-> {"base", "id", "revoked", "grants_role"},
     devices     |-> {"base", "quota_bytes", "role"},
     queues      |-> {"base", "quota_bytes"},
     messages    |-> {"base"},
     bundles     |-> {"base"},
     statements  |-> {"base"}]

Table    == DOMAIN Schema
NoTables == [t \in Table |-> {}]

Create(t)  == [op |-> "create", table |-> t, column |-> "base"]
Ensure(t, c) == [op |-> "add", table |-> t, column |-> c]
Drop(t, c)   == [op |-> "drop", table |-> t, column |-> c]
Index(t, c)  == [op |-> "index", table |-> t, column |-> c]

(* Mutant: the status column is left where it was. *)
StatementsWithoutDrop ==
    << Create("accounts"), Create("invitations"), Create("devices"), Create("queues"),
       Create("messages"), Create("bundles"), Create("statements"),
       Ensure("accounts", "quota_bytes"), Ensure("invitations", "id"),
       Ensure("invitations", "revoked"), Index("invitations", "id"),
       Ensure("accounts", "admin_mode"), Ensure("devices", "role"),
       Ensure("invitations", "grants_role"), Ensure("devices", "quota_bytes"),
       Ensure("queues", "quota_bytes") >>

(* migrate, statement by statement. *)
Statements ==
    << Create("accounts"), Create("invitations"), Create("devices"), Create("queues"),
       Create("messages"), Create("bundles"), Create("statements"),
       Ensure("accounts", "quota_bytes"), Ensure("invitations", "id"),
       Ensure("invitations", "revoked"), Index("invitations", "id"),
       Ensure("accounts", "admin_mode"), Ensure("devices", "role"),
       Ensure("invitations", "grants_role"), Ensure("devices", "quota_bytes"),
       Ensure("queues", "quota_bytes"), Drop("messages", "status") >>

(* A file that was written by this program: no version of it had columns   *)
(* other than today's and the one that migrate drops.                      *)
EverHad(t) == Schema[t] \cup (IF t = "messages" THEN {"status"} ELSE {})
Column     == UNION {EverHad(t) : t \in Table}
ASSUME DatabaseAssumption ==
    \A D \in Databases : /\ D \in [Table -> SUBSET Column]
                         /\ \A t \in Table : D[t] \subseteq EverHad(t)

NotOpen == [pc |-> "closed", at |-> 1]

DInit ==
    /\ tables \in Databases
    /\ indexed = ("id" \in tables.invitations)
    /\ opens = [p \in Proc |-> NotOpen]

-----------------------------------------------------------------------------
At(p)  == Statements[opens[p].at]
Has(p) == At(p).column \in tables[At(p).table]

Executing(p, op) ==
    opens[p].pc = "migrating" /\ opens[p].at <= Len(Statements) /\ At(p).op = op

Proceed(p)   == opens' = [opens EXCEPT ![p].pc = "migrating", ![p].at = @ + 1]
OpenFails(p) == opens' = [opens EXCEPT ![p] = NotOpen]

BeginOpen(p) ==
    /\ opens[p].pc = "closed"
    /\ opens' = [opens EXCEPT ![p].pc = "migrating"]
    /\ UNCHANGED <<tables, indexed>>

(* CREATE TABLE IF NOT EXISTS *)
CreateTable(p) ==
    /\ Executing(p, "create")
    /\ tables' = IF Has(p) THEN tables
                 ELSE [tables EXCEPT ![At(p).table] = Schema[At(p).table]]
    /\ Proceed(p)
    /\ UNCHANGED indexed

(* CREATE INDEX IF NOT EXISTS, an error if there is no such column. *)
CreateIndex(p) ==
    /\ Executing(p, "index")
    /\ IF Has(p) THEN indexed' = TRUE /\ Proceed(p)
                 ELSE indexed' = indexed /\ OpenFails(p)
    /\ UNCHANGED tables

(* hasColumn in ensureColumn or dropColumn: is there anything to do? *)
CheckColumn(p) ==
    /\ Executing(p, "add") \/ Executing(p, "drop")
    /\ IF (At(p).op = "add") = Has(p)
       THEN Proceed(p)
       ELSE opens' = [opens EXCEPT ![p].pc = "altering"]
    /\ UNCHANGED <<tables, indexed>>

(* ALTER TABLE fails if another process has done it in the meantime, and   *)
(* with it Open.                                                           *)
AlterTable(p) ==
    /\ opens[p].pc = "altering"
    /\ LET t == At(p).table
           c == At(p).column
       IN  IF (At(p).op = "add") = Has(p)
           THEN tables' = tables /\ OpenFails(p)
           ELSE /\ tables' = [tables EXCEPT ![t] = IF c \in @ THEN @ \ {c} ELSE @ \cup {c}]
                /\ Proceed(p)
    /\ UNCHANGED indexed

Opened(p) ==
    /\ opens[p].pc = "migrating"
    /\ opens[p].at > Len(Statements)
    /\ opens' = [opens EXCEPT ![p].pc = "open"]
    /\ UNCHANGED <<tables, indexed>>

(* The process ends, by itself or not. *)
Close(p) ==
    /\ OpenFails(p)
    /\ UNCHANGED <<tables, indexed>>

OpenNext(p) ==
    CreateTable(p) \/ CreateIndex(p) \/ CheckColumn(p) \/ AlterTable(p) \/ Opened(p)

-----------------------------------------------------------------------------
(* Properties *)

(* A process that has the database open finds the current schema, index    *)
(* and all, no matter how old the file was, which other processes migrate  *)
(* it at the same time, and where one of them died.                        *)
OpenMeansCurrent ==
    (\E p \in Proc : opens[p].pc = "open") => tables = Schema /\ indexed
=============================================================================
