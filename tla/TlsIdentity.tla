----------------------------- MODULE TlsIdentity -----------------------------
(***************************************************************************)
(* Load of internal/tlsid/tlsid.go: a process reads the server's TLS       *)
(* identity from a directory and generates what is missing.                *)
(*                                                                         *)
(* Every process that loads the identity works on the same four files      *)
(* without a lock, and may die at any step.  A file is written in two      *)
(* steps: it is created or truncated, and then filled.  Key pairs are      *)
(* numbered in the order they are generated; a certificate is the number   *)
(* of its key pair with that of the key pair that signed it.  Signatures   *)
(* are external.                                                           *)
(***************************************************************************)
EXTENDS Processes, Integers

VARIABLES
    files,       \* the directory
    loads,       \* how far each process is with Load
    lastKey,     \* the last key pair generated
    expired      \* the leaf certificates past their NotAfter, by key pair

ivars == <<files, loads, lastKey, expired>>

CACrt  == "ca.crt"
CAKey  == "ca.key"
Crt    == "server.crt"
Key    == "server.key"
File   == {CACrt, CAKey, Crt, Key}

(* A file: not there, not parsable, or a certificate or private key. *)
Absent        == [state |-> "absent", key |-> 0, by |-> 0]
Torn          == [state |-> "torn",   key |-> 0, by |-> 0]
Cert(k, by)   == [state |-> "pem",    key |-> k, by |-> by]
PrivateKey(k) == [state |-> "pem",    key |-> k, by |-> 0]

FileExists(f) == files[f].state # "absent"

(* What Load holds: the CA and its key, the leaf and its key.  `file' is   *)
(* the file being read or written, `new' the key pair to be written.       *)
NotLoaded == [pc |-> "none", file |-> CACrt, new |-> 0, ca |-> Absent, caKey |-> Absent,
              leaf |-> Absent, leafKey |-> Absent]

IInit ==
    /\ files = [f \in File |-> Absent]
    /\ loads = [p \in Proc |-> NotLoaded]
    /\ lastKey = 0
    /\ expired = {}

BeginLoad(p) ==
    /\ loads[p].pc = "none"
    /\ loads' = [loads EXCEPT ![p].pc = "ca"]
    /\ UNCHANGED <<files, lastKey, expired>>

-----------------------------------------------------------------------------
(* Generating, writing and reading files *)

(* GenerateKey, before the first file of a pair is opened. *)
Generate(p, f) ==
    /\ lastKey' = lastKey + 1
    /\ loads' = [loads EXCEPT ![p].pc = "truncate", ![p].file = f, ![p].new = lastKey']

(* os.OpenFile with O_CREATE and O_TRUNC *)
Truncate(p) ==
    /\ loads[p].pc = "truncate"
    /\ files' = [files EXCEPT ![loads[p].file] = Torn]
    /\ loads' = [loads EXCEPT ![p].pc = "fill"]
    /\ UNCHANGED <<lastKey, expired>>

(* pem.Encode: the certificate first, then the key. *)
Fill(p) ==
    LET k == loads[p].new
        ca == Cert(k, k)
        leaf == Cert(k, loads[p].caKey.key)
    IN
    /\ loads[p].pc = "fill"
    /\ files' = [files EXCEPT ![loads[p].file] =
                    CASE loads[p].file = CACrt         -> ca
                      [] loads[p].file = Crt           -> leaf
                      [] loads[p].file \in {CAKey, Key} -> PrivateKey(k)]
    /\ loads' = [loads EXCEPT ![p] =
          CASE @.file = CACrt -> [@ EXCEPT !.pc = "truncate", !.file = CAKey]
            [] @.file = CAKey -> [@ EXCEPT !.pc = "leaf", !.ca = ca, !.caKey = PrivateKey(k)]
            [] @.file = Crt   -> [@ EXCEPT !.pc = "truncate", !.file = Key]
            [] @.file = Key   -> [@ EXCEPT !.pc = "loaded", !.leaf = leaf, !.leafKey = PrivateKey(k)]]
    /\ UNCHANGED <<lastKey, expired>>

LoadFails(p) == loads' = [loads EXCEPT ![p] = NotLoaded]

-----------------------------------------------------------------------------
(* loadOrCreateCA *)

(* Mutant: with any file missing everything is made anew. *)
AllExist == \A f \in File : FileExists(f)

CAExists == FileExists(CACrt) /\ FileExists(CAKey)

StatCA(p) ==
    /\ loads[p].pc = "ca"
    /\ IF CAExists
       THEN /\ loads' = [loads EXCEPT ![p].pc = "readCA", ![p].file = CACrt]
            /\ lastKey' = lastKey
       ELSE Generate(p, CACrt)
    /\ UNCHANGED <<files, expired>>

(* readCert and readKey; what cannot be parsed is fatal. *)
ReadCA(p) ==
    LET content == files[loads[p].file] IN
    /\ loads[p].pc = "readCA"
    /\ IF content.state # "pem"
       THEN LoadFails(p)
       ELSE loads' = [loads EXCEPT ![p] =
                IF @.file = CACrt THEN [@ EXCEPT !.ca = content, !.file = CAKey]
                                  ELSE [@ EXCEPT !.caKey = content, !.pc = "leaf"]]
    /\ UNCHANGED <<files, lastKey, expired>>

-----------------------------------------------------------------------------
(* loadOrCreateLeaf *)

(* createLeaf.  CreateCertificate refuses a key that is not the CA's. *)
CreateLeaf(p) ==
    IF loads[p].caKey.key = loads[p].ca.key
    THEN Generate(p, Crt)
    ELSE LoadFails(p) /\ lastKey' = lastKey

StatLeaf(p) ==
    /\ loads[p].pc = "leaf"
    /\ IF FileExists(Crt) /\ FileExists(Key)
       THEN /\ loads' = [loads EXCEPT ![p].pc = "readLeaf", ![p].file = Crt]
            /\ lastKey' = lastKey
       ELSE CreateLeaf(p)
    /\ UNCHANGED <<files, expired>>

(* Mutant: what cannot be parsed is fatal here too. *)
ReadLeafOrFail(p) ==
    LET content == files[loads[p].file] IN
    /\ loads[p].pc = "readLeaf"
    /\ IF content.state # "pem"
       THEN LoadFails(p)
       ELSE loads' = [loads EXCEPT ![p] =
                IF @.file = Crt THEN [@ EXCEPT !.leaf = content, !.file = Key]
                                ELSE [@ EXCEPT !.leafKey = content, !.pc = "checkLeaf"]]
    /\ UNCHANGED <<files, lastKey, expired>>

(* loadLeaf: both files are read; an error makes for a new leaf. *)
ReadLeaf(p) ==
    LET content == files[loads[p].file] IN
    /\ loads[p].pc = "readLeaf"
    /\ IF content.state # "pem"
       THEN CreateLeaf(p)
       ELSE /\ loads' = [loads EXCEPT ![p] =
                   IF @.file = Crt THEN [@ EXCEPT !.leaf = content, !.file = Key]
                                   ELSE [@ EXCEPT !.leafKey = content, !.pc = "checkLeaf"]]
            /\ lastKey' = lastKey
    /\ UNCHANGED <<files, expired>>

(* Mutant: an expired leaf is replaced, one of another CA is not. *)
LeafUsableByAnyCA(p) == loads[p].leaf.key \notin expired

(* CheckSignatureFrom and NotAfter. *)
LeafUsable(p) ==
    /\ loads[p].leaf.by = loads[p].ca.key
    /\ loads[p].leaf.key \notin expired

CheckLeaf(p) ==
    /\ loads[p].pc = "checkLeaf"
    /\ IF LeafUsable(p)
       THEN loads' = [loads EXCEPT ![p].pc = "loaded"] /\ lastKey' = lastKey
       ELSE CreateLeaf(p)
    /\ UNCHANGED <<files, expired>>

(* The process ends, by itself or not. *)
Unload(p) ==
    /\ LoadFails(p)
    /\ UNCHANGED <<files, lastKey, expired>>

LoadNext(p) ==
    \/ StatCA(p) \/ ReadCA(p)
    \/ StatLeaf(p) \/ ReadLeaf(p) \/ CheckLeaf(p)
    \/ Truncate(p) \/ Fill(p)

-----------------------------------------------------------------------------
(* The operator and time *)

(* Deleting server.crt and server.key, one after the other, rotates the leaf. *)
DeleteLeafFile(f) ==
    /\ f \in {Crt, Key}
    /\ FileExists(f)
    /\ files' = [files EXCEPT ![f] = Absent]
    /\ UNCHANGED <<loads, lastKey, expired>>

(* leafValidity is 397 days: no leaf expires while it is being written. *)
LeafExpires ==
    /\ files[Crt].state = "pem"
    /\ \A p \in Proc : loads[p].new = files[Crt].key => loads[p].pc = "loaded"
    /\ files[Crt].key \notin expired
    /\ expired' = expired \cup {files[Crt].key}
    /\ UNCHANGED <<files, loads, lastKey>>

-----------------------------------------------------------------------------
(* What clients see *)

Loaded(p)      == loads[p].pc = "loaded"
Fingerprint(p) == loads[p].ca.key

(* verifyPinned for the chain [leaf, CA] that a process presents. *)
VerifyPinned(p, fingerprint) ==
    /\ fingerprint \in {loads[p].leaf.key, loads[p].ca.key}
    /\ loads[p].leaf.by = fingerprint
    /\ loads[p].leaf.key \notin expired

(* In whatever state it finds the directory, a process that has loaded an  *)
(* identity presents a leaf that a client accepts under the fingerprint    *)
(* the process announces.                                                  *)
LoadStep == \A p \in Proc : ~Loaded(p) /\ Loaded(p)' => VerifyPinned(p, Fingerprint(p))'
LoadedIsAccepted == [][LoadStep]_ivars

(* loadOrCreateLeaf: "Any problem (expired, wrong CA, unreadable) ->       *)
(* regenerate."  A leaf with another leaf's key is a problem too: every    *)
(* handshake with it fails.  loadLeaf does not compare the two, and the    *)
(* files are written one after the other.                                  *)
ServedPairMatches == \A p \in Proc : Loaded(p) => loads[p].leaf.key = loads[p].leafKey.key
=============================================================================
