------------------------------- MODULE Store -------------------------------
(***************************************************************************)
(* The block store (crates/storage/src/lib.rs), opened and closed by the   *)
(* node's boot and shutdown (crates/node/src/lib.rs), by builds of several *)
(* schema versions, with a crash possible between any two steps.           *)
(*                                                                         *)
(* The database (external: redb) has one write transaction at a time,      *)
(* which touches the disk when it commits, and one opener of the file.  An *)
(* entry stands for its key: a hash has one header and one body.           *)
(* Operators named Mut... are wrong on purpose and in no action.           *)
(***************************************************************************)
EXTENDS Integers

CONSTANTS
    Key,        \* block hashes
    Version     \* the SCHEMA_VERSION of the builds that occur

ASSUME StoreAssumption == Version \subseteq Nat \ {0}

VARIABLES
    disk,       \* the committed tables: [headers, bodies, schema_version]
    build,      \* the version of the process that has the store open, or Closed
    txn,        \* the tables as the open write transaction has them, or NoTxn
    written     \* history: <<version, entry>> of every put that returned Ok

storeVars == <<disk, build, txn, written>>

(* In the place of a version: the file has none; no process has it open. *)
Absent == 0
Closed == 0

NoTxn == [headers |-> {}, bodies |-> {}, schema_version |-> Absent, puts |-> {}]

Tables(t) == [headers |-> t.headers, bodies |-> t.bodies, schema_version |-> t.schema_version]

-----------------------------------------------------------------------------
(* init_schema: the tables are created, and the version is written if the  *)
(* file has none; another one is an error, and the transaction is dropped. *)
(* Mutant: the file is taken over by the build that opens it.              *)
MutVerified(d, v) == TRUE

Verified(d, v) == d.schema_version \in {Absent, v}

(* init_schema: the tables are opened, or created where there are none.    *)
(* Mutant: they are created anew. *)
MutOpened(d, v) == [headers |-> {}, bodies |-> {}, schema_version |-> v]

Opened(d, v) == [d EXCEPT !.schema_version = v]

(* RedbStore::open, by Node::boot. *)
Open(v) ==
    /\ build = Closed
    /\ Verified(disk, v)
    /\ build' = v
    /\ disk' = Opened(disk, v)
    /\ UNCHANGED <<txn, written>>

(* put_header and put_body, up to the commit, which may fail or be cut     *)
(* off by a crash.                                                         *)
Begin(entry, tables) ==
    /\ build # Closed
    /\ txn = NoTxn
    /\ txn' = [headers |-> tables.headers, bodies |-> tables.bodies,
               schema_version |-> tables.schema_version, puts |-> {entry}]
    /\ UNCHANGED <<disk, build, written>>

BeginHeader(k) == Begin(<<"header", k>>, [disk EXCEPT !.headers = @ \cup {k}])

BeginBody(k) == Begin(<<"body", k>>, [disk EXCEPT !.bodies = @ \cup {k}])

(* Mutant: Ok is returned although the commit failed. *)
MutAfterCommit(t) == disk

AfterCommit(t) == Tables(t)

Commit ==
    /\ txn # NoTxn
    /\ disk' = AfterCommit(txn)
    /\ written' = written \cup {<<build, e>> : e \in txn.puts}
    /\ txn' = NoTxn
    /\ UNCHANGED build

(* An error before the commit: the transaction is dropped, the caller told. *)
Fail ==
    /\ txn # NoTxn
    /\ txn' = NoTxn
    /\ UNCHANGED <<disk, build, written>>

(* Node::shutdown, and a crash at any point. *)
Stop ==
    /\ build # Closed
    /\ build' = Closed
    /\ txn' = NoTxn
    /\ UNCHANGED <<disk, written>>

(* get_header, has_header and get_body: what is committed. *)
Has(entry) ==
    CASE entry[1] = "header" -> entry[2] \in disk.headers
      [] OTHER               -> entry[2] \in disk.bodies

StoreInit ==
    /\ disk = [headers |-> {}, bodies |-> {}, schema_version |-> Absent]
    /\ build = Closed
    /\ txn = NoTxn
    /\ written = {}

StoreNext ==
    \/ \E v \in Version : Open(v)
    \/ \E k \in Key : BeginHeader(k) \/ BeginBody(k)
    \/ Commit
    \/ Fail
    \/ Stop

StoreSpec == StoreInit /\ [][StoreNext]_storeVars

-----------------------------------------------------------------------------
(* A put that returned Ok is there for every later reader, in this process *)
(* or after any number of crashes and restarts.                            *)
AcknowledgedSurvives == \A w \in written : Has(w[2])

(* "Consensus data must never be reinterpreted by guesswork" (lib.rs:56):  *)
(* a process only ever reads entries that a build of its own version put.  *)
NeverReinterpreted == build # Closed => \A w \in written : w[1] = build

Map == INSTANCE DurableMap WITH kept_headers <- disk.headers, kept_bodies <- disk.bodies

(* Through failures and crashes, the store is the map its trait promises.  *)
ImplementsMap == Map!MapSpec
=============================================================================
