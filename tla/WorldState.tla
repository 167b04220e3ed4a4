----------------------------- MODULE WorldState -----------------------------
(***************************************************************************)
(* The world state (crates/execution/src/state.rs) with storage and code:  *)
(* genesis loading (genesis.rs), what commit makes of a transaction's      *)
(* changes, and the undo record of the block the transactions are in       *)
(* (crates/chain/src/journal.rs).  Modules ChainExecutor and               *)
(* ParallelRounds keep balances and nonces only; this one has the rest.    *)
(*                                                                         *)
(* The changes are the EVM's (external: revm): any that fit the account    *)
(* they are about.  A code stands for its hash.  Operators named Mut...    *)
(* are wrong on purpose and in no action.                                  *)
(***************************************************************************)
EXTENDS Integers, FiniteSets, Functions

CONSTANTS
    Address, Slot,
    Code,           \* contract codes, without the empty one
    Word,           \* values of a slot, 0 among them
    Funds           \* balances, 0 among them

ASSUME WorldAssumption == 0 \in Word /\ 0 \in Funds /\ Funds \subseteq Nat

VARIABLES
    accounts,   \* address -> [info, storage]
    code,       \* the codes that can be resolved
    undo,       \* UndoRecord of the block: address -> the account then, or NoAccount
    before      \* history: the accounts when the block began

worldVars == <<accounts, code, undo, before>>

NoCode == "empty"
Missing == [info |-> "missing"]

ASSUME CodeAssumption == NoCode \notin Code

Info == [balance : Funds, nonce : {0, 1}, code : Code \cup {NoCode}]

Storages == UNION {[slots -> Word] : slots \in SUBSET Slot}

IsEmpty(info) == info.balance = 0 /\ info.nonce = 0 /\ info.code = NoCode

(* account: what the map has at an address. *)
Found(accs, a) == IF a \in DOMAIN accs THEN accs[a] ELSE Missing

-----------------------------------------------------------------------------
(* load_genesis: zero slots are left out. *)
(* Mutant: they are kept. *)
MutNonZero(storage) == storage

NonZero(storage) == Restrict(storage, {s \in DOMAIN storage : storage[s] # 0})

Loaded(alloc) ==
    [a \in DOMAIN alloc |-> [info |-> alloc[a].info, storage |-> NonZero(alloc[a].storage)]]

(* What the EVM may report of an account: a read, a call, a creation where *)
(* there was no code and no nonce, a destruction of what was created.  A   *)
(* sender's nonce rises, only code pays without one, or writes storage.    *)
Plausible(old, change) ==
    LET had == IF old = Missing THEN [balance |-> 0, nonce |-> 0, code |-> NoCode] ELSE old.info
    IN  /\ change.info.nonce >= had.nonce
        /\ change.info.balance < had.balance => change.info.nonce = 1 \/ had.code # NoCode
        /\ change.created => had.nonce = 0 /\ had.code = NoCode /\ change.info.nonce = 1
        /\ ~ change.created => change.info.code = had.code
        /\ change.info.code = NoCode /\ ~ change.created => DOMAIN change.storage = {}
        /\ change.destroyed => change.created
        /\ ~ change.touched => /\ change.info = had /\ DOMAIN change.storage = {}
                               /\ ~ change.created

ChangesOf(old) ==
    {c \in [info : Info, storage : Storages,
            created : BOOLEAN, destroyed : BOOLEAN, touched : BOOLEAN] : Plausible(old, c)}

(* commit, of one account: what the map has for it afterwards.  What is    *)
(* empty is removed if it was not there.                                   *)
SlotsBefore(old, change) ==
    IF old = Missing \/ change.created THEN <<>> ELSE old.storage

Removes(old, change) == change.destroyed \/ (IsEmpty(change.info) /\ old = Missing)

Committed(old, change) ==
    IF ~ change.touched THEN old
    ELSE IF Removes(old, change) THEN Missing
    ELSE [info    |-> change.info,
          storage |-> LET slots == SlotsBefore(old, change)
                      IN  NonZero([s \in DOMAIN slots \cup DOMAIN change.storage |->
                              IF s \in DOMAIN change.storage THEN change.storage[s]
                              ELSE slots[s]])]

(* The map of what exists of them. *)
Existing(accs) == Restrict(accs, {a \in DOMAIN accs : accs[a] # Missing})

(* commit: the code of what is left standing is registered.                *)
Registered(changes) ==
    {changes[a].info.code : a \in {b \in DOMAIN changes :
        changes[b].touched /\ ~ Removes(Found(accounts, b), changes[b])}} \ {NoCode}

(* UndoRecord::note, of every address the EVM reports; the first counts.   *)
(* Mutant: only accounts that exist are noted. *)
MutNoted(addresses) ==
    LET new == {a \in addresses \ DOMAIN undo : a \in DOMAIN accounts}
    IN  [a \in DOMAIN undo \cup new |-> IF a \in new THEN accounts[a] ELSE undo[a]]

Noted(addresses) ==
    [a \in DOMAIN undo \cup addresses |->
        IF a \in DOMAIN undo THEN undo[a] ELSE Found(accounts, a)]

(* A transaction of the block: its changes are noted, then committed. *)
Transaction(changes) ==
    /\ undo' = Noted(DOMAIN changes)
    /\ accounts' = Existing([a \in DOMAIN accounts \cup DOMAIN changes |->
                           IF a \in DOMAIN changes THEN Committed(Found(accounts, a), changes[a])
                           ELSE accounts[a]])
    /\ code' = code \cup Registered(changes)
    /\ UNCHANGED before

(* The block is done and the next begins. *)
NextBlock ==
    /\ undo' = <<>>
    /\ before' = accounts
    /\ UNCHANGED <<accounts, code>>

(* UndoRecord::apply: insert_account or remove_account for every address   *)
(* noted.                                                                  *)
Restored ==
    Existing([a \in DOMAIN accounts \cup DOMAIN undo |->
            IF a \in DOMAIN undo THEN undo[a] ELSE accounts[a]])

(* remove_account leaves the code in place, it may be shared.              *)
(* Mutant: the code of what is removed goes.                               *)
MutCodeAfterUndo ==
    {c \in code : \A a \in DOMAIN undo : undo[a] = Missing => Found(accounts, a) = Missing
                                                             \/ accounts[a].info.code # c}

CodeAfterUndo == code

UndoBlock ==
    /\ accounts' = Restored
    /\ code' = CodeAfterUndo
    /\ undo' = <<>>
    /\ UNCHANGED before

(* The allocation: any accounts, empty ones and code without a nonce among *)
(* them.                                                                   *)
Allocations == UNION {[present -> [info : Info, storage : Storages]] : present \in SUBSET Address}

WorldInit ==
    \E alloc \in Allocations :
        /\ accounts = Loaded(alloc)
        /\ code = {alloc[a].info.code : a \in DOMAIN alloc} \ {NoCode}
        /\ before = accounts
        /\ undo = <<>>

WorldNext ==
    \/ \E touched \in SUBSET Address :
           \E changes \in {f \in [touched -> UNION {ChangesOf(Found(accounts, a)) : a \in touched}] :
                               \A a \in touched : f[a] \in ChangesOf(Found(accounts, a))} :
               Transaction(changes)
    \/ NextBlock
    \/ UndoBlock

WorldSpec == WorldInit /\ [][WorldNext]_worldVars

-----------------------------------------------------------------------------
(* The root must not tell apart what contracts cannot: no slot is stored   *)
(* as zero (state.rs:235), and no block leaves an account stored empty     *)
(* that was not (state.rs:215), after creations, destructions and undos in *)
(* any order.  So the only accounts ever stored empty are those the        *)
(* genesis allocation lists as empty, which load_genesis inserts and       *)
(* commit, taking away only what it finds missing, leaves in the map.      *)
MapIsCanonical ==
    \A a \in DOMAIN accounts :
        /\ \A s \in DOMAIN accounts[a].storage : accounts[a].storage[s] # 0
        /\ IsEmpty(accounts[a].info) => a \in DOMAIN before /\ IsEmpty(before[a].info)

(* An account's code can be resolved, whoever else had the same code and   *)
(* was destroyed or undone.                                                *)
CodeResolves ==
    \A a \in DOMAIN accounts : accounts[a].info.code \in code \cup {NoCode}

(* Any account that is there can be hashed into the root and executed.     *)
AccountsAreSound == MapIsCanonical /\ CodeResolves

(* Undoing the block restores every account it touched, and all others are *)
(* as they were: the map of before, storage included.                      *)
UndoIsExact == Restored = before
=============================================================================
