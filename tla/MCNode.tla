------------------------------- MODULE MCNode -------------------------------
(* The node (Backend, DevNode, Rpc) for TLC, driven in one of three ways   *)
(* from the start: `peers` gives it any block at any time, `mining` is the *)
(* development chain, which only its own miner extends, and in `calls` the *)
(* blocks of peers come between the sections of a client's calls.          *)
EXTENDS Rpc

VARIABLE drive

nodeVars == <<devVars, asked, drive>>

(* Three accounts, one of which exists at genesis.  Pay and Rival compete  *)
(* for a nonce; Spend can only run after Pay has paid its sender; Again    *)
(* follows either of the two.                                              *)
MCAccount == {"ann", "bob", "cyd"}

TxOf(id, sender, nonce, to, value, tip) ==
    [id |-> id, sender |-> sender, nonce |-> nonce, to |-> to, value |-> value,
     gas |-> 1, max_fee |-> 1, priority |-> tip, well_formed |-> TRUE]

Pay   == TxOf("pay",   "ann", 0, "bob", 4, 0)
Rival == TxOf("rival", "ann", 0, "cyd", 2, 1)
Again == TxOf("again", "ann", 1, "bob", 2, 1)
Spend == TxOf("spend", "bob", 0, "cyd", 2, 1)

MCTx == {Pay, Rival, Again, Spend}

MCGenesisState == [a \in {"ann"} |-> [nonce |-> 0, balance |-> 9]]

MCMiner == [b \in Hash |-> IF b % 2 = 0 THEN "bob" ELSE "cyd"]

MCBodies == {<<>>, <<Pay, Spend>>, <<Rival, Again>>}

NoBodies == {<<>>}

MCLogs == [tx \in Tx |-> IF tx.id \in {"pay", "rival"} THEN 2 ELSE 1]

Submission ==
    /\ \E tx \in Tx : SubmitRaw(tx) \/ SubmitRefused(tx)
    /\ UNCHANGED <<template, deferred>>

(* Blocks arrive in ascending order of hash. *)
Arrival ==
    /\ Cardinality(Present) \in Hash
    /\ \E ps \in ParentSets(Present), w \in Work, body \in Bodies :
           AddBlockAndAdvance(Cardinality(Present), ps, w, body)
    /\ UNCHANGED <<template, deferred>>

MiningNext ==
    \/ Submission
    \/ TakeTemplate
    \/ \E w \in Work : Cardinality(Present) \in Hash /\ AddMined(Cardinality(Present), w)
    \/ GiveUp

NodeInit == DevInit /\ asked = NoCall /\ drive \in {"peers", "mining", "calls"}

PeersNext == drive = "peers" /\ (Submission \/ Arrival) /\ UNCHANGED <<asked, drive>>

NodeNext ==
    \/ PeersNext
    \/ drive = "mining" /\ MiningNext /\ UNCHANGED <<asked, drive>>
    \/ drive = "calls" /\ Arrival /\ UNCHANGED <<asked, drive>>
    \/ drive = "calls" /\ CallNext /\ UNCHANGED <<template, deferred, drive>>

NodeSpec == NodeInit /\ [][NodeNext]_nodeVars

PeersSpec == NodeInit /\ drive = "peers" /\ [][PeersNext]_nodeVars
=============================================================================
