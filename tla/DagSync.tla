------------------------------ MODULE DagSync ------------------------------
(***************************************************************************)
(* DagSync, the block synchronisation state machine of one node            *)
(* (crates/net/src/sync.rs): it takes messages, connections and ticks and  *)
(* returns actions for its driver.  Each handler is an operator from the   *)
(* state of the machine to [sync, out]: the state it leaves and the        *)
(* actions it returns, in order.  Module Network runs several machines.    *)
(*                                                                         *)
(* A hash is a natural number and stands for the block; what the DAG makes *)
(* of a block is module DagStore's subject and only its presence is kept.  *)
(* Tips come heaviest first in the code and highest hash first here: all   *)
(* tips are taken to tie.  The nodes are of one network and their blocks   *)
(* pass the gate, so no peer is ever penalised.                            *)
(*                                                                         *)
(* Operators named Mut... are wrong on purpose and in no action.           *)
(***************************************************************************)
EXTENDS Integers, Sequences, SequencesExt, FiniteSets, Functions

CONSTANTS
    Block,          \* hashes
    Genesis,
    Parents,        \* block -> its parents
    MaxOrphans,     \* SyncConfig::max_orphans
    MaxInvEntries,  \* MAX_INV_ENTRIES
    MaxBlockBatch,  \* MAX_BLOCK_BATCH
    CursorPeriod    \* bound: retry_cursor counts modulo this, a multiple of
                    \* every number of ready peers

ASSUME DagSyncAssumption ==
    /\ Block \subseteq Nat /\ IsFiniteSet(Block) /\ Genesis \in Block
    /\ Parents \in [Block -> SUBSET Block] /\ Parents[Genesis] = {}
    /\ \A b \in Block : \A p \in Parents[b] : p # b
    /\ {MaxOrphans, MaxInvEntries, MaxBlockBatch, CursorPeriod} \subseteq Nat \ {0}

-----------------------------------------------------------------------------
(* The numbers in S, lowest first. *)
Ascending(S) ==
    CHOOSE seq \in [1..Cardinality(S) -> S] :
        \A i, j \in 1..Cardinality(S) : i < j => seq[i] < seq[j]

Take(seq, n) == SubSeq(seq, 1, IF Len(seq) < n THEN Len(seq) ELSE n)

(* What of `seq` is in S, in its order. *)
KeepNext(kept, e, S) == IF e \in S THEN Append(kept, e) ELSE kept

Kept(seq, S) ==
    LET kept[n \in 0..Len(seq)] == IF n = 0 THEN <<>> ELSE KeepNext(kept[n - 1], seq[n], S)
    IN  kept[Len(seq)]

(* The result of a handler, and of one handler after another. *)
Done(s) == [sync |-> s, out |-> <<>>]

Both(first, second) == [sync |-> second.sync, out |-> first.out \o second.out]

Send(peer, message) == <<[peer |-> peer, message |-> message]>>

ToEach(peers, message) ==
    LET order == Ascending(peers)
    IN  [i \in 1..Len(order) |-> [peer |-> order[i], message |-> message]]

(* Action::Disconnect. *)
Disconnect(peer) == Send(peer, [type |-> "Disconnect"])

(* DagStore::tips. *)
Tips(s) == Reverse(Ascending({b \in s.dag : \A c \in s.dag : b \notin Parents[c]}))

Version(s) == [type |-> "Version", hashes |-> Tips(s)]

NewSync ==
    [dag          |-> {Genesis},
     peers        |-> <<>>,
     orphans      |-> <<>>,
     orphan_order |-> <<>>,
     waiting_on   |-> [b \in Block |-> {}],
     requested    |-> <<>>,
     bodies       |-> {},
     retry_cursor |-> 0]

NewPeer == [ready |-> FALSE, known |-> {}]

Ready(s) == {p \in DOMAIN s.peers : s.peers[p].ready}

Held(s) == s.dag \cup DOMAIN s.orphans

NoteKnown(s, peer, hashes) == [s EXCEPT !.peers[peer].known = @ \cup hashes]

Without(f, S) == Restrict(f, DOMAIN f \ S)

Over(new, old) ==
    [x \in DOMAIN new \cup DOMAIN old |-> IF x \in DOMAIN new THEN new[x] ELSE old[x]]

-----------------------------------------------------------------------------
(* request_from: GetBlocks for what is not in flight already. *)
RequestFrom(s, peer, hashes) ==
    LET wanted == Take(Kept(hashes, ToSet(hashes) \ DOMAIN s.requested), MaxInvEntries)
    IN  IF wanted = <<>> THEN Done(s)
        ELSE [sync |-> [s EXCEPT !.requested =
                          Over([h \in ToSet(wanted) |-> [peer |-> peer, ticked |-> FALSE]], @)],
              out  |-> Send(peer, [type |-> "GetBlocks", hashes |-> wanted])]

(* request_unknown: of these, what is held nowhere. *)
RequestUnknown(s, peer, hashes) ==
    RequestFrom(s, peer, Kept(hashes, ToSet(hashes) \ Held(s)))

(* announce: a block goes to the ready peers that may not have it. *)
Announce(s, hash, exclude) ==
    LET targets == {p \in Ready(s) \ exclude : hash \notin s.peers[p].known}
        told == [p \in DOMAIN s.peers |->
                    IF p \in targets THEN [s.peers[p] EXCEPT !.known = @ \cup {hash}]
                                     ELSE s.peers[p]]
    IN  [sync |-> [s EXCEPT !.peers = told],
         out  |-> ToEach(targets, [type |-> "InvBlocks", hashes |-> <<hash>>])]

(* An orphan leaves the pool for good: the eviction loop of store_orphan.  *)
(* Mutant: what it waited for is not released.                             *)
MutEvict(s, oldest) ==
    [s EXCEPT !.orphans = Without(@, {oldest}), !.orphan_order = Tail(@)]

Evict(s, oldest) ==
    [s EXCEPT !.orphans = Without(@, {oldest}),
              !.orphan_order = Tail(@),
              !.waiting_on = [p \in Block |-> @[p] \ {oldest}]]

MakeRoom(s) ==
    IF Cardinality(DOMAIN s.orphans) >= MaxOrphans THEN Evict(s, Head(s.orphan_order)) ELSE s

StoreOrphan(s, hash, from) ==
    LET room[n \in 0..Len(s.orphan_order)] ==
            IF n = 0 THEN s ELSE MakeRoom(room[n - 1])
    IN  [room[Len(s.orphan_order)] EXCEPT
            !.waiting_on = [p \in Block |->
                IF p \in Parents[hash] \ s.dag THEN @[p] \cup {hash} ELSE @[p]],
            !.orphans = Over([h \in {hash} |-> from], @),
            !.orphan_order = Append(@, hash)]

(* resolve_orphans_of: an orphan whose last parent has come joins the DAG, *)
(* is announced, and is looked at as a parent in its turn.                 *)
ResolveChild(acc, child) ==
    IF child \in DOMAIN acc.sync.orphans /\ Parents[child] \subseteq acc.sync.dag
    THEN LET joined == [acc.sync EXCEPT !.orphans = Without(@, {child}),
                                        !.orphan_order = Kept(@, ToSet(@) \ {child}),
                                        !.dag = @ \cup {child}]
             told == Announce(joined, child, {acc.sync.orphans[child]})
         IN  [sync |-> told.sync, out |-> acc.out \o told.out,
              queue |-> Append(acc.queue, child)]
    ELSE acc

ResolveParent(acc) ==
    LET parent == Head(acc.queue)
        children == Ascending(acc.sync.waiting_on[parent])
        resolved[n \in 0..Len(children)] ==
            IF n = 0 THEN [acc EXCEPT !.queue = Tail(@), !.sync.waiting_on[parent] = {}]
            ELSE ResolveChild(resolved[n - 1], children[n])
    IN  IF acc.queue = <<>> THEN acc ELSE resolved[Len(children)]

(* The queue holds the first block and each orphan at most once. *)
ResolveOrphansOf(s, hash) ==
    LET turns == Cardinality(DOMAIN s.orphans) + 1
        resolved[n \in 0..turns] ==
            IF n = 0 THEN [sync |-> s, out |-> <<>>, queue |-> <<hash>>]
            ELSE ResolveParent(resolved[n - 1])
    IN  [sync |-> resolved[turns].sync, out |-> resolved[turns].out]

(* add_block succeeded. *)
Joined(s, hash, exclude) ==
    LET told == Announce([s EXCEPT !.dag = @ \cup {hash}], hash, exclude)
    IN  Both(told, ResolveOrphansOf(told.sync, hash))

(* admit: the missing parents are those neither in the DAG nor orphans     *)
(* before the block itself is stored.                                      *)
Admit(s, hash, from) ==
    IF Parents[hash] \subseteq s.dag
    THEN Joined(s, hash, {from})
    ELSE RequestFrom(StoreOrphan(s, hash, from), from, Ascending(Parents[hash] \ Held(s)))

-----------------------------------------------------------------------------
OnConnect(s, peer) ==
    [sync |-> [s EXCEPT !.peers = Over([p \in {peer} |-> NewPeer], @)],
     out  |-> Send(peer, Version(s))]

(* What the peer owed is released.                                         *)
(* Mutant: it stays requested.                                             *)
MutOnDisconnect(s, peer) == [s EXCEPT !.peers = Without(@, {peer})]

OnDisconnect(s, peer) ==
    [s EXCEPT !.peers = Without(@, {peer}),
              !.requested = Without(@, {h \in DOMAIN @ : @[h].peer = peer})]

OnLocalBlock(s, hash) == Joined([s EXCEPT !.bodies = @ \cup {hash}], hash, {})

OnVersion(s, peer, tips) ==
    LET ready == NoteKnown([s EXCEPT !.peers[peer].ready = TRUE], peer, ToSet(tips))
    IN  Both([sync |-> ready, out |-> Send(peer, [type |-> "Verack"])],
             RequestUnknown(ready, peer, tips))

OnInvBlocks(s, peer, hashes) ==
    RequestUnknown(NoteKnown(s, peer, ToSet(hashes)), peer, hashes)

OnGetBlocks(s, peer, hashes) ==
    LET blocks == Kept(Take(hashes, MaxBlockBatch), s.dag)
    IN  IF blocks = <<>> THEN Done(s)
        ELSE [sync |-> NoteKnown(s, peer, ToSet(blocks)),
              out  |-> Send(peer, [type |-> "Blocks", hashes |-> blocks])]

(* One block of a Blocks message.  The body is stored before the block is  *)
(* admitted, and is never removed.                                         *)
(* Mutant: it is stored only for a block that can join at once.            *)
MutOnBlock(s, peer, hash) ==
    LET noted == NoteKnown([s EXCEPT !.requested = Without(@, {hash})], peer, {hash})
        body  == IF Parents[hash] \subseteq s.dag THEN {hash} ELSE {}
    IN  IF hash \in Held(s) THEN Done(noted)
        ELSE Admit([noted EXCEPT !.bodies = @ \cup body], hash, peer)

OnBlock(s, peer, hash) ==
    LET noted == NoteKnown([s EXCEPT !.requested = Without(@, {hash})], peer, {hash})
    IN  IF hash \in Held(s) THEN Done(noted)
        ELSE Admit([noted EXCEPT !.bodies = @ \cup {hash}], hash, peer)

OnNextBlock(acc, peer, hash) == Both(acc, OnBlock(acc.sync, peer, hash))

OnBlocks(s, peer, hashes) ==
    LET taken[n \in 0..Len(hashes)] ==
            IF n = 0 THEN Done(s) ELSE OnNextBlock(taken[n - 1], peer, hashes[n])
    IN  taken[Len(hashes)]

(* on_message: data before the handshake is answered with our Version. *)
OnMessage(s, peer, m) ==
    IF peer \notin DOMAIN s.peers THEN [sync |-> s, out |-> Disconnect(peer)]
    ELSE IF ~ s.peers[peer].ready /\ m.type \notin {"Version", "Verack"}
    THEN [sync |-> s, out |-> Send(peer, Version(s))]
    ELSE CASE m.type = "Version"   -> OnVersion(s, peer, m.hashes)
           [] m.type = "Verack"    -> Done([s EXCEPT !.peers[peer].ready = TRUE])
           [] m.type = "GetTips"   ->
                 [sync |-> s, out |-> Send(peer, [type |-> "Tips", hashes |-> Tips(s)])]
           [] m.type = "Tips"      -> RequestUnknown(s, peer, m.hashes)
           [] m.type = "InvBlocks" -> OnInvBlocks(s, peer, m.hashes)
           [] m.type = "GetBlocks" -> OnGetBlocks(s, peer, m.hashes)
           [] m.type = "Blocks"    -> OnBlocks(s, peer, m.hashes)

-----------------------------------------------------------------------------
(* on_tick takes the requests that have timed out.  The timer's period is  *)
(* the timeout (both two seconds): one that was there at the last tick     *)
(* has, and a younger one may have if the timer is late.                   *)
Timeouts(s) ==
    {stale \in SUBSET DOMAIN s.requested :
        \A h \in DOMAIN s.requested : s.requested[h].ticked => h \in stale}

(* They are dealt out again, one to each ready peer in turn, starting one  *)
(* peer further than the last time.                                        *)
(* Mutant: they all go to the first peer every time.                       *)
MutRetry(s, stale) ==
    LET ready == Ascending(Ready(s))
    IN  IF stale = {} \/ ready = <<>> THEN Done(s)
        ELSE RequestFrom(s, ready[1], Ascending(stale))

AskNext(acc, peer, hashes) == Both(acc, RequestFrom(acc.sync, peer, hashes))

Retry(s, stale) ==
    LET ready  == Ascending(Ready(s))
        cursor == (s.retry_cursor + 1) % CursorPeriod
        hashes == Ascending(stale)
        bucket(k) == Kept(hashes, {hashes[i] : i \in
                              {j \in 1..Len(hashes) : (cursor + j - 1) % Len(ready) = k - 1}})
        asked[k \in 0..Len(ready)] ==
            IF k = 0 THEN Done([s EXCEPT !.retry_cursor = cursor])
            ELSE AskNext(asked[k - 1], ready[k], bucket(k))
    IN  IF stale = {} \/ ready = <<>> THEN Done(s) ELSE asked[Len(ready)]

Released(s, stale) ==
    LET young == [h \in DOMAIN s.requested \ stale |->
                     [s.requested[h] EXCEPT !.ticked = TRUE]]
    IN  [s EXCEPT !.requested = young]

(* Mutant: what has timed out is not asked for again.                     *)
MutOnTick(s, stale) ==
    [sync |-> Released(s, stale),
     out  |-> ToEach(DOMAIN s.peers \ Ready(s), Version(s))
              \o ToEach(Ready(s), [type |-> "GetTips"])]

OnTick(s, stale) ==
    LET retried == Retry(Released(s, stale), stale)
    IN  [sync |-> retried.sync,
         out  |-> ToEach(DOMAIN s.peers \ Ready(s), Version(s))
                  \o retried.out
                  \o ToEach(Ready(s), [type |-> "GetTips"])]
=============================================================================
