------------------------------ MODULE Network ------------------------------
(***************************************************************************)
(* Nodes running DagSync over connections: the tasks, channels and timers  *)
(* of crates/net/src/p2p.rs, and the lossy delivery and the miner of the   *)
(* simulator (crates/testkit/src/sim.rs).  A handler and the dispatch of   *)
(* its actions are one step; in the code the machine's lock is released in *)
(* between, so that two handlers' actions may also overtake each other.    *)
(*                                                                         *)
(* A connection is a pair of first-in-first-out channels.  It ends when    *)
(* the network breaks it, or when a node drops its sender for it; each end *)
(* notices once it has read what was still on the way.  A peer is named by *)
(* its node rather than by a fresh PeerId for each connection, so a pair   *)
(* reconnects when both ends have noticed.                                 *)
(*                                                                         *)
(* Operators named Mut... are wrong on purpose and in no action.           *)
(***************************************************************************)
EXTENDS DagSync

CONSTANTS
    Node,
    Link,           \* pairs <<i, j>>, i < j, one of which dials the other
    MinedBy,        \* block -> the node that finds it
    Fragile,        \* bound: the links on which things go wrong
    MaxFaults,      \* bound: how many of them do
    QueueBound      \* bound: a timer fires when its node's channels are shorter

ASSUME NetworkAssumption ==
    /\ Node \subseteq Nat /\ IsFiniteSet(Node)
    /\ Link \subseteq {l \in Node \X Node : l[1] < l[2]}
    /\ Fragile \subseteq Link
    /\ MinedBy \in [Block -> Node]
    /\ {MaxFaults, QueueBound} \subseteq Nat

VARIABLES
    sync,           \* node -> its DagSync
    registry,       \* node -> the peers it has a sender for
    wire,           \* sender -> receiver -> the messages on the way
    ticked,         \* the nodes whose timer has fired in this round
    losses, breaks  \* how many so far

vars == <<sync, registry, wire, ticked, losses, breaks>>

NoPeer == -1

(* dispatch: what goes to a peer without a sender is skipped. *)
Queued(i, senders, channels, out) ==
    [j \in Node |->
        channels[j] \o
            LET own == Kept(out, {action \in ToSet(out) : action.peer = j /\ j \in senders})
            IN  [n \in 1..Len(own) |-> own[n].message]]

(* Node i's handler has run on these channels: its actions are dispatched. *)
Handled(i, result, channels) ==
    \E r \in {result} :
        /\ sync' = [sync EXCEPT ![i] = r.sync]
        /\ wire' = [channels EXCEPT ![i] = Queued(i, registry[i], @, r.out)]

Init ==
    /\ sync = [i \in Node |-> NewSync]
    /\ registry = [i \in Node |-> {}]
    /\ wire = [i \in Node |-> [j \in Node |-> <<>>]]
    /\ ticked = {}
    /\ losses = 0
    /\ breaks = 0

-----------------------------------------------------------------------------
(* spawn_connection at both ends of a pair that have no connection. *)
Connect(i, j) ==
    LET first == OnConnect(sync[i], j)
        second == OnConnect(sync[j], i)
    IN  /\ <<i, j>> \in Link
        /\ j \notin DOMAIN sync[i].peers /\ i \notin DOMAIN sync[j].peers
        /\ registry' = [registry EXCEPT ![i] = @ \cup {j}, ![j] = @ \cup {i}]
        /\ sync' = [sync EXCEPT ![i] = first.sync, ![j] = second.sync]
        /\ wire' = [wire EXCEPT ![i] = Queued(i, {j}, @, first.out),
                                ![j] = Queued(j, {i}, @, second.out)]
        /\ UNCHANGED <<ticked, losses, breaks>>

(* One turn of the read loop of i's connection to j. *)
Receive(i, j) ==
    /\ wire[j][i] # <<>>
    /\ j \in DOMAIN sync[i].peers
    /\ Handled(i, OnMessage(sync[i], j, Head(wire[j][i])), [wire EXCEPT ![j][i] = Tail(@)])
    /\ UNCHANGED <<registry, ticked, losses, breaks>>

(* The PeerId of a connection that has ended names nobody. *)
Retired(s, j) ==
    [s EXCEPT !.orphans = [o \in DOMAIN @ |-> IF @[o] = j THEN NoPeer ELSE @[o]]]

(* The end of it: j's end is closed and everything it sent is read. *)
Hangup(i, j) ==
    /\ j \in DOMAIN sync[i].peers
    /\ i \notin registry[j]
    /\ wire[j][i] = <<>>
    /\ registry' = [registry EXCEPT ![i] = @ \ {j}]
    /\ sync' = [sync EXCEPT ![i] = OnDisconnect(Retired(@, j), j)]
    /\ UNCHANGED <<wire, ticked, losses, breaks>>

(* spawn_ticker.  Timers have one period, so they fire in rounds; and they *)
(* are slow next to messages, hence the bound.                             *)
Tick(i, stale) ==
    /\ i \notin ticked
    /\ \A j \in Node : Len(wire[i][j]) < QueueBound /\ Len(wire[j][i]) < QueueBound
    /\ Handled(i, OnTick(sync[i], stale), wire)
    /\ ticked' = IF ticked \cup {i} = Node THEN {} ELSE ticked \cup {i}
    /\ UNCHANGED <<registry, losses, breaks>>

(* announce_local_block: the block was made on a template of some earlier  *)
(* moment, so its parents are anything the node has.                       *)
MineBlock(i, b) ==
    /\ MinedBy[b] = i
    /\ b \notin sync[i].dag /\ Parents[b] \subseteq sync[i].dag
    /\ Handled(i, OnLocalBlock(sync[i], b), wire)
    /\ UNCHANGED <<registry, ticked, losses, breaks>>

(* One fault more, of one kind or the other, between i and j. *)
Fails(i, j) ==
    /\ <<i, j>> \in Fragile \/ <<j, i>> \in Fragile
    /\ losses + breaks < MaxFaults

(* A message is lost. *)
Lose(i, j) ==
    /\ Fails(i, j)
    /\ wire[i][j] # <<>>
    /\ losses' = losses + 1
    /\ wire' = [wire EXCEPT ![i][j] = Tail(@)]
    /\ UNCHANGED <<sync, registry, ticked, breaks>>

(* A connection breaks, with all that is on it. *)
Break(i, j) ==
    /\ Fails(i, j)
    /\ i < j
    /\ j \in registry[i] \/ i \in registry[j]
    /\ breaks' = breaks + 1
    /\ registry' = [registry EXCEPT ![i] = @ \ {j}, ![j] = @ \ {i}]
    /\ wire' = [wire EXCEPT ![i][j] = <<>>, ![j][i] = <<>>]
    /\ UNCHANGED <<sync, ticked, losses>>

(* dispatch drops the sender of a peer whose queue is full: the message is *)
(* lost and the peer learns of it after what was queued before.            *)
DropStuck(i, j) ==
    /\ Fails(i, j)
    /\ j \in registry[i]
    /\ breaks' = breaks + 1
    /\ registry' = [registry EXCEPT ![i] = @ \ {j}]
    /\ UNCHANGED <<sync, wire, ticked, losses>>

Next ==
    \/ \E i, j \in Node :
         \/ Connect(i, j) \/ Receive(i, j) \/ Hangup(i, j)
         \/ Lose(i, j) \/ Break(i, j) \/ DropStuck(i, j)
    \/ \E i \in Node :
         \/ \E b \in Block : MineBlock(i, b)
         \/ \E stale \in Timeouts(sync[i]) : Tick(i, stale)

(* Read loops run, dialers redial and timers fire. *)
Fairness ==
    /\ \A l \in Link : WF_vars(Connect(l[1], l[2]))
    /\ \A l \in Link \cup {<<k[2], k[1]>> : k \in Link} :
         WF_vars(Receive(l[1], l[2])) /\ WF_vars(Hangup(l[1], l[2]))
    /\ \A i \in Node : WF_vars(\E stale \in Timeouts(sync[i]) : Tick(i, stale))

Spec == Init /\ [][Next]_vars /\ Fairness

-----------------------------------------------------------------------------
(* The three records of the orphan pool agree: the eviction order lists    *)
(* each orphan once, and waiting_on names exactly the orphans whose parent *)
(* is not in the DAG, so that no orphan is left behind when its last       *)
(* parent joins; and there are never more than the limit.                  *)
OrphansWait ==
    \A i \in Node :
        LET s == sync[i]
            orphans == DOMAIN s.orphans
        IN  /\ Cardinality(orphans) <= MaxOrphans
            /\ ToSet(s.orphan_order) = orphans /\ Len(s.orphan_order) = Cardinality(orphans)
            /\ \A p \in Block :
                   s.waiting_on[p] = IF p \in s.dag THEN {} ELSE {o \in orphans : p \in Parents[o]}
            /\ \A o \in orphans : ~ Parents[o] \subseteq s.dag

(* What is in flight is wanted and will be asked for again: it is held     *)
(* nowhere, and the peer that owes it is connected and ready.  So a        *)
(* timeout always finds a ready peer to ask.                               *)
RequestsAreOwed ==
    \A i \in Node : \A h \in DOMAIN sync[i].requested :
        h \notin Held(sync[i]) /\ sync[i].requested[h].peer \in Ready(sync[i])

(* "Once the header is in the DAG the block is executable"                 *)
(* (sync.rs:470-472):                                                      *)
(* its body is there, whether it came as an orphan or not, and an orphan's *)
(* is there before it joins.                                               *)
BodiesArePresent == \A i \in Node : Held(sync[i]) \ {Genesis} \subseteq sync[i].bodies

(* An orphan's missing parent is held as an orphan itself or asked for. *)
NothingForgotten ==
    \A i \in Node : \A o \in DOMAIN sync[i].orphans :
        Parents[o] \subseteq Held(sync[i]) \cup DOMAIN sync[i].requested

(* Losing messages forgets nothing: without a disconnection a parent is    *)
(* forgotten only if it was here and was evicted (its body still is).      *)
(* So as long as one request can name all that is asked for:               *)
(* MaxInvEntries covers every block of an instance that is checked, and    *)
(* LossNeverForgets assumes it.  request_from says nothing of the hashes   *)
(* after the 512th (sync.rs:612), and a parent among them is forgotten     *)
(* without any loss, or in a retry after one.                              *)
LossForgetsNothing ==
    breaks = 0 => \A i \in Node : \A o \in DOMAIN sync[i].orphans :
        Parents[o] \subseteq Held(sync[i]) \cup DOMAIN sync[i].requested \cup sync[i].bodies

(* Settled as Simulation::quiesce has it: every node has the same blocks,  *)
(* none is an orphan and none is asked for.                                *)
Settled ==
    /\ \A i, j \in Node : sync[i].dag = sync[j].dag
    /\ \A i \in Node : sync[i].orphans = <<>> /\ sync[i].requested = <<>>

(* "Tip reconciliation is what makes convergence eventual rather than      *)
(* merely likely" (sync.rs:299).                                           *)
EventuallySettled == <>[]Settled

(* So it is for as long as no orphan's parent is forgotten, whatever is    *)
(* lost and whichever connections end.                                     *)
SettledUnlessForgotten == []NothingForgotten => <>[]Settled
=============================================================================
