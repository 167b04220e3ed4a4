----------------------------- MODULE MCNetwork -----------------------------
(* Network for TLC: node 1 stands between nodes 2 and 3, so it has a peer  *)
(* that has the blocks and one that does not.  Node 3 finds a chain of     *)
(* three blocks.                                                           *)
EXTENDS Network, TLC

MCParents == (0 :> {}) @@ (1 :> {0}) @@ (2 :> {1}) @@ (3 :> {2})
MCMinedBy == [b \in Block |-> 3]

MCLink == {<<1, 2>>, <<1, 3>>}
MCFragile == {<<1, 3>>}

(* The first two blocks are found, and whoever is not on a fragile link is *)
(* connected, before anything else happens; so the others start behind.    *)
EarlyMined == {1, 2} \subseteq sync[3].dag

EarlyConnected == \A l \in Link \ Fragile : l[2] \in DOMAIN sync[l[1]].peers

MCNext ==
    \/ ~ EarlyMined /\ \E b \in {1, 2} : MineBlock(3, b)
    \/ EarlyMined /\ ~ EarlyConnected /\ \E l \in Link \ Fragile : Connect(l[1], l[2])
    \/ EarlyMined /\ EarlyConnected /\ Next

(* Fairness with ENABLED written out for the two actions whose handlers    *)
(* are long: TLC computes a handler once for a step, and again and again   *)
(* for ENABLED.  A reader can go on when it has a message and a peer, a    *)
(* timer when its round and the bound allow it; both change a variable.    *)
Readable(i, j) == wire[j][i] # <<>> /\ j \in DOMAIN sync[i].peers

Due(i) ==
    /\ i \notin ticked
    /\ \A j \in Node : Len(wire[i][j]) < QueueBound /\ Len(wire[j][i]) < QueueBound

MCFairness ==
    /\ \A l \in Link : WF_vars(Connect(l[1], l[2]))
    /\ \A l \in Link \cup {<<k[2], k[1]>> : k \in Link} :
         /\ WF_vars(Hangup(l[1], l[2]))
         /\ []<>(~ Readable(l[1], l[2])) \/ []<><<Receive(l[1], l[2])>>_vars
    /\ \A i \in Node :
         []<>(~ Due(i)) \/ []<><<\E stale \in Timeouts(sync[i]) : Tick(i, stale)>>_vars

MCSpec == Init /\ [][MCNext]_vars /\ MCFairness
=============================================================================
