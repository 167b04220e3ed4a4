---------------------------- MODULE Reachability ----------------------------
(***************************************************************************)
(* The reachability oracle of the block DAG: DagStore::is_ancestor_of and  *)
(* the memo table behind it (crates/ghostdag/src/dag.rs).                  *)
(*                                                                         *)
(* Every GHOSTDAG decision - which blocks a merge set holds, which colour  *)
(* each gets - is an answer of this search.  It is a breadth-first search  *)
(* over parent edges, cut short by topological height and remembered in a  *)
(* bounded table that all readers share.  The module models the growing    *)
(* DAG, the table, and any number of readers searching at once; the        *)
(* definition of ancestry they are compared with never mentions heights,   *)
(* tables or queues.                                                       *)
(*                                                                         *)
(* Readers run under `&self`, a block is added under `&mut self`: blocks   *)
(* arrive only while no search is under way.  Between a reader's look at   *)
(* the table and its write to it the lock is free, so readers interleave.  *)
(***************************************************************************)
EXTENDS Integers, FiniteSets

CONSTANTS
    Block,          \* block hashes
    Genesis,        \* the root of the DAG
    Reader,         \* threads that hold a shared reference to the store
    CacheCapacity   \* entries held before the memo table is dropped

ASSUME GenesisIsBlock == Genesis \in Block
ASSUME CapacityIsPositive == CacheCapacity \in Nat \ {0}

VARIABLES
    present,    \* blocks in the store
    parents,    \* header.parents of each block; {} where there is no header
    height,     \* topological_height; 0 where there is no data
    cache,      \* (descendant, ancestor) -> remembered answer
    pc,         \* what each reader is doing
    anc,        \* the `ancestor` argument of its call
    desc,       \* the `descendant` argument of its call
    seen,       \* blocks its search has enqueued
    queue,      \* blocks its search has still to expand
    found       \* the answer its search has reached

dag    == <<present, parents, height>>
search == <<pc, anc, desc, seen, queue, found>>
vars   == <<dag, cache, search>>

-----------------------------------------------------------------------------
(***************************************************************************)
(* Ancestry by definition.  The past of `d` is the least set that holds    *)
(* the parents of `d` and is closed under taking parents: `a` is in it iff *)
(* `a` is in every such set.                                               *)
(***************************************************************************)
ParentClosed(par, S) == \A b \in S : par[b] \subseteq S

Reaches(par, d, a) ==
    \A S \in SUBSET Block : ParentClosed(par, S) /\ par[d] \subseteq S => a \in S

InPast(a, d) == Reaches(parents, d, a)

IsAncestor(a, d) == a = d \/ InPast(a, d)

-----------------------------------------------------------------------------
Init ==
    /\ present = {Genesis}
    /\ parents = [b \in Block |-> {}]
    /\ height = [b \in Block |-> 0]
    /\ cache = [k \in {} |-> FALSE]
    /\ pc = [r \in Reader |-> "idle"]
    /\ anc = [r \in Reader |-> Genesis]
    /\ desc = [r \in Reader |-> Genesis]
    /\ seen = [r \in Reader |-> {}]
    /\ queue = [r \in Reader |-> {}]
    /\ found = [r \in Reader |-> TRUE]

(* One deeper than the deepest parent. *)
IsHeightOver(n, ps) ==
    /\ \A p \in ps : height[p] < n
    /\ \E p \in ps : n = height[p] + 1

(* add_block, as far as reachability sees it: the header and its height    *)
(* are inserted; the memo table is not touched.                            *)
AddBlock(b, ps) ==
    /\ \A r \in Reader : pc[r] \in {"idle", "done"}
    /\ b \notin present
    /\ ps # {} /\ ps \subseteq present
    /\ \E p \in ps :
         /\ IsHeightOver(height[p] + 1, ps)
         /\ height' = [height EXCEPT ![b] = height[p] + 1]
    /\ present' = present \cup {b}
    /\ parents' = [parents EXCEPT ![b] = ps]
    /\ UNCHANGED <<cache, search>>

(* The entry of is_ancestor_of: equal blocks, a remembered answer, a       *)
(* descendant too shallow to contain the ancestor, or a search.            *)
Finish(r, answer) ==
    /\ pc' = [pc EXCEPT ![r] = "done"]
    /\ found' = [found EXCEPT ![r] = answer]
    /\ UNCHANGED <<seen, queue>>

Conclude(r, answer) ==
    /\ pc' = [pc EXCEPT ![r] = "remember"]
    /\ found' = [found EXCEPT ![r] = answer]
    /\ seen' = [seen EXCEPT ![r] = {}]
    /\ queue' = [queue EXCEPT ![r] = {}]

StartSearch(r, d) ==
    /\ pc' = [pc EXCEPT ![r] = "search"]
    /\ found' = [found EXCEPT ![r] = FALSE]
    /\ seen' = [seen EXCEPT ![r] = {d}]
    /\ queue' = [queue EXCEPT ![r] = {d}]

Ask(r, a, d) ==
    /\ pc[r] \in {"idle", "done"}
    /\ anc' = [anc EXCEPT ![r] = a]
    /\ desc' = [desc EXCEPT ![r] = d]
    /\ \/ a = d /\ Finish(r, TRUE)
       \/ a # d /\ <<d, a>> \in DOMAIN cache /\ Finish(r, cache[<<d, a>>])
       \/ /\ a # d /\ <<d, a>> \notin DOMAIN cache
          /\ \/ height[d] <= height[a] /\ Conclude(r, FALSE)
             \/ height[d] > height[a] /\ StartSearch(r, d)
    /\ UNCHANGED <<dag, cache>>

(* Mutant, in no action: the prune is off by one and cuts the ancestor's   *)
(* own children.                                                           *)
MutFrontier(r, x) ==
    {p \in parents[x] : height[p] > height[anc[r]] + 1} \ seen[r]

(* The parents of `x` the search goes on to: those not yet seen that are   *)
(* deeper than the ancestor.                                               *)
Frontier(r, x) ==
    {p \in parents[x] : height[p] > height[anc[r]]} \ seen[r]

(* One turn of the search loop: pop a block, compare its parents with the  *)
(* ancestor, then enqueue the ones worth expanding.                        *)
Visit(r, x) ==
    /\ pc[r] = "search"
    /\ x \in queue[r]
    /\ \/ anc[r] \in parents[x] /\ Conclude(r, TRUE)
       \/ /\ anc[r] \notin parents[x]
          /\ seen' = [seen EXCEPT ![r] = @ \cup Frontier(r, x)]
          /\ queue' = [queue EXCEPT ![r] = (@ \ {x}) \cup Frontier(r, x)]
          /\ UNCHANGED <<pc, found>>
    /\ UNCHANGED <<dag, cache, anc, desc>>

(* The queue has run dry. *)
Exhaust(r) ==
    /\ pc[r] = "search"
    /\ queue[r] = {}
    /\ Conclude(r, FALSE)
    /\ UNCHANGED <<dag, cache, anc, desc>>

(* remember: drop the whole table when it is full, then insert.            *)
Kept == IF Cardinality(DOMAIN cache) >= CacheCapacity THEN {} ELSE DOMAIN cache

Remember(r) ==
    /\ pc[r] = "remember"
    /\ LET key == <<desc[r], anc[r]>>
       IN  cache' = [k \in Kept \cup {key} |-> IF k = key THEN found[r] ELSE cache[k]]
    /\ pc' = [pc EXCEPT ![r] = "done"]
    /\ UNCHANGED <<dag, anc, desc, seen, queue, found>>

ReaderStep(r) ==
    \/ \E a, d \in present : Ask(r, a, d)
    \/ \E x \in Block : Visit(r, x)
    \/ Exhaust(r)
    \/ Remember(r)

Next ==
    \/ \E b \in Block, ps \in SUBSET Block : AddBlock(b, ps)
    \/ \E r \in Reader : ReaderStep(r)

Spec == Init /\ [][Next]_vars

-----------------------------------------------------------------------------
TypeOK ==
    /\ present \subseteq Block /\ Genesis \in present
    /\ parents \in [Block -> SUBSET present]
    /\ height \in [Block -> Nat]
    /\ DOMAIN cache \subseteq Block \X Block
    /\ cache \in [DOMAIN cache -> BOOLEAN]
    /\ pc \in [Reader -> {"idle", "search", "remember", "done"}]
    /\ anc \in [Reader -> Block]
    /\ desc \in [Reader -> Block]
    /\ seen \in [Reader -> SUBSET Block]
    /\ queue \in [Reader -> SUBSET Block]
    /\ found \in [Reader -> BOOLEAN]

(* Whatever interleaving of searches, table hits and table drops produced  *)
(* it, and however many blocks arrived since, the answer a reader holds is *)
(* the truth about the DAG as it is now.                                   *)
AnswersAreTrue ==
    \A r \in Reader :
        pc[r] \in {"remember", "done"} => (found[r] <=> IsAncestor(anc[r], desc[r]))

(* No entry of the memo table is ever stale, although add_block never      *)
(* invalidates it: a remembered "no" stays "no" as the DAG grows.          *)
CacheIsTrue ==
    \A k \in DOMAIN cache : cache[k] <=> IsAncestor(k[2], k[1])

(* The table never outgrows CACHE_CAPACITY, even when several readers      *)
(* finish searches for the same pair.                                      *)
CacheIsBounded == Cardinality(DOMAIN cache) <= CacheCapacity

(* The fact the height prune rests on: height strictly increases along     *)
(* every path, not only along edges.                                       *)
HeightsRiseAlongPast ==
    \A a, d \in present : InPast(a, d) => height[a] < height[d]

(* The strengthening the answers rest on: at every point of a search, what *)
(* it has seen is in the descendant's past, and what it has expanded       *)
(* leads only to blocks it has seen or to blocks no deeper than the        *)
(* ancestor.                                                               *)
Searching(r) ==
    /\ anc[r] # desc[r]
    /\ anc[r] \notin seen[r]
    /\ desc[r] \in seen[r]
    /\ queue[r] \subseteq seen[r]
    /\ \A x \in seen[r] : IsAncestor(x, desc[r])
    /\ \A x \in seen[r] \ queue[r] : \A p \in parents[x] :
            p # anc[r] /\ (p \in seen[r] \/ height[p] <= height[anc[r]])

DagShape ==
    /\ \A b \in Block \ present : parents[b] = {} /\ height[b] = 0
    /\ \A b \in present : \A p \in parents[b] : height[p] < height[b]

Asked ==
    /\ DOMAIN cache \subseteq present \X present
    /\ \A r \in Reader : anc[r] \in present /\ desc[r] \in present

IInv ==
    /\ TypeOK
    /\ DagShape
    /\ Asked
    /\ CacheIsTrue
    /\ AnswersAreTrue
    /\ \A r \in Reader : pc[r] = "search" => Searching(r)

=============================================================================
