------------------------------ MODULE DagStore ------------------------------
(***************************************************************************)
(* The block DAG and its GHOSTDAG colouring: DagStore                      *)
(* (crates/ghostdag/src/dag.rs) with base_sequence (ordering.rs).          *)
(*                                                                         *)
(* One action, AddBlock, is the whole of add_block: it refuses a block     *)
(* that is known, has no parents, misses a parent, or merges too much, and *)
(* otherwise computes the block's GHOSTDAG data and inserts it.  A refusal *)
(* changes nothing and is a stuttering step.                               *)
(*                                                                         *)
(* A hash is a natural number, so that hashes are ordered as 256-bit       *)
(* hashes are; the header behind it is reduced to its parents and to the   *)
(* work its target stands for.  is_ancestor_of is taken at its word here:  *)
(* module Reachability shows that what it answers is membership in the     *)
(* past.  The colouring reads everything else the code reads, including    *)
(* the anticone sizes it carries from block to block.                      *)
(*                                                                         *)
(* Operators named Mut... are wrong on purpose and in no action: each is a *)
(* slip in the operator it precedes that the properties would catch.       *)
(***************************************************************************)
EXTENDS Integers, FiniteSets, Sequences, Functions, FiniteSetsExt, SequencesExt

CONSTANTS
    Hash,               \* the block hashes that may occur, a set of naturals
    Genesis,            \* the hash of the root
    K,                  \* the GHOSTDAG parameter k
    MergesetSizeLimit,  \* mergeset_size_limit
    Work,               \* the work a header may carry
    WorkMax,            \* U256::MAX, where accumulated work saturates
    MaxParents          \* most parents a header may name

ASSUME HashAssumption == Hash \subseteq Nat /\ Genesis \in Hash
ASSUME BoundsAssumption ==
    /\ K \in Nat /\ MergesetSizeLimit \in Nat /\ MaxParents \in Nat \ {0}
    /\ WorkMax \in Nat \ {0} /\ Work \subseteq 1..WorkMax /\ Work # {}

VARIABLES
    headers,    \* block -> [parents, work]
    data,       \* block -> its GhostdagData
    children,   \* block -> its child edges
    tips        \* blocks with no children

vars == <<headers, data, children, tips>>

Present == DOMAIN headers

-----------------------------------------------------------------------------
(* Topology.  The operators take the headers `hs` and the data `dt` they   *)
(* read, so that a block can be judged against any part of the DAG.        *)

(* past(b) of every block b, without b itself. *)
PastIn(hs) ==
    LET past[b \in DOMAIN hs] ==
            hs[b].parents \cup UNION {past[p] : p \in hs[b].parents}
    IN  past

(* selected_parent_chain(b), as a set. *)
ChainIn(dt, tip) ==
    LET chain[b \in DOMAIN dt] ==
            IF dt[b].selected_parent = b THEN {b}
                                         ELSE {b} \cup chain[dt[b].selected_parent]
    IN  chain[tip]

(* compare_blocks: by (blue_work, hash), a total order. *)
Heavier(dt, a, b) ==
    \/ dt[a].blue_work > dt[b].blue_work
    \/ dt[a].blue_work = dt[b].blue_work /\ a > b

Heaviest(dt, S) == CHOOSE b \in S : \A c \in S \ {b} : Heavier(dt, b, c)

(* Mutant: the parent with the least work is selected. *)
MutSelectParent(dt, ps) == CHOOSE b \in ps : \A c \in ps \ {b} : Heavier(dt, c, b)

SelectParent(dt, ps) == Heaviest(dt, ps)

-----------------------------------------------------------------------------
(* The merge set: past(block) \ past(selected parent), less the selected   *)
(* parent itself.                                                          *)
(* Mutant: the search starts from every block of the store rather than     *)
(* from the parents.                                                       *)
MutMergesetOfStore(past, ps, sp) == DOMAIN past \ (past[sp] \cup {sp})

Mergeset(past, ps, sp) ==
    (ps \cup UNION {past[p] : p \in ps}) \ (past[sp] \cup {sp})

(* One pass of topological_sort over what is left: a block is emitted when *)
(* its parents within the set have been.                                   *)
Sift(hs, members, acc, b) ==
    IF hs[b].parents \cap members \subseteq Range(acc.out)
    THEN [out |-> Append(acc.out, b), left |-> acc.left]
    ELSE [out |-> acc.out, left |-> Append(acc.left, b)]

Pass(hs, members, state) ==
    LET sifted[n \in 0..Len(state.left)] ==
            IF n = 0 THEN [out |-> state.out, left |-> <<>>]
                     ELSE Sift(hs, members, sifted[n - 1], state.left[n])
    IN  sifted[Len(state.left)]

(* The order the sort starts from: each block after those it outweighs.    *)
LightestFirst(dt, blocks) ==
    [i \in 1..Cardinality(blocks) |->
        CHOOSE b \in blocks : Cardinality({a \in blocks : Heavier(dt, b, a)}) = i - 1]

(* Mutant: ordered heaviest first, in one go. *)
MutTopologicalSort(hs, dt, blocks) == Reverse(LightestFirst(dt, blocks))

(* topological_sort: passes over the blocks, lightest first, until nothing *)
(* is left; a pass that emits nothing would end it with the rest appended. *)
TopologicalSort(hs, dt, blocks) ==
    LET after[n \in 0..Cardinality(blocks)] ==
            IF n = 0 THEN [out |-> <<>>, left |-> LightestFirst(dt, blocks)]
                     ELSE Pass(hs, blocks, after[n - 1])
        last == after[Cardinality(blocks)]
    IN  last.out \o last.left

-----------------------------------------------------------------------------
(* colour_candidate.  The blues found concurrent with the candidate `c`,   *)
(* each with the anticone size the code looks up for it: for a blue of     *)
(* this very merge set the running count in `sizes`; for a blue of an      *)
(* earlier chain block `x` the count recorded when x merged it.  The walk  *)
(* stops at the first chain block in the candidate's past.                 *)
(* Mutant: the walk along the selected parent chain is left out.           *)
Concurrent(past, c, blues, sizes) ==
    {[blue |-> b, existing |-> sizes[b]] : b \in blues \ past[c]}

MutConcurrentBlues(past, chain, c, blues, sizes) == Concurrent(past, c, blues, sizes)

ConcurrentBlues(past, chain, c, blues, sizes) ==
    Concurrent(past, c, blues, sizes) \cup
    UNION {Concurrent(past, c, chain[x].mergeset_blues, chain[x].blues_anticone_sizes) :
              x \in DOMAIN chain \ past[c]}

(* The k-cluster rule. *)
StaysBlue(blues, concurrent) ==
    /\ Cardinality(blues) <= K
    /\ Cardinality(concurrent) <= K
    /\ \A e \in concurrent : e.existing < K

(* The candidate's own count and the counts it pushes up. *)
Recount(sizes, c, concurrent) ==
    [b \in DOMAIN sizes \cup {c} \cup {e.blue : e \in concurrent} |->
        IF b = c THEN Cardinality(concurrent)
        ELSE IF \E e \in concurrent : e.blue = b
             THEN (CHOOSE e \in concurrent : e.blue = b).existing + 1
             ELSE sizes[b]]

(* The colouring loop of compute_ghostdag over the ordered merge set. *)
ColourCandidate(past, chain, acc, c) ==
    LET conc == ConcurrentBlues(past, chain, c, acc.blues, acc.sizes)
    IN  IF StaysBlue(acc.blues, conc)
        THEN [blues |-> acc.blues \cup {c}, reds |-> acc.reds,
              sizes |-> Recount(acc.sizes, c, conc)]
        ELSE [blues |-> acc.blues, reds |-> acc.reds \cup {c}, sizes |-> acc.sizes]

Colour(past, chain, sp, mergeset) ==
    LET coloured[n \in 0..Len(mergeset)] ==
            IF n = 0 THEN [blues |-> {sp}, reds |-> {}, sizes |-> [b \in {sp} |-> 0]]
                     ELSE ColourCandidate(past, chain, coloured[n - 1], mergeset[n])
    IN  coloured[Len(mergeset)]

SaturatingAdd(a, b) == IF a + b > WorkMax THEN WorkMax ELSE a + b

WorkOf(hs, blocks) == MapThenSumSet(LAMBDA b : hs[b].work, blocks)

BlueWork(hs, dt, sp, blues, w) ==
    SaturatingAdd(dt[sp].blue_work, WorkOf(hs, blues \ {sp}) + w)

(* compute_ghostdag, for a block that is not in the store yet.  It orders  *)
(* and colours the merge set by its own headers and data, and by the data  *)
(* of the selected parent chain.                                           *)
ComputeGhostdag(hs, dt, ps, w) ==
    LET past    == PastIn(hs)
        sp      == SelectParent(dt, ps)
        members == Mergeset(past, ps, sp)
        merged  == TopologicalSort(Restrict(hs, members), Restrict(dt, members), members)
        colour  == Colour(Restrict(past, members), Restrict(dt, ChainIn(dt, sp)), sp, merged)
    IN  [selected_parent      |-> sp,
         blue_score           |-> dt[sp].blue_score + Cardinality(colour.blues),
         blue_work            |-> BlueWork(Restrict(hs, members), dt, sp, colour.blues, w),
         mergeset_blues       |-> colour.blues,
         mergeset_reds        |-> colour.reds,
         mergeset_ordered     |-> merged,
         topological_height   |-> Max({dt[p].topological_height : p \in ps}) + 1,
         blues_anticone_sizes |-> colour.sizes]

-----------------------------------------------------------------------------
(* DagStore::new: genesis is its own selected parent. *)
GenesisData(w) ==
    [selected_parent      |-> Genesis,
     blue_score           |-> 0,
     blue_work            |-> w,
     mergeset_blues       |-> {},
     mergeset_reds        |-> {},
     mergeset_ordered     |-> <<>>,
     topological_height   |-> 0,
     blues_anticone_sizes |-> [b \in {} |-> 0]]

Init ==
    /\ \E w \in Work :
         /\ headers = [b \in {Genesis} |-> [parents |-> {}, work |-> w]]
         /\ data = [b \in {Genesis} |-> GenesisData(w)]
    /\ children = [b \in {Genesis} |-> {}]
    /\ tips = {Genesis}

Extend(f, x, v) == [y \in DOMAIN f \cup {x} |-> IF y = x THEN v ELSE f[y]]

(* add_block refuses a block that is known, has no parents, names a parent *)
(* it does not have, or whose merge set exceeds the limit.                 *)
Accepts(b, ps) ==
    /\ b \notin Present
    /\ ps # {}
    /\ ps \subseteq Present
    /\ Cardinality(Mergeset(PastIn(headers), ps, SelectParent(data, ps)))
           <= MergesetSizeLimit

(* Mutant: only a lone parent leaves the tip set. *)
MutTipsAfter(b, ps) == IF Cardinality(ps) = 1 THEN (tips \ ps) \cup {b} ELSE tips \cup {b}

TipsAfter(b, ps) == (tips \ ps) \cup {b}

AddBlock(b, ps, w) ==
    /\ Accepts(b, ps)
    /\ headers' = Extend(headers, b, [parents |-> ps, work |-> w])
    /\ data' = Extend(data, b, ComputeGhostdag(headers, data, ps, w))
    /\ children' = [c \in Present \cup {b} |->
                       IF c = b THEN {} ELSE IF c \in ps THEN children[c] \cup {b}
                                                         ELSE children[c]]
    /\ tips' = TipsAfter(b, ps)

(* The parent lists validation lets through: a set, since the header lists *)
(* them in strictly ascending order.                                       *)
ParentSets(S) == {ps \in SUBSET S : Cardinality(ps) \in 1..MaxParents}

Next == \E b \in Hash, ps \in ParentSets(Present), w \in Work : AddBlock(b, ps, w)

Spec == Init /\ [][Next]_vars

-----------------------------------------------------------------------------
(* What callers read off the store. *)
VirtualSelectedParent == Heaviest(data, tips)

Past(b) == PastIn(headers)[b]

Chain(b) == ChainIn(data, b)

(* The blue set of a block: the blues merged along its selected chain. *)
BluePast(b) == UNION {data[c].mergeset_blues : c \in Chain(b)}

(* base_sequence: a chain block's merge set, then the block itself. *)
BaseSequence(c) == Append(data[c].mergeset_ordered, c)

(* What executing the selected chain of `b` runs, in order. *)
ExecutionOrder(b) ==
    FlattenSeq([i \in 1..Cardinality(Chain(b)) |->
        BaseSequence(CHOOSE c \in Chain(b) :
                         Cardinality(Chain(c)) = i)])

-----------------------------------------------------------------------------
(* Types; and a header's parents are in the store, children mirror         *)
(* parents, and the tips are exactly the blocks nothing builds on.         *)
TypeOK ==
    /\ Present \subseteq Hash /\ DOMAIN data = Present /\ DOMAIN children = Present
    /\ headers \in [Present -> [parents : SUBSET Present, work : Work]]
    /\ \A b, c \in Present : c \in children[b] <=> b \in headers[c].parents
    /\ tips = {b \in Present : children[b] = {}}
    /\ \A b \in Present :
         /\ data[b].selected_parent \in Present
         /\ data[b].blue_work \in 1..WorkMax
         /\ data[b].topological_height \in Nat

(* The work of the blue blocks of the past, each weighed once, and of the  *)
(* block itself.                                                           *)
TotalWork(b) == WorkOf(headers, BluePast(b) \cup {b})

(* virtual_selected_parent looks only at the tips and at totals carried    *)
(* from block to block, and finds the heaviest block of the whole store by *)
(* work counted afresh, although a child's blue set is not a superset of   *)
(* every parent's.                                                         *)
HeadIsHeaviest ==
    \A b \in Present \ {VirtualSelectedParent} :
        \/ TotalWork(b) < TotalWork(VirtualSelectedParent)
        \/ /\ TotalWork(b) = TotalWork(VirtualSelectedParent)
           /\ b < VirtualSelectedParent

(* The ledger is complete and has no duplicates: along the selected chain  *)
(* of any block, every block of its past is executed exactly once - on the *)
(* chain or in the one merge set that holds it - and never before a parent *)
(* of its own.                                                             *)
PastIsExecutedOnce ==
    \A b \in Present :
        LET order == ExecutionOrder(b)
        IN  /\ Range(order) = Past(b) \cup {b}
            /\ Len(order) = Cardinality(Past(b)) + 1
            /\ \A i, j \in 1..Len(order) : order[i] \in Past(order[j]) => i < j

Anticone(x, S) == {y \in S \ {x} : x \notin Past(y) /\ y \notin Past(x)}

(* The blues a block merges itself obey the k-cluster rule among all the   *)
(* blues of its past, and the anticone size recorded for each is exact.    *)
MergedBluesCluster ==
    \A b \in Present : \A x \in data[b].mergeset_blues :
        LET n == Cardinality(Anticone(x, BluePast(b)))
        IN  data[b].blues_anticone_sizes[x] = n /\ n <= K

(* The rule the module's documentation states (dag.rs:8): a block is       *)
(* coloured blue only if every blue block keeps a blue-anticone within k.  *)
BlueSetIsKCluster ==
    \A b \in Present : \A x \in BluePast(b) :
        Cardinality(Anticone(x, BluePast(b))) <= K

(* Insertion-order independence: a block's data is a function of its past  *)
(* alone.  Two nodes that hold a block agree on its data whatever else     *)
(* they hold and in whatever order they received it.                       *)
DataIsPureInThePast ==
    \A b \in Present \ {Genesis} :
        data[b] = ComputeGhostdag(Restrict(headers, Past(b)), Restrict(data, Past(b)),
                                  headers[b].parents, headers[b].work)
=============================================================================
