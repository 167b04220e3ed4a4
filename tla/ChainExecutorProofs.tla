------------------------ MODULE ChainExecutorProofs ------------------------
(***************************************************************************)
(* What execution along the selected chain keeps true, for any blocks,     *)
(* bodies, miners, fees, gas limit and pruning window: however many reorgs *)
(* a node went through, its state is that of a node that executed the      *)
(* selected chain of its tip once, from genesis.                           *)
(*                                                                         *)
(* The loops of the code are functions from a number of iterations to what *)
(* they have made of it; each is shown to exist, once, by adding an        *)
(* iteration to a shorter one.                                             *)
(***************************************************************************)
EXTENDS ChainExecutor, DagStoreProofs, SequenceTheorems

-----------------------------------------------------------------------------
(* The loops. *)
FirstBlock(state) == [state |-> state, undo |-> NoUndo, gasUsed |-> 0, executed |-> <<>>]

BlockRun(tagged, order, state, f) ==
    f = [n \in 0..Len(order) |-> IF n = 0 THEN FirstBlock(state) ELSE ExecuteOne(f[n - 1], tagged[order[n]])]

LEMMA BlockRuns ==
    ASSUME NEW tagged, NEW order, NEW state, Len(order) \in Nat
    PROVE  \E f : BlockRun(tagged, order, state, f) /\ ExecuteSequentially(tagged, order, state) = f[Len(order)]
<1> DEFINE N == Len(order)
           x0 == FirstBlock(state)
           To(k, f) == f = [n \in 0..k |-> IF n = 0 THEN x0 ELSE ExecuteOne(f[n - 1], tagged[order[n]])]
           G == {k \in Nat : \E f : To(k, f)}
<1>1. 0 \in G
  <2> DEFINE g == [n \in 0..0 |-> x0]
  <2>1. g = [n \in 0..0 |-> IF n = 0 THEN x0 ELSE ExecuteOne(g[n - 1], tagged[order[n]])]
    OBVIOUS
  <2> QED
    BY <2>1
<1>2. ASSUME NEW k \in Nat, k \in G PROVE k + 1 \in G
  <2>1. PICK f : To(k, f)
    BY <1>2
  <2> DEFINE g == [n \in 0..(k + 1) |-> IF n = 0 THEN x0 ELSE ExecuteOne(f[n - 1], tagged[order[n]])]
  <2>2. \A n \in 0..k : g[n] = f[n]
    BY <2>1
  <2>3. \A n \in 0..(k + 1) : n # 0 => n - 1 \in 0..k
    OBVIOUS
  <2>4. g = [n \in 0..(k + 1) |-> IF n = 0 THEN x0 ELSE ExecuteOne(g[n - 1], tagged[order[n]])]
    <3>1. \A n \in 0..(k + 1) : n # 0 => g[n - 1] = f[n - 1]
        BY <2>2, <2>3
    <3>2. g = [n \in 0..(k + 1) |-> IF n = 0 THEN x0 ELSE ExecuteOne(f[n - 1], tagged[order[n]])]
        OBVIOUS
    <3> HIDE DEF g
    <3> QED
        BY <3>1, <3>2
  <2>5. \E h : To(k + 1, h)
    <3>1. To(k + 1, g)
        BY <2>4
    <3> HIDE DEF g, To
    <3> QED
        BY <3>1
  <2> QED
    BY <2>5
<1>3. \E f : BlockRun(tagged, order, state, f)
  <2>1. Nat \subseteq G
    <3> HIDE DEF G
    <3> QED
        BY <1>1, <1>2, Counting
  <2>2. \E f : To(N, f)
    BY <2>1
  <2> QED
    BY <2>2 DEF BlockRun
<1> DEFINE Run(f) == BlockRun(tagged, order, state, f)
           chosen == CHOOSE f : Run(f)
<1>4. Run(chosen)
  <2> HIDE DEF Run
  <2>1. \E f : Run(f)
    BY <1>3 DEF Run
  <2> QED
    BY <2>1
<1>5. ExecuteSequentially(tagged, order, state) = chosen[N]
    BY DEF ExecuteSequentially, FirstBlock, BlockRun
<1> QED
    BY <1>4, <1>5

FirstUndo(ex) == [ok |-> TRUE, ex |-> ex]

UndoRun(ex, removed, f) ==
    f = [n \in 0..Len(removed) |-> IF n = 0 THEN FirstUndo(ex) ELSE UndoNext(f[n - 1], removed[n])]

LEMMA UndoRuns ==
    ASSUME NEW ex, NEW removed, Len(removed) \in Nat
    PROVE  \E f : UndoRun(ex, removed, f) /\ Undone(ex, removed) = f[Len(removed)]
<1> DEFINE N == Len(removed)
           x0 == FirstUndo(ex)
           To(k, f) == f = [n \in 0..k |-> IF n = 0 THEN x0 ELSE UndoNext(f[n - 1], removed[n])]
           G == {k \in Nat : \E f : To(k, f)}
<1>1. 0 \in G
  <2> DEFINE g == [n \in 0..0 |-> x0]
  <2>1. g = [n \in 0..0 |-> IF n = 0 THEN x0 ELSE UndoNext(g[n - 1], removed[n])]
    OBVIOUS
  <2> QED
    BY <2>1
<1>2. ASSUME NEW k \in Nat, k \in G PROVE k + 1 \in G
  <2>1. PICK f : To(k, f)
    BY <1>2
  <2> DEFINE g == [n \in 0..(k + 1) |-> IF n = 0 THEN x0 ELSE UndoNext(f[n - 1], removed[n])]
  <2>2. \A n \in 0..k : g[n] = f[n]
    BY <2>1
  <2>3. \A n \in 0..(k + 1) : n # 0 => n - 1 \in 0..k
    OBVIOUS
  <2>4. g = [n \in 0..(k + 1) |-> IF n = 0 THEN x0 ELSE UndoNext(g[n - 1], removed[n])]
    <3>1. \A n \in 0..(k + 1) : n # 0 => g[n - 1] = f[n - 1]
        BY <2>2, <2>3
    <3>2. g = [n \in 0..(k + 1) |-> IF n = 0 THEN x0 ELSE UndoNext(f[n - 1], removed[n])]
        OBVIOUS
    <3> HIDE DEF g
    <3> QED
        BY <3>1, <3>2
  <2>5. \E h : To(k + 1, h)
    <3>1. To(k + 1, g)
        BY <2>4
    <3> HIDE DEF g, To
    <3> QED
        BY <3>1
  <2> QED
    BY <2>5
<1>3. \E f : UndoRun(ex, removed, f)
  <2>1. Nat \subseteq G
    <3> HIDE DEF G
    <3> QED
        BY <1>1, <1>2, Counting
  <2>2. \E f : To(N, f)
    BY <2>1
  <2> QED
    BY <2>2 DEF UndoRun
<1> DEFINE Run(f) == UndoRun(ex, removed, f)
           chosen == CHOOSE f : Run(f)
<1>4. Run(chosen)
  <2> HIDE DEF Run
  <2>1. \E f : Run(f)
    BY <1>3 DEF Run
  <2> QED
    BY <2>1
<1>5. Undone(ex, removed) = chosen[N]
    BY DEF Undone, FirstUndo, UndoRun
<1> QED
    BY <1>4, <1>5


RedoRun(dt, bs, ex, added, f) ==
    f = [n \in 0..Len(added) |-> IF n = 0 THEN ex ELSE ExecuteChainBlock(dt, bs, f[n - 1], added[n])]

LEMMA RedoRuns ==
    ASSUME NEW dt, NEW bs, NEW ex, NEW added, Len(added) \in Nat
    PROVE  \E f : RedoRun(dt, bs, ex, added, f) /\ Redone(dt, bs, ex, added) = f[Len(added)]
<1> DEFINE N == Len(added)
           x0 == ex
           To(k, f) == f = [n \in 0..k |-> IF n = 0 THEN x0 ELSE ExecuteChainBlock(dt, bs, f[n - 1], added[n])]
           G == {k \in Nat : \E f : To(k, f)}
<1>1. 0 \in G
  <2> DEFINE g == [n \in 0..0 |-> x0]
  <2>1. g = [n \in 0..0 |-> IF n = 0 THEN x0 ELSE ExecuteChainBlock(dt, bs, g[n - 1], added[n])]
    OBVIOUS
  <2> QED
    BY <2>1
<1>2. ASSUME NEW k \in Nat, k \in G PROVE k + 1 \in G
  <2>1. PICK f : To(k, f)
    BY <1>2
  <2> DEFINE g == [n \in 0..(k + 1) |-> IF n = 0 THEN x0 ELSE ExecuteChainBlock(dt, bs, f[n - 1], added[n])]
  <2>2. \A n \in 0..k : g[n] = f[n]
    BY <2>1
  <2>3. \A n \in 0..(k + 1) : n # 0 => n - 1 \in 0..k
    OBVIOUS
  <2>4. g = [n \in 0..(k + 1) |-> IF n = 0 THEN x0 ELSE ExecuteChainBlock(dt, bs, g[n - 1], added[n])]
    <3>1. \A n \in 0..(k + 1) : n # 0 => g[n - 1] = f[n - 1]
        BY <2>2, <2>3
    <3>2. g = [n \in 0..(k + 1) |-> IF n = 0 THEN x0 ELSE ExecuteChainBlock(dt, bs, f[n - 1], added[n])]
        OBVIOUS
    <3> HIDE DEF g
    <3> QED
        BY <3>1, <3>2
  <2>5. \E h : To(k + 1, h)
    <3>1. To(k + 1, g)
        BY <2>4
    <3> HIDE DEF g, To
    <3> QED
        BY <3>1
  <2> QED
    BY <2>5
<1>3. \E f : RedoRun(dt, bs, ex, added, f)
  <2>1. Nat \subseteq G
    <3> HIDE DEF G
    <3> QED
        BY <1>1, <1>2, Counting
  <2>2. \E f : To(N, f)
    BY <2>1
  <2> QED
    BY <2>2 DEF RedoRun
<1> DEFINE Run(f) == RedoRun(dt, bs, ex, added, f)
           chosen == CHOOSE f : Run(f)
<1>4. Run(chosen)
  <2> HIDE DEF Run
  <2>1. \E f : Run(f)
    BY <1>3 DEF Run
  <2> QED
    BY <2>1
<1>5. Redone(dt, bs, ex, added) = chosen[N]
    BY DEF Redone, RedoRun
<1> QED
    BY <1>4, <1>5


KeepRun(tagged, f) ==
    f = [n \in 0..Len(tagged) |-> IF n = 0 THEN <<>> ELSE KeepFirst(f[n - 1], tagged[n])]

LEMMA KeepRuns ==
    ASSUME NEW tagged, Len(tagged) \in Nat
    PROVE  \E f : KeepRun(tagged, f) /\ Deduplicated(tagged) = f[Len(tagged)]
<1> DEFINE N == Len(tagged)
           x0 == <<>>
           To(k, f) == f = [n \in 0..k |-> IF n = 0 THEN x0 ELSE KeepFirst(f[n - 1], tagged[n])]
           G == {k \in Nat : \E f : To(k, f)}
<1>1. 0 \in G
  <2> DEFINE g == [n \in 0..0 |-> x0]
  <2>1. g = [n \in 0..0 |-> IF n = 0 THEN x0 ELSE KeepFirst(g[n - 1], tagged[n])]
    OBVIOUS
  <2> QED
    BY <2>1
<1>2. ASSUME NEW k \in Nat, k \in G PROVE k + 1 \in G
  <2>1. PICK f : To(k, f)
    BY <1>2
  <2> DEFINE g == [n \in 0..(k + 1) |-> IF n = 0 THEN x0 ELSE KeepFirst(f[n - 1], tagged[n])]
  <2>2. \A n \in 0..k : g[n] = f[n]
    BY <2>1
  <2>3. \A n \in 0..(k + 1) : n # 0 => n - 1 \in 0..k
    OBVIOUS
  <2>4. g = [n \in 0..(k + 1) |-> IF n = 0 THEN x0 ELSE KeepFirst(g[n - 1], tagged[n])]
    <3>1. \A n \in 0..(k + 1) : n # 0 => g[n - 1] = f[n - 1]
        BY <2>2, <2>3
    <3>2. g = [n \in 0..(k + 1) |-> IF n = 0 THEN x0 ELSE KeepFirst(f[n - 1], tagged[n])]
        OBVIOUS
    <3> HIDE DEF g
    <3> QED
        BY <3>1, <3>2
  <2>5. \E h : To(k + 1, h)
    <3>1. To(k + 1, g)
        BY <2>4
    <3> HIDE DEF g, To
    <3> QED
        BY <3>1
  <2> QED
    BY <2>5
<1>3. \E f : KeepRun(tagged, f)
  <2>1. Nat \subseteq G
    <3> HIDE DEF G
    <3> QED
        BY <1>1, <1>2, Counting
  <2>2. \E f : To(N, f)
    BY <2>1
  <2> QED
    BY <2>2 DEF KeepRun
<1> DEFINE Run(f) == KeepRun(tagged, f)
           chosen == CHOOSE f : Run(f)
<1>4. Run(chosen)
  <2> HIDE DEF Run
  <2>1. \E f : Run(f)
    BY <1>3 DEF Run
  <2> QED
    BY <2>1
<1>5. Deduplicated(tagged) = chosen[N]
    BY DEF Deduplicated, KeepRun
<1> QED
    BY <1>4, <1>5


PruneRun(journal, height, f) ==
    f = [n \in 0..Len(journal) |-> IF n = 0 THEN <<>> ELSE KeepRecent(f[n - 1], journal[n], height - PruningWindow)]

LEMMA PruneRuns ==
    ASSUME NEW journal, NEW height, Len(journal) \in Nat
    PROVE  \E f : PruneRun(journal, height, f) /\ Pruned(journal, height) = f[Len(journal)]
<1> DEFINE N == Len(journal)
           x0 == <<>>
           To(k, f) == f = [n \in 0..k |-> IF n = 0 THEN x0 ELSE KeepRecent(f[n - 1], journal[n], height - PruningWindow)]
           G == {k \in Nat : \E f : To(k, f)}
<1>1. 0 \in G
  <2> DEFINE g == [n \in 0..0 |-> x0]
  <2>1. g = [n \in 0..0 |-> IF n = 0 THEN x0 ELSE KeepRecent(g[n - 1], journal[n], height - PruningWindow)]
    OBVIOUS
  <2> QED
    BY <2>1
<1>2. ASSUME NEW k \in Nat, k \in G PROVE k + 1 \in G
  <2>1. PICK f : To(k, f)
    BY <1>2
  <2> DEFINE g == [n \in 0..(k + 1) |-> IF n = 0 THEN x0 ELSE KeepRecent(f[n - 1], journal[n], height - PruningWindow)]
  <2>2. \A n \in 0..k : g[n] = f[n]
    BY <2>1
  <2>3. \A n \in 0..(k + 1) : n # 0 => n - 1 \in 0..k
    OBVIOUS
  <2>4. g = [n \in 0..(k + 1) |-> IF n = 0 THEN x0 ELSE KeepRecent(g[n - 1], journal[n], height - PruningWindow)]
    <3>1. \A n \in 0..(k + 1) : n # 0 => g[n - 1] = f[n - 1]
        BY <2>2, <2>3
    <3>2. g = [n \in 0..(k + 1) |-> IF n = 0 THEN x0 ELSE KeepRecent(f[n - 1], journal[n], height - PruningWindow)]
        OBVIOUS
    <3> HIDE DEF g
    <3> QED
        BY <3>1, <3>2
  <2>5. \E h : To(k + 1, h)
    <3>1. To(k + 1, g)
        BY <2>4
    <3> HIDE DEF g, To
    <3> QED
        BY <3>1
  <2> QED
    BY <2>5
<1>3. \E f : PruneRun(journal, height, f)
  <2>1. Nat \subseteq G
    <3> HIDE DEF G
    <3> QED
        BY <1>1, <1>2, Counting
  <2>2. \E f : To(N, f)
    BY <2>1
  <2> QED
    BY <2>2 DEF PruneRun
<1> DEFINE Run(f) == PruneRun(journal, height, f)
           chosen == CHOOSE f : Run(f)
<1>4. Run(chosen)
  <2> HIDE DEF Run
  <2>1. \E f : Run(f)
    BY <1>3 DEF Run
  <2> QED
    BY <2>1
<1>5. Pruned(journal, height) = chosen[N]
    BY DEF Pruned, PruneRun
<1> QED
    BY <1>4, <1>5


WalkRun(dt, a, b, steps, f) ==
    f = [n \in 0..steps |-> IF n = 0 THEN FirstCursors(a, b) ELSE WalkStep(dt, f[n - 1])]

LEMMA WalkRuns ==
    ASSUME NEW dt, NEW a, NEW b, NEW steps \in Nat
    PROVE  \E f : WalkRun(dt, a, b, steps, f) /\ Walk(dt, a, b, steps) = f[steps]
<1> DEFINE N == steps
           x0 == FirstCursors(a, b)
           To(k, f) == f = [n \in 0..k |-> IF n = 0 THEN x0 ELSE WalkStep(dt, f[n - 1])]
           G == {k \in Nat : \E f : To(k, f)}
<1>1. 0 \in G
  <2> DEFINE g == [n \in 0..0 |-> x0]
  <2>1. g = [n \in 0..0 |-> IF n = 0 THEN x0 ELSE WalkStep(dt, g[n - 1])]
    OBVIOUS
  <2> QED
    BY <2>1
<1>2. ASSUME NEW k \in Nat, k \in G PROVE k + 1 \in G
  <2>1. PICK f : To(k, f)
    BY <1>2
  <2> DEFINE g == [n \in 0..(k + 1) |-> IF n = 0 THEN x0 ELSE WalkStep(dt, f[n - 1])]
  <2>2. \A n \in 0..k : g[n] = f[n]
    BY <2>1
  <2>3. \A n \in 0..(k + 1) : n # 0 => n - 1 \in 0..k
    OBVIOUS
  <2>4. g = [n \in 0..(k + 1) |-> IF n = 0 THEN x0 ELSE WalkStep(dt, g[n - 1])]
    <3>1. \A n \in 0..(k + 1) : n # 0 => g[n - 1] = f[n - 1]
        BY <2>2, <2>3
    <3>2. g = [n \in 0..(k + 1) |-> IF n = 0 THEN x0 ELSE WalkStep(dt, f[n - 1])]
        OBVIOUS
    <3> HIDE DEF g
    <3> QED
        BY <3>1, <3>2
  <2>5. \E h : To(k + 1, h)
    <3>1. To(k + 1, g)
        BY <2>4
    <3> HIDE DEF g, To
    <3> QED
        BY <3>1
  <2> QED
    BY <2>5
<1>3. \E f : WalkRun(dt, a, b, steps, f)
  <2>1. Nat \subseteq G
    <3> HIDE DEF G
    <3> QED
        BY <1>1, <1>2, Counting
  <2>2. \E f : To(N, f)
    BY <2>1
  <2> QED
    BY <2>2 DEF WalkRun
<1> DEFINE Run(f) == WalkRun(dt, a, b, steps, f)
           chosen == CHOOSE f : Run(f)
<1>4. Run(chosen)
  <2> HIDE DEF Run
  <2>1. \E f : Run(f)
    BY <1>3 DEF Run
  <2> QED
    BY <2>1
<1>5. Walk(dt, a, b, steps) = chosen[N]
    BY DEF Walk, WalkRun
<1> QED
    BY <1>4, <1>5

-----------------------------------------------------------------------------
(* The undo record of a block executed from state `old`: it has the value  *)
(* of every account noted, and the others are untouched.                   *)
Undoes(old, block) ==
    LET undo == block.undo
    IN  /\ DOMAIN undo.prior = undo.noted \cap DOMAIN old
        /\ \A a \in DOMAIN undo.prior : undo.prior[a] = old[a]
        /\ DOMAIN block.state \ undo.noted = DOMAIN old \ undo.noted
        /\ \A a \in DOMAIN block.state \ undo.noted : block.state[a] = old[a]
        /\ IsMap(block.state)

LEMMA OneUndoes ==
    ASSUME NEW old, NEW block, NEW t, Undoes(old, block)
    PROVE  Undoes(old, ExecuteOne(block, t))
<1> DEFINE state == block.state
           undo == block.undo
           touched == Touched(t.tx, t.miner)
           after == Transact(state, t.tx, t.miner)
           noted == Note(undo, touched, state)
           new == ExecuteOne(block, t)
           Runs == block.gasUsed + t.tx.gas <= GasLimit /\ Executable(block.state, t.tx)
<1>1. CASE ~ Runs
  <2>1. new = block
    BY <1>1 DEF ExecuteOne
  <2> QED
    BY <2>1
<1>2. CASE Runs
  <2>1. new.state = after /\ new.undo = noted
    BY <1>2 DEF ExecuteOne
  <2>2. /\ DOMAIN after = DOMAIN state \cup touched
        /\ \A a \in DOMAIN state \ touched : after[a] = state[a]
        /\ IsMap(after)
    <3> DEFINE paid == Debited(state, t.tx.sender, t.tx.value + Fee)
               moved == Credited(paid, t.tx.to, t.tx.value)
    <3>1. /\ DOMAIN paid = DOMAIN state \cup {t.tx.sender}
          /\ \A a \in DOMAIN state \ {t.tx.sender} : paid[a] = state[a]
        BY DEF Debited, Extend
    <3>2. after = Credited(moved, t.miner, Fee)
        BY Zenon DEF Transact
    <3> HIDE DEF paid
    <3>3. /\ DOMAIN moved = DOMAIN paid \cup {t.tx.to}
          /\ \A a \in DOMAIN paid \ {t.tx.to} : moved[a] = paid[a]
        BY DEF Credited, Extend
    <3> HIDE DEF moved, after, state
    <3>4. /\ DOMAIN after = DOMAIN moved \cup {t.miner}
          /\ \A a \in DOMAIN moved \ {t.miner} : after[a] = moved[a]
          /\ IsMap(after)
        BY <3>2 DEF Credited, Extend, IsMap
    <3>5. touched = {t.tx.sender, t.tx.to, t.miner}
        BY DEF Touched
    <3> HIDE DEF touched
    <3> QED
        BY <3>1, <3>3, <3>4, <3>5
  <2>3. /\ noted.noted = undo.noted \cup touched
        /\ DOMAIN noted.prior = DOMAIN undo.prior \cup ((touched \ undo.noted) \cap DOMAIN state)
        /\ \A a \in DOMAIN undo.prior : noted.prior[a] = undo.prior[a]
        /\ \A a \in DOMAIN noted.prior \ DOMAIN undo.prior : noted.prior[a] = state[a]
    BY DEF Note, Over, Restrict
  <2> HIDE DEF state, undo, touched, after, noted, new
  <2>4. /\ DOMAIN undo.prior = undo.noted \cap DOMAIN old
        /\ \A a \in DOMAIN undo.prior : undo.prior[a] = old[a]
        /\ DOMAIN state \ undo.noted = DOMAIN old \ undo.noted
        /\ \A a \in DOMAIN state \ undo.noted : state[a] = old[a]
    BY DEF Undoes, state, undo
  <2>5. DOMAIN noted.prior = noted.noted \cap DOMAIN old
    BY <2>3, <2>4
  <2>6. \A a \in DOMAIN noted.prior : noted.prior[a] = old[a]
    BY <2>3, <2>4
  <2>7. DOMAIN after \ noted.noted = DOMAIN old \ noted.noted
    BY <2>2, <2>3, <2>4
  <2>8. \A a \in DOMAIN after \ noted.noted : after[a] = old[a]
    BY <2>2, <2>3, <2>4
  <2>9. Undoes(old, new)
    BY <2>1, <2>2, <2>5, <2>6, <2>7, <2>8 DEF Undoes
  <2> QED
    BY <2>9 DEF new
<1> QED
    BY <1>1, <1>2

LEMMA BlockIsUndoable ==
    ASSUME NEW tagged, NEW order, Len(order) \in Nat, NEW old, IsMap(old)
    PROVE  Undoes(old, ExecuteSequentially(tagged, order, old))
<1>1. PICK f : /\ BlockRun(tagged, order, old, f)
               /\ ExecuteSequentially(tagged, order, old) = f[Len(order)]
    BY BlockRuns
<1> DEFINE N == Len(order)
           G == {n \in Nat : n <= N => Undoes(old, f[n])}
<1>2. 0 \in G
  <2>1. f[0] = FirstBlock(old)
    BY <1>1 DEF BlockRun
  <2>2. Undoes(old, FirstBlock(old))
    BY DEF Undoes, FirstBlock, NoUndo
  <2> QED
    BY <2>1, <2>2
<1>3. ASSUME NEW n \in Nat, n \in G PROVE n + 1 \in G
  <2> SUFFICES ASSUME n + 1 <= N PROVE Undoes(old, f[n + 1])
    OBVIOUS
  <2>1. n + 1 \in 0..N /\ n + 1 # 0 /\ (n + 1) - 1 = n /\ n <= N
    OBVIOUS
  <2>2. f[n + 1] = ExecuteOne(f[n], tagged[order[n + 1]])
    BY <1>1, <2>1 DEF BlockRun
  <2>3. Undoes(old, f[n])
    BY <1>3, <2>1
  <2> QED
    BY <2>2, <2>3, OneUndoes
<1>4. Nat \subseteq G
  <2> HIDE DEF G
  <2> QED
    BY <1>2, <1>3, Counting
<1>5. Undoes(old, f[N])
    BY <1>4
<1> QED
    BY <1>1, <1>5

LEMMA UndoRestores ==
    ASSUME NEW old, IsMap(old), NEW block, Undoes(old, block)
    PROVE  Restored(block.state, block.undo) = old
<1> DEFINE undo == block.undo
           state == block.state
           back == Restored(state, undo)
<1>1. /\ DOMAIN undo.prior = undo.noted \cap DOMAIN old
      /\ \A a \in DOMAIN undo.prior : undo.prior[a] = old[a]
      /\ DOMAIN state \ undo.noted = DOMAIN old \ undo.noted
      /\ \A a \in DOMAIN state \ undo.noted : state[a] = old[a]
    BY DEF Undoes
<1>2. /\ back = [x \in DOMAIN back |-> back[x]]
      /\ DOMAIN back = DOMAIN undo.prior \cup (DOMAIN state \ undo.noted)
      /\ \A a \in DOMAIN undo.prior : back[a] = undo.prior[a]
      /\ \A a \in (DOMAIN state \ undo.noted) \ DOMAIN undo.prior : back[a] = state[a]
    BY DEF Restored, Over, Restrict
<1> HIDE DEF undo, state, back
<1>3. DOMAIN back = DOMAIN old
    BY <1>1, <1>2
<1>4. \A a \in DOMAIN old : back[a] = old[a]
    BY <1>1, <1>2, <1>3
<1>5. back = old
    BY <1>2, <1>3, <1>4 DEF IsMap
<1> QED
    BY <1>5 DEF back, state, undo


-----------------------------------------------------------------------------
(* The transactions of a chain block are finitely many. *)
Item == [miner : Account, tx : Tx]

Bodied(hs, bs) ==
    /\ DOMAIN hs \subseteq Hash
    /\ \A b \in DOMAIN hs : bs[b] \in Seq(Tx)

(* The transactions of the bodies, and the items made of them. *)
Carried(hs, bs) == UNION {ToSet(bs[x]) : x \in DOMAIN hs}

CarriedItem(hs, bs) == {t \in Item : t.tx \in Carried(hs, bs)}

LEMMA TaggedIsCarried ==
    ASSUME NEW hs, NEW dt, Dag(hs, dt), NEW bs, Bodied(hs, bs), NEW b \in DOMAIN hs
    PROVE  Tagged(dt, bs, b) \in Seq(CarriedItem(hs, bs))
<1> DEFINE base == Append(dt[b].mergeset_ordered, b)
           row(x) == [j \in 1..Len(bs[x]) |-> [miner |-> Miner[x], tx |-> bs[x][j]]]
           rows == [i \in 1..Len(base) |-> row(base[i])]
<1>1. base \in Seq(DOMAIN hs)
    BY BaseIsTyped DEF Base
<1>2. Len(base) \in Nat /\ Len(base) > 0 /\ \A i \in 1..Len(base) : base[i] \in DOMAIN hs
  <2>1. Len(base) \in Nat /\ \A i \in 1..Len(base) : base[i] \in DOMAIN hs
    <3> HIDE DEF base
    <3> QED
        BY <1>1
  <2>2. Len(base) > 0
    <3>1. CASE b = Genesis
      <4>1. dt[b].mergeset_ordered = <<>>
          BY <3>1 DEF Dag, Rooted
      <4> QED
          BY <4>1
    <3>2. CASE b # Genesis
      <4> DEFINE s == dt[b].mergeset_ordered
                 M == Members(hs, dt, b)
      <4>1. s \in Seq(M)
          BY <3>2 DEF Dag, AllJudged, Judged, Merged, Members
      <4>2. base = Append(s, b)
          OBVIOUS
      <4> HIDE DEF s, M, base
      <4>3. Len(Append(s, b)) = Len(s) + 1 /\ Len(s) \in Nat
          BY <4>1
      <4> QED
          BY <4>2, <4>3
    <3> QED
        BY <3>1, <3>2
  <2> QED
    BY <2>1, <2>2
<1> DEFINE C == CarriedItem(hs, bs)
<1>3. \A x \in DOMAIN hs : row(x) \in Seq(C)
  <2> TAKE x \in DOMAIN hs
  <2>1. Miner[x] \in Account
    BY ExecutorAssumption DEF Bodied
  <2>2. bs[x] \in Seq(Tx)
    BY DEF Bodied
  <2>3. \A j \in 1..Len(bs[x]) : [miner |-> Miner[x], tx |-> bs[x][j]] \in C
    <3> TAKE j \in 1..Len(bs[x])
    <3>1. bs[x][j] \in Tx /\ bs[x][j] \in ToSet(bs[x])
        BY <2>2 DEF ToSet
    <3>2. bs[x][j] \in Carried(hs, bs)
        BY <3>1 DEF Carried
    <3> QED
        BY <2>1, <3>1, <3>2 DEF Item, CarriedItem
  <2>4. Len(bs[x]) \in Nat
    BY <2>2
  <2> HIDE DEF C
  <2> QED
    BY <2>3, <2>4
<1>4. Tagged(dt, bs, b) = FlattenSeq(rows)
    BY DEF Tagged
<1> HIDE DEF base, row, C
<1>5. rows \in Seq(Seq(C)) /\ Len(rows) > 0
    BY <1>2, <1>3
<1> HIDE DEF rows
<1>6. PICK f : Joins(f, rows, C) /\ FlattenSeq(rows) = f[Len(rows)]
    BY <1>5, FlattenJoins
<1>7. f[Len(rows)] \in Seq(C)
  <2>1. Len(rows) \in 1..Len(rows)
    BY <1>5
  <2>2. f \in [1..Len(rows) -> Seq(C)]
    BY <1>6 DEF Joins
  <2> QED
    BY <2>1, <2>2
<1> QED
    BY <1>4, <1>6, <1>7 DEF C

LEMMA TaggedIsTyped ==
    ASSUME NEW hs, NEW dt, Dag(hs, dt), NEW bs, Bodied(hs, bs), NEW b \in DOMAIN hs
    PROVE  Tagged(dt, bs, b) \in Seq(Item)
<1>1. Tagged(dt, bs, b) \in Seq(CarriedItem(hs, bs))
    BY TaggedIsCarried
<1>2. CarriedItem(hs, bs) \subseteq Item
    BY DEF CarriedItem
<1> QED
    BY <1>1, <1>2

LEMMA DeduplicatedIsTyped ==
    ASSUME NEW U, NEW tagged \in Seq(U)
    PROVE  Deduplicated(tagged) \in Seq(U)
<1> DEFINE N == Len(tagged)
<1>1. N \in Nat
    OBVIOUS
<1>2. PICK f : KeepRun(tagged, f) /\ Deduplicated(tagged) = f[N]
    BY <1>1, KeepRuns
<1> DEFINE G == {n \in Nat : n <= N => f[n] \in Seq(U)}
<1>3. 0 \in G
  <2>1. f[0] = <<>>
    BY <1>1, <1>2 DEF KeepRun
  <2>2. <<>> \in Seq(U)
    OBVIOUS
  <2> QED
    BY <2>1, <2>2
<1>4. ASSUME NEW n \in Nat, n \in G PROVE n + 1 \in G
  <2> SUFFICES ASSUME n + 1 <= N PROVE f[n + 1] \in Seq(U)
    OBVIOUS
  <2>1. n + 1 \in 0..N /\ n + 1 # 0 /\ (n + 1) - 1 = n /\ n <= N /\ n + 1 \in 1..N
    BY <1>1
  <2>2. f[n + 1] = KeepFirst(f[n], tagged[n + 1])
    BY <1>2, <2>1 DEF KeepRun
  <2>3. f[n] \in Seq(U) /\ tagged[n + 1] \in U
    BY <1>4, <2>1
  <2> QED
    BY <2>2, <2>3 DEF KeepFirst
<1>5. Nat \subseteq G
  <2> HIDE DEF G
  <2> QED
    BY <1>3, <1>4, Counting
<1>6. f[N] \in Seq(U)
    BY <1>1, <1>5
<1> QED
    BY <1>2, <1>6

(* The rounds are numbers: each is decided by those of earlier places.     *)
RoundOf(tagged, round, n) ==
    Max({0} \cup {round[k] + 1 :
            k \in {k \in 1..(n - 1) : AccessOf(tagged[k]) \cap AccessOf(tagged[n]) # {}}})

RoundRun(tagged, f) == f = [n \in DOMAIN tagged |-> RoundOf(tagged, f, n)]

LEMMA RoundsRun ==
    ASSUME NEW U, NEW tagged \in Seq(U)
    PROVE  RoundRun(tagged, Rounds(tagged))
<1> DEFINE N == Len(tagged)
           To(k, f) == IsMap(f) /\ DOMAIN f = 1..N
                       /\ \A n \in 1..N : n <= k => f[n] = RoundOf(tagged, f, n)
           G == {k \in Nat : \E f : To(k, f)}
<1>1. N \in Nat /\ DOMAIN tagged = 1..N
    OBVIOUS
<1> HIDE DEF N
<1>2. 0 \in G
  <2> DEFINE g == [n \in 1..N |-> 0]
  <2>1. To(0, g)
    BY <1>1 DEF IsMap
  <2> QED
    BY <2>1
<1>3. ASSUME NEW k \in Nat, k \in G PROVE k + 1 \in G
  <2>1. PICK f : To(k, f)
    BY <1>3
  <2> DEFINE g == [n \in 1..N |-> RoundOf(tagged, f, n)]
  <2>2. IsMap(g) /\ DOMAIN g = 1..N /\ \A n \in 1..N : g[n] = RoundOf(tagged, f, n)
    BY DEF IsMap
  <2> HIDE DEF g
  <2>3. \A n \in 1..N : n <= k => g[n] = f[n]
    BY <2>1, <2>2
  <2>4. ASSUME NEW n \in 1..N, n <= k + 1 PROVE RoundOf(tagged, g, n) = RoundOf(tagged, f, n)
    <3> DEFINE E == {j \in 1..(n - 1) : AccessOf(tagged[j]) \cap AccessOf(tagged[n]) # {}}
    <3>1. \A j \in E : j \in 1..N /\ j <= k
        BY <1>1, <2>4
    <3> HIDE DEF E
    <3>2. \A j \in E : g[j] + 1 = f[j] + 1
        BY <2>3, <3>1
    <3>3. {g[j] + 1 : j \in E} = {f[j] + 1 : j \in E}
        BY <3>2
    <3> QED
        BY <3>3 DEF RoundOf, E
  <2>5. To(k + 1, g)
    BY <2>2, <2>4
  <2> HIDE DEF To
  <2> QED
    BY <2>5
<1>4. \E f : RoundRun(tagged, f)
  <2>1. Nat \subseteq G
    <3> HIDE DEF G
    <3> QED
        BY <1>2, <1>3, Counting
  <2>2. PICK f : To(N, f)
    BY <1>1, <2>1
  <2>3. \A n \in 1..N : f[n] = RoundOf(tagged, f, n)
    BY <1>1, <2>2
  <2> QED
    BY <1>1, <2>2, <2>3 DEF RoundRun, IsMap
<1> DEFINE Run(f) == RoundRun(tagged, f)
           chosen == CHOOSE f : Run(f)
<1>5. Run(chosen)
  <2> HIDE DEF Run
  <2>1. \E f : Run(f)
    BY <1>4 DEF Run
  <2> QED
    BY <2>1
<1>6. Rounds(tagged) = chosen
    BY DEF Rounds, RoundRun, RoundOf
<1> QED
    BY <1>5, <1>6

LEMMA RoundsAreNumbers ==
    ASSUME NEW U, NEW tagged \in Seq(U)
    PROVE  \A n \in 1..Len(tagged) : Rounds(tagged)[n] \in Nat
<1> DEFINE N == Len(tagged)
           round == Rounds(tagged)
           G == {k \in Nat : \A n \in 1..N : n <= k => round[n] \in Nat}
<1>1. N \in Nat /\ DOMAIN tagged = 1..N
    OBVIOUS
<1>2. \A n \in 1..N : round[n] = RoundOf(tagged, round, n)
    BY <1>1, RoundsRun DEF RoundRun
<1> HIDE DEF N, round
<1>3. 0 \in G
    BY <1>1
<1>4. ASSUME NEW k \in Nat, k \in G PROVE k + 1 \in G
  <2> SUFFICES ASSUME NEW n \in 1..N, n <= k + 1 PROVE round[n] \in Nat
    OBVIOUS
  <2> DEFINE E == {j \in 1..(n - 1) : AccessOf(tagged[j]) \cap AccessOf(tagged[n]) # {}}
             next == [j \in E |-> round[j] + 1]
             S == {0} \cup {next[j] : j \in E}
  <2>1. \A j \in E : round[j] \in Nat
    BY <1>1, <1>4
  <2>2. IsFiniteSet(E)
    <3>1. IsFiniteSet(1..(n - 1)) /\ E \subseteq 1..(n - 1)
        BY <1>1, FS_Interval
    <3> HIDE DEF E
    <3> QED
        BY <3>1, FS_Subset
  <2> HIDE DEF E
  <2>3. \A j \in E : next[j] \in Nat
    BY <2>1
  <2>4. IsFiniteSet(S) /\ S \subseteq Nat /\ S # {}
    <3>1. IsFiniteSet({next[j] : j \in E})
        <4> HIDE DEF next
        <4> QED
            BY <2>2, ImageIsFinite
    <3> DEFINE T == {next[j] : j \in E}
    <3>2. T \subseteq Nat
        BY <2>3
    <3> HIDE DEF T, next
    <3>3. IsFiniteSet({0} \cup T)
        BY <3>1, FS_Singleton, FS_Union DEF T
    <3> QED
        BY <3>2, <3>3 DEF T
  <2>5. round[n] = Max(S)
    BY <1>2 DEF RoundOf, E
  <2> HIDE DEF S
  <2> QED
    BY <2>4, <2>5, HighestExists
<1>5. Nat \subseteq G
  <2> HIDE DEF G
  <2> QED
    BY <1>3, <1>4, Counting
<1> QED
    BY <1>1, <1>5 DEF N, round

(* layer_and_sort is a permutation: by round, and within a round by place, *)
(* is a strict order, and it puts every transaction in one place.          *)
LEMMA OrderIsPermutation ==
    ASSUME NEW U, NEW tagged \in Seq(U)
    PROVE  /\ LayerAndSort(tagged) \in Seq(1..Len(tagged))
           /\ Lists(LayerAndSort(tagged), 1..Len(tagged))
           /\ Len(LayerAndSort(tagged)) = Len(tagged)
<1> DEFINE N == Len(tagged)
           S == 1..N
           round == Rounds(tagged)
           R == {e \in S \X S : round[e[1]] < round[e[2]]
                                 \/ (round[e[1]] = round[e[2]] /\ e[1] < e[2])}
           order == LayerAndSort(tagged)
<1>1. N \in Nat /\ DOMAIN tagged = S
    OBVIOUS
<1>2. \A n \in S : round[n] \in Nat
    BY RoundsAreNumbers
<1>3. IsFiniteSet(S) /\ Cardinality(S) = N /\ S = 1..Cardinality(S)
    BY <1>1, FS_Interval
<1>4. \A a, b \in S : <<a, b>> \in R <=> round[a] < round[b] \/ (round[a] = round[b] /\ a < b)
    BY SMTT(30)
<1>5. \A a \in S : a \in Nat
    BY <1>1
<1>6. order = ByRank(R, S)
  <2> DEFINE Count(b) == Cardinality({a \in S : <<a, b>> \in R})
             Before(b) == Cardinality({i \in S : round[i] < round[b] \/ (round[i] = round[b] /\ i < b)})
  <2>1. \A b \in S : Before(b) = Count(b)
    <3>1. \A b \in S : {i \in S : round[i] < round[b] \/ (round[i] = round[b] /\ i < b)}
                        = {a \in S : <<a, b>> \in R}
        <4> HIDE DEF R, S, round
        <4> QED
            BY <1>4
    <3> QED
        BY <3>1
  <2>2. order = [i \in S |-> CHOOSE j \in S : Before(j) = i - 1]
    <3> DEFINE Sorted(D) ==
                   [n \in 1..N |-> CHOOSE j \in D :
                       Cardinality({i \in D : round[i] < round[j] \/ (round[i] = round[j] /\ i < j)}) = n - 1]
    <3>1. order = Sorted(DOMAIN tagged)
        BY Zenon DEF LayerAndSort
    <3>2. Sorted(S) = [i \in S |-> CHOOSE j \in S : Before(j) = i - 1]
        OBVIOUS
    <3>3. DOMAIN tagged = S
        BY <1>1
    <3> HIDE DEF Sorted, order, Before, S
    <3> QED
        BY <3>1, <3>2, <3>3
  <2> HIDE DEF Count, Before, order, R, S
  <2>3. \A i : (CHOOSE b \in S : Before(b) = i - 1) = (CHOOSE b \in S : Count(b) = i - 1)
    BY <2>1
  <2>4. order = [i \in S |-> CHOOSE b \in S : Count(b) = i - 1]
    BY <2>2, <2>3
  <2> QED
    BY <1>3, <2>4 DEF Count, ByRank
<1> HIDE DEF R, S, N, round, order
<1>7. StrictOrder(R, S)
  <2>1. /\ \A a \in S : <<a, a>> \notin R
        /\ \A a, b \in S : a # b => <<a, b>> \in R \/ <<b, a>> \in R
    BY <1>2, <1>4, <1>5
  <2>2. ASSUME NEW a \in S, NEW b \in S, NEW c \in S, <<a, b>> \in R, <<b, c>> \in R
        PROVE  <<a, c>> \in R
    <3>1. /\ round[a] < round[b] \/ (round[a] = round[b] /\ a < b)
          /\ round[b] < round[c] \/ (round[b] = round[c] /\ b < c)
        BY <1>4, <2>2
    <3>2. round[a] < round[c] \/ (round[a] = round[c] /\ a < c)
        BY <1>2, <1>5, <3>1
    <3> QED
        BY <1>4, <3>2
  <2> QED
    BY <2>1, <2>2 DEF StrictOrder
<1>8. order \in Seq(S) /\ Lists(order, S)
    BY <1>3, <1>6, <1>7, RanksList
<1> QED
    BY <1>3, <1>8 DEF Lists, S, N, order

(* What is executed is taken from the list. *)
LEMMA ExecutedIsListed ==
    ASSUME NEW C, NEW tagged \in Seq(C), NEW order \in Seq(1..Len(tagged)), NEW state,
           NEW T, \A t \in C : t.tx \in T
    PROVE  ExecuteSequentially(tagged, order, state).executed \in Seq(T)
<1> DEFINE N == Len(order)
<1>1. N \in Nat
    OBVIOUS
<1>2. PICK f : BlockRun(tagged, order, state, f) /\ ExecuteSequentially(tagged, order, state) = f[N]
    BY <1>1, BlockRuns
<1> DEFINE G == {n \in Nat : n <= N => f[n].executed \in Seq(T)}
<1>3. 0 \in G
  <2>1. f[0] = FirstBlock(state)
    BY <1>1, <1>2 DEF BlockRun
  <2>2. f[0].executed = <<>>
    BY <2>1 DEF FirstBlock
  <2>3. <<>> \in Seq(T)
    OBVIOUS
  <2> QED
    BY <2>2, <2>3
<1>4. ASSUME NEW n \in Nat, n \in G PROVE n + 1 \in G
  <2> SUFFICES ASSUME n + 1 <= N PROVE f[n + 1].executed \in Seq(T)
    OBVIOUS
  <2> DEFINE t == tagged[order[n + 1]]
             e == f[n].executed
  <2>1. n + 1 \in 0..N /\ n + 1 # 0 /\ (n + 1) - 1 = n /\ n <= N /\ n + 1 \in 1..N
    BY <1>1
  <2>2. f[n + 1] = ExecuteOne(f[n], t)
    BY <1>2, <2>1 DEF BlockRun
  <2>3. t.tx \in T
    <3>1. order[n + 1] \in 1..Len(tagged)
        BY <2>1
    <3>2. t \in C
        BY <3>1
    <3> HIDE DEF t
    <3> QED
        BY <3>2
  <2>4. e \in Seq(T)
    BY <1>4, <2>1
  <2> HIDE DEF t
  <2>5. f[n + 1].executed = Append(e, t.tx) \/ f[n + 1].executed = e
    BY <2>2 DEF ExecuteOne
  <2> HIDE DEF e
  <2>6. Append(e, t.tx) \in Seq(T)
    BY <2>3, <2>4, AppendProperties
  <2> QED
    BY <2>4, <2>5, <2>6
<1>5. Nat \subseteq G
  <2> HIDE DEF G
  <2> QED
    BY <1>3, <1>4, Counting
<1>6. f[N].executed \in Seq(T)
    BY <1>1, <1>5
<1> QED
    BY <1>2, <1>6

(* What a block executes was carried by blocks of the store. *)
LEMMA ExecutedIsCarried ==
    ASSUME NEW hs, NEW dt, Dag(hs, dt), NEW bs, Bodied(hs, bs), NEW b \in DOMAIN hs, NEW state
    PROVE  LET tagged == Deduplicated(Tagged(dt, bs, b))
           IN  ExecuteSequentially(tagged, LayerAndSort(tagged), state).executed \in Seq(Carried(hs, bs))
<1> DEFINE tagged == Deduplicated(Tagged(dt, bs, b))
           order == LayerAndSort(tagged)
<1>1. tagged \in Seq(CarriedItem(hs, bs))
    BY TaggedIsCarried, DeduplicatedIsTyped
<1> HIDE DEF tagged
<1>2. order \in Seq(1..Len(tagged))
    BY <1>1, OrderIsPermutation
<1>3. \A t \in CarriedItem(hs, bs) : t.tx \in Carried(hs, bs)
    BY DEF CarriedItem
<1> HIDE DEF order
<1>4. ExecuteSequentially(tagged, order, state).executed \in Seq(Carried(hs, bs))
    BY <1>1, <1>2, <1>3, ExecutedIsListed
<1> QED
    BY <1>4 DEF order, tagged

LEMMA OrderHasLength ==
    ASSUME NEW U, NEW tagged \in Seq(U)
    PROVE  Len(LayerAndSort(tagged)) \in Nat
BY OrderIsPermutation

-----------------------------------------------------------------------------
(* The replay of every block's selected chain, all of them at once.        *)
ReplayStep(dt, bs, R, c) ==
    IF c = Genesis THEN GenesisExecutor
    ELSE ExecuteChainBlock(dt, bs, R[dt[c].selected_parent], c)

Replays(hs, dt, bs, R) == R = [c \in DOMAIN hs |-> ReplayStep(dt, bs, R, c)]

ReplayOf(hs, dt, bs) == CHOOSE R : Replays(hs, dt, bs, R)

(* Block by block, in the order of their heights. *)
LEMMA ReplayRecursion ==
    ASSUME NEW hs, NEW dt, Dag(hs, dt), NEW bs
    PROVE  Replays(hs, dt, bs, ReplayOf(hs, dt, bs))
<1> DEFINE D == DOMAIN hs
           h(c) == dt[c].topological_height
           Upto(f, n) == IsMap(f) /\ DOMAIN f = D /\ \A c \in D : h(c) < n => f[c] = ReplayStep(dt, bs, f, c)
           Reached == {n \in Nat : \E f : Upto(f, n)}
<1>1. /\ \A c \in D : h(c) \in Nat
      /\ \A c \in D \ {Genesis} : dt[c].selected_parent \in D /\ h(dt[c].selected_parent) < h(c)
      /\ IsFiniteSet(D) /\ D # {}
  <2>1. \A c \in D : h(c) \in Nat
    BY DEF Dag, WellFormed, Layered
  <2>2. IsFiniteSet(D) /\ D # {}
    BY DEF Dag, WellFormed, Worked, Rooted
  <2>3. \A c \in D \ {Genesis} : dt[c].selected_parent \in D /\ h(dt[c].selected_parent) < h(c)
    BY PastSplits DEF StepsFrom
  <2> QED
    BY <2>1, <2>2, <2>3
<1> HIDE DEF D, h
<1>2. 0 \in Reached
  <2> DEFINE f == [c \in D |-> 0]
  <2>1. Upto(f, 0)
    BY <1>1 DEF IsMap
  <2> QED
    BY <2>1
<1>3. ASSUME NEW n \in Nat, n \in Reached PROVE n + 1 \in Reached
  <2>1. PICK f : Upto(f, n)
    BY <1>3
  <2> DEFINE g == [c \in D |-> ReplayStep(dt, bs, f, c)]
  <2>2. IsMap(g) /\ DOMAIN g = D /\ \A c \in D : g[c] = ReplayStep(dt, bs, f, c)
    BY DEF IsMap
  <2> HIDE DEF g
  <2>3. ASSUME NEW c \in D, h(c) < n + 1 PROVE g[c] = ReplayStep(dt, bs, g, c)
    <3>1. CASE c = Genesis
        BY <2>2, <3>1 DEF ReplayStep
    <3>2. CASE c # Genesis
      <4>1. dt[c].selected_parent \in D /\ h(dt[c].selected_parent) < n
          BY <1>1, <2>3, <3>2
      <4>2. f[dt[c].selected_parent] = g[dt[c].selected_parent]
          BY <2>1, <2>2, <4>1
      <4> QED
          BY <2>2, <3>2, <4>2 DEF ReplayStep
    <3> QED
        BY <3>1, <3>2
  <2> QED
    BY <2>2, <2>3
<1>4. Nat \subseteq Reached
  <2> HIDE DEF Reached
  <2> QED
    BY <1>2, <1>3, Counting
<1>5. \E n \in Nat : \A c \in D : h(c) < n
  <2> DEFINE g == [c \in D |-> h(c)]
             H == {g[c] : c \in D}
             m == Max(H)
  <2>1. \A c \in D : g[c] = h(c) /\ g[c] \in Nat
    BY <1>1
  <2> HIDE DEF g
  <2>2. IsFiniteSet(H)
    BY <1>1, ImageIsFinite
  <2>3. H # {} /\ H \subseteq Nat /\ \A c \in D : g[c] \in H
    BY <1>1, <2>1
  <2> HIDE DEF H
  <2>4. m \in Nat /\ \A x \in H : x <= m
    BY <2>2, <2>3, HighestExists
  <2> HIDE DEF m
  <2>5. m + 1 \in Nat /\ \A c \in D : h(c) < m + 1
    BY <1>1, <2>1, <2>3, <2>4
  <2> QED
    BY <2>5
<1>6. PICK f : Replays(hs, dt, bs, f)
  <2>1. PICK n \in Nat : \A c \in D : h(c) < n
    BY <1>5
  <2>2. PICK f : Upto(f, n)
    BY <1>4
  <2>3. Replays(hs, dt, bs, f)
    BY <2>1, <2>2 DEF Replays, IsMap, D
  <2> QED
    BY <2>3
<1> QED
    BY <1>6 DEF ReplayOf

(* The parts of an executor a block's execution reads. *)
Same(x, y) == x.state = y.state /\ x.results = y.results /\ x.height = y.height

LEMMA ExecutesAlike ==
    ASSUME NEW dt, NEW bs, NEW x, NEW y, Same(x, y), NEW b
    PROVE  Same(ExecuteChainBlock(dt, bs, x, b), ExecuteChainBlock(dt, bs, y, b))
BY DEF Same, ExecuteChainBlock

-----------------------------------------------------------------------------
(* One block: its run, and what it makes of an executor.                   *)
Fit(x) ==
    /\ IsMap(x.state) /\ IsMap(x.results)
    /\ x.height \in Nat /\ DOMAIN x.results = 0..x.height

BlockOf(dt, bs, x, b) ==
    LET tagged == Deduplicated(Tagged(dt, bs, b))
    IN  ExecuteSequentially(tagged, LayerAndSort(tagged), x.state)

RecordOf(dt, bs, x, b) ==
    [height |-> x.height + 1, hash |-> b, undo |-> BlockOf(dt, bs, x, b).undo]

(* `y` is one block further than `x`: stepping back from its results is    *)
(* leaving out the last.                                                   *)
Above(x, y) ==
    /\ y.height = x.height + 1
    /\ x.results = [n \in DOMAIN y.results \ {y.height} |-> y.results[n]]

LEMMA BlockIsFit ==
    ASSUME NEW hs, NEW dt, Dag(hs, dt), NEW bs, Bodied(hs, bs), NEW b \in DOMAIN hs,
           NEW x, Fit(x)
    PROVE  Undoes(x.state, BlockOf(dt, bs, x, b))
<1> DEFINE tagged == Deduplicated(Tagged(dt, bs, b))
           order == LayerAndSort(tagged)
<1>1. tagged \in Seq(Item)
    BY TaggedIsTyped, DeduplicatedIsTyped
<1>2. Len(order) \in Nat
  <2> HIDE DEF tagged
  <2> QED
    BY <1>1, OrderHasLength
<1>3. BlockOf(dt, bs, x, b) = ExecuteSequentially(tagged, order, x.state)
    BY DEF BlockOf
<1> HIDE DEF tagged, order
<1> QED
    BY <1>2, <1>3, BlockIsUndoable DEF Fit

LEMMA ExecutedIs ==
    ASSUME NEW dt, NEW bs, NEW x, NEW b
    PROVE  LET y == ExecuteChainBlock(dt, bs, x, b)
           IN  /\ y.state = BlockOf(dt, bs, x, b).state
               /\ \E v : y.results = Extend(x.results, x.height + 1, v)
               /\ y.journal = Pruned(Append(x.journal, RecordOf(dt, bs, x, b)), x.height + 1)
               /\ y.height = x.height + 1
               /\ y.tip = b
BY DEF ExecuteChainBlock, BlockOf, RecordOf

LEMMA ExecutedIsFit ==
    ASSUME NEW hs, NEW dt, Dag(hs, dt), NEW bs, Bodied(hs, bs), NEW b \in DOMAIN hs,
           NEW x, Fit(x)
    PROVE  LET y == ExecuteChainBlock(dt, bs, x, b)
           IN  Fit(y) /\ Above(x, y) /\ Restored(y.state, BlockOf(dt, bs, x, b).undo) = x.state
<1> DEFINE y == ExecuteChainBlock(dt, bs, x, b)
           block == BlockOf(dt, bs, x, b)
<1>1. /\ y.state = block.state /\ y.height = x.height + 1
      /\ \E v : y.results = Extend(x.results, x.height + 1, v)
    BY ExecutedIs
<1>2. PICK v : y.results = Extend(x.results, x.height + 1, v)
    BY <1>1
<1>3. Undoes(x.state, block)
    BY BlockIsFit
<1> HIDE DEF y, block
<1>4. IsMap(y.state) /\ Restored(y.state, block.undo) = x.state
    BY <1>1, <1>3, UndoRestores DEF Undoes, Fit
<1>5. /\ IsMap(y.results) /\ DOMAIN y.results = DOMAIN x.results \cup {x.height + 1}
      /\ \A n \in DOMAIN x.results : n # x.height + 1 => y.results[n] = x.results[n]
    BY <1>2 DEF Extend, IsMap
<1>6. Fit(y)
  <2>1. x.height \in Nat /\ DOMAIN x.results = 0..x.height
    BY DEF Fit
  <2>2. \A n \in Nat : n + 1 \in Nat /\ (0..n) \cup {n + 1} = 0..(n + 1)
    OBVIOUS
  <2>3. x.height + 1 \in Nat /\ (0..x.height) \cup {x.height + 1} = 0..(x.height + 1)
    BY <2>1, <2>2
  <2>4. y.height \in Nat /\ DOMAIN y.results = 0..y.height
    BY <1>1, <1>5, <2>1, <2>3
  <2> QED
    BY <1>4, <1>5, <2>4 DEF Fit
<1>7. Above(x, y)
  <2> DEFINE left == [n \in DOMAIN y.results \ {y.height} |-> y.results[n]]
  <2>1. x.height \in Nat /\ DOMAIN x.results = 0..x.height /\ IsMap(x.results)
    BY DEF Fit
  <2>2. DOMAIN y.results \ {y.height} = DOMAIN x.results
    BY <1>1, <1>5, <2>1
  <2>3. DOMAIN left = DOMAIN x.results /\ \A n \in DOMAIN x.results : left[n] = x.results[n]
    BY <1>1, <1>5, <2>1, <2>2
  <2>4. IsMap(left)
    BY DEF IsMap
  <2> HIDE DEF left
  <2>5. left = x.results
    BY <2>1, <2>3, <2>4 DEF IsMap
  <2> QED
    BY <1>1, <2>5 DEF Above, left
<1> QED
    BY <1>4, <1>6, <1>7 DEF y, block

(* Every replay is fit, and one block above that of the selected parent.   *)
Replayed(hs, dt, R) ==
    /\ \A c \in DOMAIN hs : Fit(R[c])
    /\ \A c \in DOMAIN hs \ {Genesis} : Above(R[dt[c].selected_parent], R[c])

LEMMA ReplayIsFit ==
    ASSUME NEW hs, NEW dt, Dag(hs, dt), NEW bs, Bodied(hs, bs),
           NEW R, Replays(hs, dt, bs, R)
    PROVE  Replayed(hs, dt, R)
<1> DEFINE D == DOMAIN hs
           h == [c \in D |-> dt[c].topological_height]
           S == {c \in D : Fit(R[c])}
<1>1. \A c \in D : h[c] \in Nat
    BY DEF Dag, WellFormed, Layered
<1>2. \A c \in D \ {Genesis} : dt[c].selected_parent \in D /\ h[dt[c].selected_parent] < h[c]
  <2> TAKE c \in D \ {Genesis}
  <2>1. StepsFrom(hs, dt, c, dt[c].selected_parent)
    BY PastSplits
  <2> QED
    BY <2>1 DEF StepsFrom
<1>3. /\ \A c \in D \ {Genesis} : R[c] = ExecuteChainBlock(dt, bs, R[dt[c].selected_parent], c)
      /\ Genesis \in D => R[Genesis] = GenesisExecutor
    BY DEF Replays, ReplayStep
<1>4. ASSUME NEW b \in D, \A c \in D : h[c] < h[b] => c \in S
      PROVE  b \in S
  <2>1. CASE b = Genesis
    <3>1. IsMap(GenesisState)
        BY ExecutorAssumption DEF IsMap
    <3>2. Fit(GenesisExecutor)
        BY <3>1 DEF Fit, GenesisExecutor, IsMap
    <3> QED
        BY <1>3, <2>1, <3>2
  <2>2. CASE b # Genesis
    <3> DEFINE sp == dt[b].selected_parent
    <3>1. sp \in D /\ h[sp] < h[b]
        BY <1>2, <2>2
    <3>2. sp \in S
      <4> HIDE DEF S, h, D, sp
      <4> QED
          BY <1>4, <3>1
    <3>3. Fit(ExecuteChainBlock(dt, bs, R[sp], b))
        BY <3>2, ExecutedIsFit
    <3> QED
        BY <1>3, <2>2, <3>3
  <2> QED
    BY <2>1, <2>2
<1>5. D \subseteq S
  <2>1. \A b \in D : (\A c \in D : h[c] < h[b] => c \in S) => b \in S
    BY <1>4
  <2> HIDE DEF D, h, S
  <2> QED
    BY <1>1, <2>1, HeightInduction
<1>6. ASSUME NEW c \in DOMAIN hs \ {Genesis} PROVE Above(R[dt[c].selected_parent], R[c])
  <2>1. Fit(R[dt[c].selected_parent])
    BY <1>2, <1>5
  <2> QED
    BY <1>3, <2>1, ExecutedIsFit
<1> QED
    BY <1>5, <1>6 DEF Replayed

-----------------------------------------------------------------------------
(* The journal.  A record is right when it takes the state its block left  *)
(* to the state its selected parent left, whatever was done since it was   *)
(* written; nothing says which records pruning left.                       *)
GoodRecord(hs, dt, R, r) ==
    /\ r.hash \in DOMAIN hs \ {Genesis}
    /\ r.height = R[r.hash].height
    /\ Restored(R[r.hash].state, r.undo) = R[dt[r.hash].selected_parent].state

GoodJournal(hs, dt, R, journal) ==
    \E U : journal \in Seq(U) /\ \A r \in U : GoodRecord(hs, dt, R, r)

(* Execution stands at `b`. *)
StandsAt(hs, dt, R, x, b) ==
    b \in DOMAIN hs /\ Same(x, R[b]) /\ GoodJournal(hs, dt, R, x.journal)

LEMMA PrunedIsPart ==
    ASSUME NEW U, NEW journal \in Seq(U), NEW height
    PROVE  Pruned(journal, height) \in Seq(U)
<1> DEFINE N == Len(journal)
<1>1. N \in Nat
    OBVIOUS
<1>2. PICK f : PruneRun(journal, height, f) /\ Pruned(journal, height) = f[N]
    BY <1>1, PruneRuns
<1> DEFINE G == {n \in Nat : n <= N => f[n] \in Seq(U)}
<1>3. 0 \in G
  <2>1. f[0] = <<>>
    BY <1>1, <1>2 DEF PruneRun
  <2>2. <<>> \in Seq(U)
    OBVIOUS
  <2> QED
    BY <2>1, <2>2
<1>4. ASSUME NEW n \in Nat, n \in G PROVE n + 1 \in G
  <2> SUFFICES ASSUME n + 1 <= N PROVE f[n + 1] \in Seq(U)
    OBVIOUS
  <2>1. n + 1 \in 0..N /\ n + 1 # 0 /\ (n + 1) - 1 = n /\ n <= N /\ n + 1 \in 1..N
    BY <1>1
  <2>2. f[n + 1] = KeepRecent(f[n], journal[n + 1], height - PruningWindow)
    BY <1>2, <2>1 DEF PruneRun
  <2>3. f[n] \in Seq(U) /\ journal[n + 1] \in U
    BY <1>4, <2>1
  <2> QED
    BY <2>2, <2>3 DEF KeepRecent
<1>5. Nat \subseteq G
  <2> HIDE DEF G
  <2> QED
    BY <1>3, <1>4, Counting
<1>6. f[N] \in Seq(U)
    BY <1>1, <1>5
<1> QED
    BY <1>2, <1>6

LEMMA ExecutesTo ==
    ASSUME NEW hs, NEW dt, Dag(hs, dt), NEW bs, Bodied(hs, bs),
           NEW R, Replays(hs, dt, bs, R), NEW b \in DOMAIN hs \ {Genesis},
           NEW x, StandsAt(hs, dt, R, x, dt[b].selected_parent)
    PROVE  /\ StandsAt(hs, dt, R, ExecuteChainBlock(dt, bs, x, b), b)
           /\ ExecuteChainBlock(dt, bs, x, b).tip = b
<1> DEFINE sp == dt[b].selected_parent
           y == ExecuteChainBlock(dt, bs, x, b)
           r == RecordOf(dt, bs, x, b)
<1>1. sp \in DOMAIN hs /\ Same(x, R[sp])
    BY DEF StandsAt
<1>2. Fit(R[sp])
    BY <1>1, ReplayIsFit DEF Replayed
<1>3. Fit(x)
    BY <1>1, <1>2 DEF Fit, Same
<1>4. R[b] = ExecuteChainBlock(dt, bs, R[sp], b)
    BY DEF Replays, ReplayStep
<1>5. Same(y, R[b])
    BY <1>1, <1>4, ExecutesAlike
<1>6. Restored(y.state, BlockOf(dt, bs, x, b).undo) = x.state /\ y.height = x.height + 1
  <2>1. Above(x, y) /\ Restored(y.state, BlockOf(dt, bs, x, b).undo) = x.state
    BY <1>3, ExecutedIsFit
  <2> HIDE DEF y
  <2> QED
    BY <2>1 DEF Above
<1>7. GoodRecord(hs, dt, R, r)
  <2>1. r.hash = b /\ r.height = x.height + 1 /\ r.undo = BlockOf(dt, bs, x, b).undo
    BY DEF RecordOf
  <2>2. y.state = R[b].state /\ y.height = R[b].height /\ x.state = R[sp].state
    BY <1>1, <1>5 DEF Same
  <2> HIDE DEF r, y
  <2> QED
    BY <1>6, <2>1, <2>2 DEF GoodRecord
<1>8. GoodJournal(hs, dt, R, y.journal)
  <2>1. PICK U : x.journal \in Seq(U) /\ \A u \in U : GoodRecord(hs, dt, R, u)
    BY DEF StandsAt, GoodJournal
  <2>2. y.journal = Pruned(Append(x.journal, r), x.height + 1)
    BY ExecutedIs
  <2> HIDE DEF r, y
  <2> DEFINE W == U \cup {r}
  <2>3. Append(x.journal, r) \in Seq(W)
    BY <2>1
  <2>4. \A u \in W : GoodRecord(hs, dt, R, u)
    BY <1>7, <2>1
  <2> HIDE DEF W
  <2>5. y.journal \in Seq(W)
    BY <2>2, <2>3, PrunedIsPart
  <2> QED
    BY <2>4, <2>5 DEF GoodJournal
<1>9. y.tip = b
    BY ExecutedIs
<1> QED
    BY <1>5, <1>8, <1>9 DEF StandsAt

LEMMA UndoesTo ==
    ASSUME NEW hs, NEW dt, Dag(hs, dt), NEW bs, Bodied(hs, bs),
           NEW R, Replays(hs, dt, bs, R), NEW b \in DOMAIN hs \ {Genesis},
           NEW x, StandsAt(hs, dt, R, x, b), CanUndo(x, b)
    PROVE  StandsAt(hs, dt, R, UndoOne(x), dt[b].selected_parent)
<1> DEFINE sp == dt[b].selected_parent
           y == UndoOne(x)
           r == Last(x.journal)
<1>1. Same(x, R[b])
    BY DEF StandsAt
<1>2. PICK U : x.journal \in Seq(U) /\ \A u \in U : GoodRecord(hs, dt, R, u)
    BY DEF StandsAt, GoodJournal
<1>3. x.journal # <<>> /\ r.hash = b
    BY DEF CanUndo
<1>4. r \in U
  <2>1. Len(x.journal) \in 1..Len(x.journal)
    BY <1>2, <1>3
  <2> QED
    BY <1>2, <2>1 DEF Last
<1>5. Front(x.journal) \in Seq(U)
  <2>1. Len(x.journal) \in Nat /\ Len(x.journal) > 0
    BY <1>2, <1>3
  <2>2. Front(x.journal) = SubSeq(x.journal, 1, Len(x.journal) - 1)
    BY DEF Front
  <2> QED
    BY <1>2, <2>1, <2>2
<1>6. /\ y.state = Restored(x.state, r.undo) /\ y.height = r.height - 1
      /\ y.results = [n \in DOMAIN x.results \ {r.height} |-> x.results[n]]
      /\ y.journal = Front(x.journal)
    BY DEF UndoOne
<1>7. GoodRecord(hs, dt, R, r)
    BY <1>2, <1>4
<1>8. StepsFrom(hs, dt, b, sp)
    BY PastSplits
<1>9. Fit(R[sp]) /\ Above(R[sp], R[b])
    BY <1>8, ReplayIsFit DEF Replayed, StepsFrom
<1> HIDE DEF y, r, sp
<1>10. Same(y, R[sp])
  <2>1. y.state = R[sp].state
    BY <1>1, <1>3, <1>6, <1>7 DEF GoodRecord, Same, sp
  <2>2. r.height = R[b].height /\ x.results = R[b].results
    BY <1>1, <1>3, <1>7 DEF GoodRecord, Same
  <2>3. R[b].height = R[sp].height + 1 /\ R[sp].height \in Nat
    BY <1>9 DEF Above, Fit
  <2>4. y.results = R[sp].results
    BY <1>6, <1>9, <2>2 DEF Above
  <2>5. y.height = R[sp].height
    BY <1>6, <2>2, <2>3
  <2> QED
    BY <2>1, <2>4, <2>5 DEF Same
<1>11. GoodJournal(hs, dt, R, y.journal)
    BY <1>2, <1>5, <1>6 DEF GoodJournal
<1>12. sp \in DOMAIN hs
    BY <1>8 DEF StepsFrom
<1> QED
    BY <1>10, <1>11, <1>12 DEF StandsAt, y, sp

-----------------------------------------------------------------------------
(* The walk of compute_reorg.  What it needs of selected chains: each ends *)
(* in genesis, and heights and lengths fall along it.                      *)
Linked(hs, dt) ==
    /\ IsFiniteSet(DOMAIN hs) /\ Genesis \in DOMAIN hs
    /\ \A c \in DOMAIN hs :
         /\ dt[c].topological_height \in Nat
         /\ c \in ChainIn(dt, c) /\ Genesis \in ChainIn(dt, c) /\ ChainIn(dt, c) \subseteq DOMAIN hs
         /\ \A x \in ChainIn(dt, c) \ {c} : dt[x].topological_height < dt[c].topological_height
         /\ Depth(dt, c) \in Nat \ {0} /\ Depth(dt, c) <= Cardinality(DOMAIN hs)
    /\ \A c \in DOMAIN hs \ {Genesis} :
         LET sp == dt[c].selected_parent
         IN  /\ sp \in DOMAIN hs /\ sp # c
             /\ ChainIn(dt, c) = {c} \cup ChainIn(dt, sp) /\ c \notin ChainIn(dt, sp)
             /\ Depth(dt, c) = Depth(dt, sp) + 1

LEMMA GenesisIsOnChains ==
    ASSUME NEW hs, NEW dt, Dag(hs, dt)
    PROVE  \A c \in DOMAIN hs : Genesis \in ChainIn(dt, c)
<1> DEFINE D == DOMAIN hs
           h == [c \in D |-> dt[c].topological_height]
           S == {c \in D : Genesis \in ChainIn(dt, c)}
<1>1. \A c \in D : h[c] \in Nat
    BY DEF Dag, WellFormed, Layered
<1>2. ASSUME NEW b \in D, \A c \in D : h[c] < h[b] => c \in S
      PROVE  b \in S
  <2>1. CASE b = Genesis
    <3>1. ChainIn(dt, Genesis) = {Genesis}
        BY BluesOfGenesis
    <3> QED
        BY <2>1, <3>1
  <2>2. CASE b # Genesis
    <3> DEFINE sp == dt[b].selected_parent
    <3>1. StepsFrom(hs, dt, b, sp)
        BY <2>2, PastSplits
    <3>2. sp \in D /\ h[sp] < h[b] /\ ChainIn(dt, b) = {b} \cup ChainIn(dt, sp)
        BY <3>1 DEF StepsFrom
    <3>3. sp \in S
      <4> HIDE DEF S, h, D, sp
      <4> QED
          BY <1>2, <3>2
    <3> QED
        BY <3>2, <3>3
  <2> QED
    BY <2>1, <2>2
<1>3. D \subseteq S
  <2>1. \A b \in D : (\A c \in D : h[c] < h[b] => c \in S) => b \in S
    BY <1>2
  <2> HIDE DEF D, h, S
  <2> QED
    BY <1>1, <2>1, HeightInduction
<1> QED
    BY <1>3

LEMMA DagIsLinked ==
    ASSUME NEW hs, NEW dt, Dag(hs, dt)
    PROVE  Linked(hs, dt)
<1>1. IsFiniteSet(DOMAIN hs) /\ Genesis \in DOMAIN hs /\ Layered(hs, dt)
    BY DEF Dag, WellFormed, Worked, Rooted
<1>2. \A c \in DOMAIN hs : Ranked(dt, c) /\ Genesis \in ChainIn(dt, c)
    BY ChainIsRanked, GenesisIsOnChains
<1>3. ASSUME NEW c \in DOMAIN hs
      PROVE  /\ dt[c].topological_height \in Nat
             /\ c \in ChainIn(dt, c) /\ ChainIn(dt, c) \subseteq DOMAIN hs
             /\ \A x \in ChainIn(dt, c) \ {c} : dt[x].topological_height < dt[c].topological_height
             /\ Depth(dt, c) \in Nat \ {0} /\ Depth(dt, c) <= Cardinality(DOMAIN hs)
  <2>1. c \in ChainIn(dt, c) /\ ChainIn(dt, c) \subseteq {c} \cup PastIn(hs)[c]
    BY <1>1, ChainIsInPast
  <2>2. /\ PastIn(hs)[c] \subseteq DOMAIN hs
        /\ \A x \in PastIn(hs)[c] : dt[x].topological_height < dt[c].topological_height
    BY <1>1, PastIsClosed
  <2>3. ChainIn(dt, c) \subseteq DOMAIN hs
    BY <2>1, <2>2
  <2>4. Cardinality(ChainIn(dt, c)) <= Cardinality(DOMAIN hs)
    BY <1>1, <2>3, FS_Subset
  <2>5. Depth(dt, c) \in Nat \ {0}
    BY <1>2 DEF Ranked
  <2>6. dt[c].topological_height \in Nat
    BY <1>1 DEF Layered
  <2> QED
    BY <2>1, <2>2, <2>3, <2>4, <2>5, <2>6 DEF Depth
<1>4. ASSUME NEW c \in DOMAIN hs \ {Genesis}
      PROVE  LET sp == dt[c].selected_parent
             IN  /\ sp \in DOMAIN hs /\ sp # c
                 /\ ChainIn(dt, c) = {c} \cup ChainIn(dt, sp) /\ c \notin ChainIn(dt, sp)
                 /\ Depth(dt, c) = Depth(dt, sp) + 1
  <2> DEFINE sp == dt[c].selected_parent
  <2>1. StepsFrom(hs, dt, c, sp)
    BY PastSplits
  <2>2. /\ sp \in DOMAIN hs /\ sp # c /\ ChainIn(dt, c) = {c} \cup ChainIn(dt, sp)
        /\ dt[sp].topological_height < dt[c].topological_height
    BY <2>1 DEF StepsFrom
  <2>3. c \notin ChainIn(dt, sp)
    <3>1. /\ \A x \in ChainIn(dt, sp) \ {sp} : dt[x].topological_height < dt[sp].topological_height
          /\ dt[sp].topological_height \in Nat /\ dt[c].topological_height \in Nat
        BY <1>3, <2>2
    <3> QED
        BY <2>2, <3>1
  <2>4. Ranked(dt, sp)
    BY <1>2, <2>2
  <2>5. Depth(dt, c) = Depth(dt, sp) + 1
    BY <2>2, <2>3, <2>4, RankedExtends
  <2> QED
    BY <2>2, <2>3, <2>5
<1> QED
    BY <1>1, <1>2, <1>3, <1>4 DEF Linked

(* The blocks a cursor has passed, from `top` down to where it is: each is *)
(* the selected parent of the one before, and what is left of top's chain  *)
(* is the cursor's.                                                        *)
Under(dt, s, top, i) == IF i = 0 THEN top ELSE dt[s[i]].selected_parent

Falls(dt, s, top, bottom) ==
    /\ \A i \in 1..Len(s) : s[i] = Under(dt, s, top, i - 1)
    /\ bottom = Under(dt, s, top, Len(s))

Trail(hs, dt, s, top, bottom) ==
    /\ s \in Seq(DOMAIN hs \ {Genesis}) /\ top \in DOMAIN hs /\ bottom \in DOMAIN hs
    /\ Falls(dt, s, top, bottom)
    /\ ChainIn(dt, top) = Range(s) \cup ChainIn(dt, bottom)
    /\ Range(s) \cap ChainIn(dt, bottom) = {}

LEMMA FallsFurther ==
    ASSUME NEW dt, NEW U, NEW s \in Seq(U), NEW top, NEW x, Falls(dt, s, top, x)
    PROVE  Falls(dt, Append(s, x), top, dt[x].selected_parent)
<1> DEFINE t == Append(s, x)
           n == Len(s)
<1>1. n \in Nat /\ Len(t) = n + 1 /\ t[n + 1] = x /\ \A i \in 1..n : t[i] = s[i]
    OBVIOUS
<1>2. /\ \A i \in 1..n : s[i] = Under(dt, s, top, i - 1)
      /\ x = Under(dt, s, top, n)
    BY DEF Falls
<1> HIDE DEF t, n
<1>3. \A i \in 0..n : Under(dt, t, top, i) = Under(dt, s, top, i)
    BY <1>1 DEF Under
<1>4. \A i \in 1..n : i - 1 \in 0..n /\ n \in 0..n
    BY <1>1
<1>5. \A i \in 1..n : t[i] = Under(dt, t, top, i - 1)
    BY <1>1, <1>2, <1>3, <1>4
<1>6. t[n + 1] = Under(dt, t, top, n)
    BY <1>1, <1>2, <1>3
<1>7. \A i \in 1..n + 1 : i \in 1..n \/ (i = n + 1 /\ i - 1 = n)
    BY <1>1
<1>8. \A i \in 1..Len(t) : t[i] = Under(dt, t, top, i - 1)
    BY <1>1, <1>5, <1>6, <1>7
<1>9. dt[x].selected_parent = Under(dt, t, top, Len(t))
    BY <1>1 DEF Under
<1> QED
    BY <1>8, <1>9 DEF Falls, t

LEMMA TrailExtends ==
    ASSUME NEW hs, NEW dt, Linked(hs, dt), NEW s, NEW top, NEW x,
           Trail(hs, dt, s, top, x), x # Genesis
    PROVE  /\ Trail(hs, dt, Append(s, x), top, dt[x].selected_parent)
           /\ Range(Append(s, x)) = Range(s) \cup {x}
<1> DEFINE D == DOMAIN hs \ {Genesis}
           sp == dt[x].selected_parent
<1>1. /\ s \in Seq(D) /\ top \in DOMAIN hs /\ x \in DOMAIN hs /\ Falls(dt, s, top, x)
      /\ ChainIn(dt, top) = Range(s) \cup ChainIn(dt, x) /\ Range(s) \cap ChainIn(dt, x) = {}
    BY DEF Trail
<1>2. sp \in DOMAIN hs /\ ChainIn(dt, x) = {x} \cup ChainIn(dt, sp) /\ x \notin ChainIn(dt, sp)
    BY <1>1 DEF Linked
<1>3. Append(s, x) \in Seq(D) /\ s \in Seq(D) /\ x \in D
    BY <1>1
<1>4. Range(Append(s, x)) = Range(s) \cup {x}
  <2> HIDE DEF D
  <2> QED
    BY <1>3, RangeOfAppend
<1>5. Falls(dt, Append(s, x), top, sp)
  <2> HIDE DEF D
  <2> QED
    BY <1>1, FallsFurther
<1> HIDE DEF sp
<1> QED
    BY <1>1, <1>2, <1>3, <1>4, <1>5 DEF Trail, sp

(* Two cursors on their way down from `a` and `b`, when neither has passed *)
(* a block of the other's chain.                                           *)
Apart(hs, dt, a, b, s, x, t, y) ==
    /\ Trail(hs, dt, s, a, x) /\ Trail(hs, dt, t, b, y)
    /\ Range(s) \cap ChainIn(dt, b) = {} /\ Range(t) \cap ChainIn(dt, a) = {}

LEMMA ApartSwaps ==
    ASSUME NEW hs, NEW dt, NEW a, NEW b, NEW s, NEW x, NEW t, NEW y
    PROVE  Apart(hs, dt, a, b, s, x, t, y) <=> Apart(hs, dt, b, a, t, y, s, x)
BY DEF Apart

(* The higher cursor is not on the other's chain, and may move.            *)
LEMMA CursorMoves ==
    ASSUME NEW hs, NEW dt, Linked(hs, dt), NEW a, NEW b, NEW s, NEW x, NEW t, NEW y,
           Apart(hs, dt, a, b, s, x, t, y), x # y,
           dt[y].topological_height <= dt[x].topological_height
    PROVE  LET sp == dt[x].selected_parent
           IN  /\ Apart(hs, dt, a, b, Append(s, x), sp, t, y)
               /\ x # Genesis /\ sp # x /\ Depth(dt, x) = Depth(dt, sp) + 1
<1> DEFINE sp == dt[x].selected_parent
<1>1. /\ Trail(hs, dt, s, a, x) /\ Trail(hs, dt, t, b, y)
      /\ Range(s) \cap ChainIn(dt, b) = {} /\ Range(t) \cap ChainIn(dt, a) = {}
    BY DEF Apart
<1>2. /\ x \in DOMAIN hs /\ y \in DOMAIN hs
      /\ ChainIn(dt, a) = Range(s) \cup ChainIn(dt, x)
      /\ ChainIn(dt, b) = Range(t) \cup ChainIn(dt, y)
    BY <1>1 DEF Trail
<1>3. /\ dt[x].topological_height \in Nat /\ dt[y].topological_height \in Nat
      /\ x \in ChainIn(dt, x) /\ Genesis \in ChainIn(dt, y)
      /\ \A c \in ChainIn(dt, y) \ {y} : dt[c].topological_height < dt[y].topological_height
    BY <1>2 DEF Linked
<1>4. x \notin ChainIn(dt, y)
  <2>1. ~ (dt[x].topological_height < dt[y].topological_height)
    BY <1>3
  <2> QED
    BY <1>3, <2>1
<1>5. x # Genesis
    BY <1>3, <1>4
<1>6. x \notin ChainIn(dt, b)
    BY <1>1, <1>2, <1>3, <1>4
<1>7. /\ Trail(hs, dt, Append(s, x), a, sp)
      /\ Range(Append(s, x)) = Range(s) \cup {x}
    BY <1>1, <1>5, TrailExtends
<1>8. sp # x /\ Depth(dt, x) = Depth(dt, sp) + 1
    BY <1>2, <1>5 DEF Linked
<1> HIDE DEF sp
<1>9. Apart(hs, dt, a, b, Append(s, x), sp, t, y)
    BY <1>1, <1>6, <1>7 DEF Apart
<1> QED
    BY <1>5, <1>8, <1>9 DEF sp

(* The state of the walk after `n` steps. *)
IsWalk(w) ==
    w = [old |-> w.old, new |-> w.new, met |-> w.met, removed |-> w.removed, added |-> w.added]

Walking(hs, dt, a, b, n, w) ==
    /\ IsWalk(w)
    /\ Apart(hs, dt, a, b, w.removed, w.old, w.added, w.new)
    /\ w.met => w.old = w.new
    /\ w.old # w.new => Depth(dt, w.old) + Depth(dt, w.new) + n <= 2 * Cardinality(DOMAIN hs)

LEMMA FirstCursorsWalk ==
    ASSUME NEW hs, NEW dt, Linked(hs, dt), NEW a \in DOMAIN hs, NEW b \in DOMAIN hs
    PROVE  Walking(hs, dt, a, b, 0, FirstCursors(a, b))
<1> DEFINE w == FirstCursors(a, b)
           D == DOMAIN hs \ {Genesis}
           N == Cardinality(DOMAIN hs)
<1>1. /\ w.old = a /\ w.new = b /\ w.met = FALSE /\ w.removed = <<>> /\ w.added = <<>>
      /\ IsWalk(w)
    BY DEF FirstCursors, IsWalk
<1> HIDE DEF w
<1>2. ASSUME NEW c \in DOMAIN hs PROVE Trail(hs, dt, <<>>, c, c)
  <2>1. <<>> \in Seq(D) /\ Len(<<>>) = 0
    OBVIOUS
  <2>2. Range(<<>>) = {}
    BY DEF Range
  <2>3. Falls(dt, <<>>, c, c)
    BY <2>1 DEF Falls, Under
  <2> QED
    BY <2>1, <2>2, <2>3 DEF Trail
<1>3. Apart(hs, dt, a, b, <<>>, a, <<>>, b)
  <2>1. Range(<<>>) = {}
    BY DEF Range
  <2> QED
    BY <1>2, <2>1 DEF Apart
<1>4. Depth(dt, a) + Depth(dt, b) + 0 <= 2 * N
  <2>1. /\ Depth(dt, a) \in Nat /\ Depth(dt, b) \in Nat
        /\ Depth(dt, a) <= N /\ Depth(dt, b) <= N
    BY DEF Linked
  <2>2. N \in Nat
    BY FS_CardinalityType DEF Linked
  <2> HIDE DEF N
  <2> QED
    BY <2>1, <2>2
<1>5. Walking(hs, dt, a, b, 0, w)
    BY <1>1, <1>3, <1>4 DEF Walking
<1> QED
    BY <1>5 DEF w

LEMMA WalkContinues ==
    ASSUME NEW hs, NEW dt, Linked(hs, dt), NEW a, NEW b, NEW n \in Nat,
           NEW w, Walking(hs, dt, a, b, n, w)
    PROVE  Walking(hs, dt, a, b, n + 1, WalkStep(dt, w))
<1> DEFINE v == WalkStep(dt, w)
           x == w.old
           y == w.new
           s == w.removed
           t == w.added
           N == Cardinality(DOMAIN hs)
<1>1. /\ IsWalk(w) /\ Apart(hs, dt, a, b, s, x, t, y) /\ (w.met => x = y)
      /\ x # y => Depth(dt, x) + Depth(dt, y) + n <= 2 * N
    BY DEF Walking
<1>2. x \in DOMAIN hs /\ y \in DOMAIN hs
    BY <1>1 DEF Apart, Trail
<1>3. /\ dt[x].topological_height \in Nat /\ dt[y].topological_height \in Nat
      /\ Depth(dt, x) \in Nat /\ Depth(dt, y) \in Nat
    BY <1>2 DEF Linked
<1>4. N \in Nat
    BY FS_CardinalityType DEF Linked
<1>5. CASE w.met \/ x = y
  <2>1. v = [w EXCEPT !.met = TRUE]
    BY <1>5 DEF WalkStep
  <2>2. v = [old |-> x, new |-> y, met |-> TRUE, removed |-> s, added |-> t]
    BY <1>1, <2>1 DEF IsWalk
  <2>3. v.old = x /\ v.new = y /\ v.removed = s /\ v.added = t /\ IsWalk(v)
    BY <2>2 DEF IsWalk
  <2> HIDE DEF v, x, y, s, t
  <2> QED
    BY <1>1, <1>5, <2>3 DEF Walking, v
<1>6. CASE ~ (w.met \/ x = y) /\ OldCursorMoves(dt, w)
  <2> DEFINE sp == dt[x].selected_parent
  <2>1. v = [w EXCEPT !.removed = Append(@, w.old),
                      !.met = (w.old = dt[w.old].selected_parent),
                      !.old = dt[w.old].selected_parent]
    BY <1>6 DEF WalkStep
  <2>2. v = [old |-> sp, new |-> y, met |-> (x = sp), removed |-> Append(s, x), added |-> t]
    BY <1>1, <2>1 DEF IsWalk
  <2>3. /\ v.old = sp /\ v.new = y /\ v.removed = Append(s, x) /\ v.added = t /\ IsWalk(v)
        /\ v.met = (x = sp)
    BY <2>2 DEF IsWalk
  <2>4. x # y /\ dt[y].topological_height <= dt[x].topological_height
    BY <1>3, <1>6 DEF OldCursorMoves
  <2>5. /\ Apart(hs, dt, a, b, Append(s, x), sp, t, y)
        /\ sp # x /\ Depth(dt, x) = Depth(dt, sp) + 1
    <3> HIDE DEF x, y, s, t
    <3> QED
        BY <1>1, <2>4, CursorMoves
  <2>6. sp \in DOMAIN hs
    BY <2>5 DEF Apart, Trail
  <2>7. Depth(dt, sp) \in Nat
    BY <2>6 DEF Linked
  <2> HIDE DEF v, x, y, s, t, sp, N
  <2>8. Depth(dt, sp) + Depth(dt, y) + (n + 1) <= 2 * N
    BY <1>1, <1>3, <1>4, <2>4, <2>5, <2>7
  <2> QED
    BY <2>3, <2>5, <2>8 DEF Walking, v, N
<1>7. CASE ~ (w.met \/ x = y) /\ ~ OldCursorMoves(dt, w)
  <2> DEFINE sp == dt[y].selected_parent
  <2>1. v = [w EXCEPT !.added = Append(@, w.new),
                      !.met = (w.new = dt[w.new].selected_parent),
                      !.new = dt[w.new].selected_parent]
    BY <1>7 DEF WalkStep
  <2>2. v = [old |-> x, new |-> sp, met |-> (y = sp), removed |-> s, added |-> Append(t, y)]
    BY <1>1, <2>1 DEF IsWalk
  <2>3. /\ v.old = x /\ v.new = sp /\ v.removed = s /\ v.added = Append(t, y) /\ IsWalk(v)
        /\ v.met = (y = sp)
    BY <2>2 DEF IsWalk
  <2>4. x # y /\ dt[x].topological_height <= dt[y].topological_height
    BY <1>3, <1>7 DEF OldCursorMoves
  <2>5. /\ Apart(hs, dt, b, a, Append(t, y), sp, s, x)
        /\ sp # y /\ Depth(dt, y) = Depth(dt, sp) + 1
    <3> HIDE DEF x, y, s, t
    <3>1. Apart(hs, dt, b, a, t, y, s, x)
        BY <1>1, ApartSwaps
    <3> QED
        BY <2>4, <3>1, CursorMoves
  <2>6. sp \in DOMAIN hs /\ Apart(hs, dt, a, b, s, x, Append(t, y), sp)
    BY <2>5 DEF Apart, Trail
  <2>7. Depth(dt, sp) \in Nat
    BY <2>6 DEF Linked
  <2> HIDE DEF v, x, y, s, t, sp, N
  <2>8. Depth(dt, x) + Depth(dt, sp) + (n + 1) <= 2 * N
    BY <1>1, <1>3, <1>4, <2>4, <2>5, <2>7
  <2> QED
    BY <2>3, <2>5, <2>6, <2>8 DEF Walking, v, N
<1> QED
    BY <1>5, <1>6, <1>7

(* The walk has met when its steps are done: what it has passed is what    *)
(* the two chains do not share.                                            *)
Meets(hs, dt, a, b, w, c) ==
    /\ Trail(hs, dt, w.removed, a, c) /\ Trail(hs, dt, w.added, b, c)
    /\ Range(w.removed) = ChainIn(dt, a) \ ChainIn(dt, b)
    /\ Range(w.added) = ChainIn(dt, b) \ ChainIn(dt, a)

WholeWalk(dt, a, b) == Walk(dt, a, b, 2 * Cardinality(DOMAIN dt))

LEMMA WalkMeets ==
    ASSUME NEW hs, NEW dt, Dag(hs, dt), NEW a \in DOMAIN hs, NEW b \in DOMAIN hs
    PROVE  \E c : Meets(hs, dt, a, b, WholeWalk(dt, a, b), c)
<1> DEFINE N == 2 * Cardinality(DOMAIN hs)
           w == WholeWalk(dt, a, b)
<1>1. Linked(hs, dt) /\ DOMAIN dt = DOMAIN hs
    BY DagIsLinked DEF Dag, WellFormed, Layered
<1>2. N \in Nat
  <2>1. Cardinality(DOMAIN hs) \in Nat
    BY <1>1, FS_CardinalityType DEF Linked
  <2> QED
    BY <2>1
<1>3. w = Walk(dt, a, b, N)
    BY <1>1 DEF WholeWalk
<1> HIDE DEF w
<1>4. PICK f : WalkRun(dt, a, b, N, f) /\ Walk(dt, a, b, N) = f[N]
  <2> HIDE DEF N
  <2> QED
    BY <1>2, WalkRuns
<1> DEFINE G == {n \in Nat : n <= N => Walking(hs, dt, a, b, n, f[n])}
<1>5. 0 \in G
  <2>1. f[0] = FirstCursors(a, b)
    <3> HIDE DEF N
    <3> QED
        BY <1>2, <1>4 DEF WalkRun
  <2>2. Walking(hs, dt, a, b, 0, FirstCursors(a, b))
    BY <1>1, FirstCursorsWalk
  <2> QED
    BY <2>1, <2>2
<1>6. ASSUME NEW n \in Nat, n \in G PROVE n + 1 \in G
  <2> SUFFICES ASSUME n + 1 <= N PROVE Walking(hs, dt, a, b, n + 1, f[n + 1])
    OBVIOUS
  <2>1. n + 1 \in 0..N /\ n + 1 # 0 /\ (n + 1) - 1 = n /\ n <= N
    <3> HIDE DEF N
    <3> QED
        BY <1>2
  <2>2. f[n + 1] = WalkStep(dt, f[n])
    <3> HIDE DEF N
    <3> QED
        BY <1>4, <2>1 DEF WalkRun
  <2>3. Walking(hs, dt, a, b, n, f[n])
    BY <1>6, <2>1
  <2> QED
    BY <1>1, <2>2, <2>3, WalkContinues
<1>7. Nat \subseteq G
  <2> HIDE DEF G
  <2> QED
    BY <1>5, <1>6, Counting
<1>8. Walking(hs, dt, a, b, N, w)
  <2>1. N \in G
    <3> HIDE DEF G, N
    <3> QED
        BY <1>2, <1>7
  <2>2. N <= N
    <3> HIDE DEF N
    <3> QED
        BY <1>2
  <2> QED
    BY <1>3, <1>4, <2>1, <2>2
<1> DEFINE x == w.old
           y == w.new
           s == w.removed
           t == w.added
<1>9. /\ Apart(hs, dt, a, b, s, x, t, y)
      /\ x # y => Depth(dt, x) + Depth(dt, y) + N <= N
    BY <1>8 DEF Walking
<1>10. Depth(dt, x) \in Nat \ {0} /\ Depth(dt, y) \in Nat \ {0}
  <2>1. x \in DOMAIN hs /\ y \in DOMAIN hs
    BY <1>9 DEF Apart, Trail
  <2> QED
    BY <1>1, <2>1 DEF Linked
<1>11. x = y
  <2> HIDE DEF x, y, N
  <2> QED
    BY <1>2, <1>9, <1>10
<1>12. Trail(hs, dt, s, a, x) /\ Trail(hs, dt, t, b, x)
    BY <1>9, <1>11 DEF Apart
<1>13. Range(s) \cap ChainIn(dt, b) = {} /\ Range(t) \cap ChainIn(dt, a) = {}
    BY <1>9 DEF Apart
<1>14. /\ ChainIn(dt, a) = Range(s) \cup ChainIn(dt, x)
       /\ ChainIn(dt, b) = Range(t) \cup ChainIn(dt, x)
    BY <1>12 DEF Trail
<1>15. /\ Range(s) = ChainIn(dt, a) \ ChainIn(dt, b)
       /\ Range(t) = ChainIn(dt, b) \ ChainIn(dt, a)
  <2> HIDE DEF s, t, x
  <2> QED
    BY <1>13, <1>14
<1>16. Meets(hs, dt, a, b, w, x)
    BY <1>12, <1>15 DEF Meets
<1> QED
    BY <1>16 DEF w

(* A trail read backwards rises from the block below it. *)
Rises(dt, s, bottom) ==
    \A i \in 1..Len(s) : dt[s[i]].selected_parent = IF i = 1 THEN bottom ELSE s[i - 1]

Turned(dt, U, s, top, bottom, r) ==
    /\ Rises(dt, r, bottom) /\ r \in Seq(U) /\ Len(r) = Len(s)
    /\ Range(r) = Range(s)
    /\ s # <<>> => r[Len(s)] = top

LEMMA TrailRises ==
    ASSUME NEW dt, NEW U, NEW s \in Seq(U), NEW top, NEW bottom, Falls(dt, s, top, bottom)
    PROVE  Turned(dt, U, s, top, bottom, Reverse(s))
<1> DEFINE n == Len(s)
           r == Reverse(s)
<1>1. n \in Nat /\ r = [i \in 1..n |-> s[n - i + 1]]
    BY DEF Reverse
<1>2. \A i \in 1..n : s[i] \in U
    OBVIOUS
<1>3. /\ \A i \in 1..n : s[i] = Under(dt, s, top, i - 1)
      /\ bottom = Under(dt, s, top, n)
    BY DEF Falls
<1>4. DOMAIN s = 1..n
    OBVIOUS
<1>5. s = <<>> <=> n = 0
    OBVIOUS
<1> HIDE DEF n, r
<1>6. \A i \in 1..n : n - i + 1 \in 1..n
    BY <1>1
<1>7. r \in Seq(U) /\ Len(r) = n /\ DOMAIN r = 1..n /\ \A i \in 1..n : r[i] = s[n - i + 1]
    BY <1>1, <1>2, <1>6
<1>8. Range(r) = Range(s)
  <2>1. \A i \in 1..n : n - (n - i + 1) + 1 = i
    BY <1>1
  <2>2. \A i \in 1..n : r[n - i + 1] = s[i]
    BY <1>6, <1>7, <2>1
  <2> QED
    BY <1>4, <1>6, <1>7, <2>2 DEF Range
<1>9. ASSUME NEW i \in 1..n PROVE dt[r[i]].selected_parent = IF i = 1 THEN bottom ELSE r[i - 1]
  <2>1. CASE i = 1
    <3>1. r[i] = s[n] /\ n # 0
        BY <1>1, <1>7, <2>1
    <3> QED
        BY <1>3, <2>1, <3>1 DEF Under
  <2>2. CASE i # 1
    <3> DEFINE j == n - i + 1
    <3>1. i - 1 \in 1..n /\ n - (i - 1) + 1 = j + 1 /\ j + 1 \in 1..n /\ (j + 1) - 1 = j /\ j # 0
        BY <1>1, <2>2
    <3>2. r[i] = s[j] /\ r[i - 1] = s[j + 1]
        BY <1>7, <3>1
    <3> HIDE DEF j
    <3>3. s[j + 1] = Under(dt, s, top, j)
        BY <1>3, <3>1
    <3> QED
        BY <2>2, <3>1, <3>2, <3>3 DEF Under
  <2> QED
    BY <2>1, <2>2
<1>10. Rises(dt, r, bottom)
    BY <1>7, <1>9 DEF Rises
<1>11. ASSUME n # 0 PROVE r[n] = top
  <2>1. n \in 1..n /\ n - n + 1 = 1 /\ 1 \in 1..n /\ 1 - 1 = 0
    BY <1>1, <1>11
  <2>2. r[n] = s[1]
    BY <1>7, <2>1
  <2>3. s[1] = Under(dt, s, top, 0)
    BY <1>3, <2>1
  <2> QED
    BY <2>2, <2>3 DEF Under
<1> QED
    BY <1>5, <1>7, <1>8, <1>10, <1>11 DEF n, r, Turned

(* What compute_reorg returns, from `a` to `b`: down to a common block `c` *)
(* and up again, over what the chains do not share.                        *)
Leads(hs, dt, a, b, reorg, c) ==
    /\ c \in DOMAIN hs
    /\ reorg.removed \in Seq(DOMAIN hs \ {Genesis}) /\ reorg.added \in Seq(DOMAIN hs \ {Genesis})
    /\ Falls(dt, reorg.removed, a, c) /\ Rises(dt, reorg.added, c)
    /\ Rises(dt, Reverse(reorg.removed), c)
    /\ reorg.added # <<>> => reorg.added[Len(reorg.added)] = b
    /\ Range(reorg.removed) = ChainIn(dt, a) \ ChainIn(dt, b)
    /\ Range(reorg.added) = ChainIn(dt, b) \ ChainIn(dt, a)

LEMMA ReorgLeads ==
    ASSUME NEW hs, NEW dt, Dag(hs, dt), NEW a \in DOMAIN hs, NEW b \in DOMAIN hs
    PROVE  \E c : Leads(hs, dt, a, b, ComputeReorg(dt, a, b), c)
<1> DEFINE w == WholeWalk(dt, a, b)
           D == DOMAIN hs \ {Genesis}
           reorg == ComputeReorg(dt, a, b)
<1>1. PICK c : Meets(hs, dt, a, b, w, c)
    BY WalkMeets
<1>2. reorg.removed = w.removed /\ reorg.added = Reverse(w.added)
    BY DEF ComputeReorg, WholeWalk
<1> HIDE DEF w, reorg
<1>3. /\ Trail(hs, dt, w.removed, a, c) /\ Trail(hs, dt, w.added, b, c)
      /\ Range(w.removed) = ChainIn(dt, a) \ ChainIn(dt, b)
      /\ Range(w.added) = ChainIn(dt, b) \ ChainIn(dt, a)
    BY <1>1 DEF Meets
<1>4. /\ w.removed \in Seq(D) /\ w.added \in Seq(D) /\ c \in DOMAIN hs
      /\ Falls(dt, w.removed, a, c) /\ Falls(dt, w.added, b, c)
    BY <1>3 DEF Trail
<1> HIDE DEF D
<1> DEFINE undone == Reverse(w.removed)
           added == Reverse(w.added)
<1>5. /\ Turned(dt, D, w.removed, a, c, undone)
      /\ Turned(dt, D, w.added, b, c, added)
    BY <1>4, TrailRises
<1>6. reorg.added = added
    BY <1>2
<1>7. Rises(dt, Reverse(reorg.removed), c)
    BY <1>2, <1>5 DEF Turned
<1> HIDE DEF added, undone
<1>8. /\ Rises(dt, added, c) /\ added \in Seq(D) /\ Range(added) = Range(w.added)
      /\ added # <<>> => added[Len(added)] = b
  <2>1. /\ Rises(dt, added, c) /\ added \in Seq(D) /\ Len(added) = Len(w.added)
        /\ Range(added) = Range(w.added)
        /\ w.added # <<>> => added[Len(w.added)] = b
    BY <1>5 DEF Turned
  <2>2. added # <<>> => w.added # <<>>
    BY <1>4, <2>1
  <2> QED
    BY <2>1, <2>2
<1>9. Leads(hs, dt, a, b, reorg, c)
    BY <1>2, <1>3, <1>4, <1>6, <1>7, <1>8 DEF Leads, D
<1> QED
    BY <1>9 DEF reorg

LEMMA ReorgsAreExact ==
    ASSUME Dag(headers, data)
    PROVE  ReorgIsExact
<1> SUFFICES ASSUME NEW a \in Present, NEW b \in Present
             PROVE  LET reorg == ComputeReorg(data, a, b)
                    IN  /\ Range(reorg.removed) = Chain(a) \ Chain(b)
                        /\ Range(reorg.added) = Chain(b) \ Chain(a)
                        /\ Rising(Reverse(reorg.removed)) /\ Rising(reorg.added)
    BY DEF ReorgIsExact
<1> DEFINE reorg == ComputeReorg(data, a, b)
           D == DOMAIN headers \ {Genesis}
<1>1. PICK c : Leads(headers, data, a, b, reorg, c)
    BY ReorgLeads DEF Present
<1> HIDE DEF reorg
<1>2. /\ reorg.removed \in Seq(D) /\ reorg.added \in Seq(D)
      /\ Rises(data, reorg.added, c) /\ Rises(data, Reverse(reorg.removed), c)
      /\ Range(reorg.removed) = Chain(a) \ Chain(b)
      /\ Range(reorg.added) = Chain(b) \ Chain(a)
    BY <1>1 DEF Leads, Chain
<1> HIDE DEF D
<1>3. ASSUME NEW s, Len(s) \in Nat, Rises(data, s, c) PROVE Rising(s)
  <2> SUFFICES ASSUME NEW i \in 1..Len(s) - 1 PROVE data[s[i + 1]].selected_parent = s[i]
    BY DEF Rising
  <2>1. i + 1 \in 1..Len(s) /\ i + 1 # 1 /\ (i + 1) - 1 = i
    BY <1>3
  <2> QED
    BY <1>3, <2>1 DEF Rises
<1>4. Len(reorg.added) \in Nat /\ Len(Reverse(reorg.removed)) \in Nat
    BY <1>2 DEF Reverse
<1> QED
    BY <1>2, <1>3, <1>4 DEF reorg

-----------------------------------------------------------------------------
(* apply_reorg.  As long as no undo fails, execution stands where the path *)
(* says it does.                                                           *)
LEMMA UndoneStands ==
    ASSUME NEW hs, NEW dt, Dag(hs, dt), NEW bs, Bodied(hs, bs),
           NEW R, Replays(hs, dt, bs, R), NEW a, NEW c,
           NEW removed \in Seq(DOMAIN hs \ {Genesis}), Falls(dt, removed, a, c),
           NEW x, StandsAt(hs, dt, R, x, a), Undone(x, removed).ok
    PROVE  StandsAt(hs, dt, R, Undone(x, removed).ex, c)
<1> DEFINE N == Len(removed)
           D == DOMAIN hs \ {Genesis}
           At(n) == Under(dt, removed, a, n)
<1>1. N \in Nat /\ \A i \in 1..N : removed[i] \in D
    OBVIOUS
<1>2. PICK f : UndoRun(x, removed, f) /\ Undone(x, removed) = f[N]
    BY <1>1, UndoRuns
<1>3. (\A i \in 1..N : removed[i] = At(i - 1)) /\ c = At(N)
    BY DEF Falls
<1> DEFINE G == {n \in Nat : n <= N => (f[n].ok => StandsAt(hs, dt, R, f[n].ex, At(n)))}
<1>4. 0 \in G
  <2>1. f[0] = FirstUndo(x)
    BY <1>1, <1>2 DEF UndoRun
  <2>2. f[0].ex = x /\ At(0) = a
    BY <2>1 DEF FirstUndo, Under
  <2> QED
    BY <2>2
<1>5. ASSUME NEW n \in Nat, n \in G PROVE n + 1 \in G
  <2> SUFFICES ASSUME n + 1 <= N, f[n + 1].ok PROVE StandsAt(hs, dt, R, f[n + 1].ex, At(n + 1))
    OBVIOUS
  <2>1. n + 1 \in 0..N /\ n + 1 # 0 /\ (n + 1) - 1 = n /\ n <= N /\ n + 1 \in 1..N
    BY <1>1
  <2>2. f[n + 1] = UndoNext(f[n], removed[n + 1])
    BY <1>2, <2>1 DEF UndoRun
  <2> DEFINE b == removed[n + 1]
  <2>3. b \in D /\ b = At(n) /\ At(n + 1) = dt[b].selected_parent
    BY <1>1, <1>3, <2>1 DEF Under
  <2>4. f[n].ok /\ CanUndo(f[n].ex, b) /\ f[n + 1].ex = UndoOne(f[n].ex)
    BY <2>2 DEF UndoNext
  <2>5. StandsAt(hs, dt, R, f[n].ex, At(n))
    BY <1>5, <2>1, <2>4
  <2>6. StandsAt(hs, dt, R, UndoOne(f[n].ex), dt[b].selected_parent)
    <3> HIDE DEF At, b
    <3> QED
        BY <2>3, <2>4, <2>5, UndoesTo
  <2> QED
    BY <2>3, <2>4, <2>6
<1>6. Nat \subseteq G
  <2> HIDE DEF G
  <2> QED
    BY <1>4, <1>5, Counting
<1>7. f[N].ok => StandsAt(hs, dt, R, f[N].ex, At(N))
    BY <1>1, <1>6
<1> QED
    BY <1>2, <1>3, <1>7

LEMMA RedoneStands ==
    ASSUME NEW hs, NEW dt, Dag(hs, dt), NEW bs, Bodied(hs, bs),
           NEW R, Replays(hs, dt, bs, R), NEW c,
           NEW added \in Seq(DOMAIN hs \ {Genesis}), Rises(dt, added, c), added # <<>>,
           NEW x, StandsAt(hs, dt, R, x, c)
    PROVE  LET y == Redone(dt, bs, x, added)
           IN  StandsAt(hs, dt, R, y, added[Len(added)]) /\ y.tip = added[Len(added)]
<1> DEFINE N == Len(added)
           D == DOMAIN hs \ {Genesis}
           At(n) == IF n = 0 THEN c ELSE added[n]
<1>1. N \in Nat /\ N # 0 /\ \A i \in 1..N : added[i] \in D
    OBVIOUS
<1>2. PICK f : RedoRun(dt, bs, x, added, f) /\ Redone(dt, bs, x, added) = f[N]
    BY <1>1, RedoRuns
<1>3. \A i \in 1..N : dt[added[i]].selected_parent = At(i - 1)
    BY <1>1 DEF Rises
<1> DEFINE G == {n \in Nat : n <= N => /\ StandsAt(hs, dt, R, f[n], At(n))
                                       /\ n # 0 => f[n].tip = At(n)}
<1>4. 0 \in G
  <2>1. f[0] = x
    BY <1>1, <1>2 DEF RedoRun
  <2> QED
    BY <2>1
<1>5. ASSUME NEW n \in Nat, n \in G PROVE n + 1 \in G
  <2> SUFFICES ASSUME n + 1 <= N
               PROVE  StandsAt(hs, dt, R, f[n + 1], At(n + 1)) /\ f[n + 1].tip = At(n + 1)
    OBVIOUS
  <2>1. n + 1 \in 0..N /\ n + 1 # 0 /\ (n + 1) - 1 = n /\ n <= N /\ n + 1 \in 1..N
    BY <1>1
  <2> DEFINE b == added[n + 1]
  <2>2. f[n + 1] = ExecuteChainBlock(dt, bs, f[n], b)
    BY <1>2, <2>1 DEF RedoRun
  <2>3. b \in D /\ dt[b].selected_parent = At(n) /\ At(n + 1) = b
    BY <1>1, <1>3, <2>1
  <2>4. StandsAt(hs, dt, R, f[n], At(n))
    BY <1>5, <2>1
  <2>5. /\ StandsAt(hs, dt, R, ExecuteChainBlock(dt, bs, f[n], b), b)
        /\ ExecuteChainBlock(dt, bs, f[n], b).tip = b
    <3> HIDE DEF At, b
    <3> QED
        BY <2>3, <2>4, ExecutesTo
  <2> QED
    BY <2>2, <2>3, <2>5
<1>6. Nat \subseteq G
  <2> HIDE DEF G
  <2> QED
    BY <1>4, <1>5, Counting
<1>7. StandsAt(hs, dt, R, f[N], At(N)) /\ f[N].tip = At(N) /\ At(N) = added[N]
    BY <1>1, <1>6
<1> QED
    BY <1>2, <1>7

(* To a block that is not on the chain where execution stands there is     *)
(* always something to execute.                                            *)
LEMMA ReorgStands ==
    ASSUME NEW hs, NEW dt, Dag(hs, dt), NEW bs, Bodied(hs, bs),
           NEW R, Replays(hs, dt, bs, R), NEW x, NEW a, StandsAt(hs, dt, R, x, a),
           NEW b \in DOMAIN hs, b \notin ChainIn(dt, a),
           ApplyReorg(dt, bs, x, ComputeReorg(dt, a, b)).ok
    PROVE  LET y == ApplyReorg(dt, bs, x, ComputeReorg(dt, a, b)).ex
           IN  StandsAt(hs, dt, R, y, b) /\ y.tip = b
<1> DEFINE reorg == ComputeReorg(dt, a, b)
           undone == Undone(x, reorg.removed)
           redone == Redone(dt, bs, undone.ex, reorg.added)
           D == DOMAIN hs \ {Genesis}
<1>1. undone.ok /\ ApplyReorg(dt, bs, x, reorg).ex = redone
    BY DEF ApplyReorg
<1>2. a \in DOMAIN hs
    BY DEF StandsAt
<1>3. b \in ChainIn(dt, b)
    BY ChainIsInPast DEF Dag, WellFormed
<1>4. PICK c : Leads(hs, dt, a, b, reorg, c)
    BY <1>2, ReorgLeads
<1> HIDE DEF reorg
<1>5. /\ reorg.removed \in Seq(D) /\ Falls(dt, reorg.removed, a, c)
      /\ reorg.added \in Seq(D) /\ Rises(dt, reorg.added, c)
      /\ reorg.added # <<>> => reorg.added[Len(reorg.added)] = b
      /\ b \in Range(reorg.added)
    BY <1>3, <1>4 DEF Leads
<1>6. reorg.added # <<>>
    BY <1>5 DEF Range
<1> HIDE DEF undone
<1>7. StandsAt(hs, dt, R, undone.ex, c)
    BY <1>1, <1>5, UndoneStands DEF undone
<1>8. /\ StandsAt(hs, dt, R, redone, reorg.added[Len(reorg.added)])
      /\ redone.tip = reorg.added[Len(reorg.added)]
    BY <1>5, <1>6, <1>7, RedoneStands
<1> QED
    BY <1>1, <1>5, <1>6, <1>8 DEF reorg

-----------------------------------------------------------------------------
(* When an undo is refused.  The journal has no gaps: its last record is   *)
(* of the block where execution stands, and each one of the selected       *)
(* parent of the next.  Pruning only takes records off its far end.        *)
Unbroken(dt, x, b) ==
    LET j == x.journal
    IN  /\ j # <<>> => j[Len(j)].hash = b
        /\ \A i \in 1..Len(j) - 1 : dt[j[i + 1].hash].selected_parent = j[i].hash

(* No record was ever pruned. *)
Whole(x) == Len(x.journal) = x.height

(* `p` is what is left of the first n entries of `j` without the first k. *)
TailOf(U, j, n, k, p) ==
    p \in Seq(U) /\ Len(p) = n - k /\ \A i \in 1..(n - k) : p[i] = j[k + i]

LEMMA TailGrows ==
    ASSUME NEW U, NEW j \in Seq(U), NEW n \in Nat, n + 1 <= Len(j), NEW k \in 0..n,
           NEW p, TailOf(U, j, n, k, p)
    PROVE  /\ TailOf(U, j, n + 1, k, Append(p, j[n + 1]))
           /\ k = n => TailOf(U, j, n + 1, n + 1, p)
<1> DEFINE e == j[n + 1]
           q == Append(p, e)
<1>1. e \in U /\ p \in Seq(U) /\ Len(p) = n - k /\ \A i \in 1..(n - k) : p[i] = j[k + i]
    BY DEF TailOf
<1> HIDE DEF e
<1>2. /\ q \in Seq(U) /\ Len(q) = Len(p) + 1
      /\ \A i \in 1..Len(p) : q[i] = p[i]
      /\ q[Len(p) + 1] = e
    BY <1>1, AppendProperties
<1> HIDE DEF q
<1>3. ASSUME NEW i \in 1..((n + 1) - k) PROVE q[i] = j[k + i]
  <2>1. CASE i \in 1..(n - k)
    <3>1. q[i] = p[i]
        BY <1>1, <1>2, <2>1
    <3> QED
        BY <1>1, <2>1, <3>1
  <2>2. CASE i = Len(p) + 1
    <3>1. q[i] = j[n + 1]
        BY <1>2, <2>2 DEF e
    <3>2. k + i = n + 1
        BY <1>1, <2>2
    <3> QED
        BY <3>1, <3>2
  <2> QED
    BY <1>1, <2>1, <2>2
<1>4. TailOf(U, j, n + 1, k, q)
  <2>1. Len(q) = (n + 1) - k
    BY <1>1, <1>2
  <2> QED
    BY <1>2, <1>3, <2>1 DEF TailOf
<1>5. k = n => TailOf(U, j, n + 1, n + 1, p)
    BY <1>1 DEF TailOf
<1> QED
    BY <1>4, <1>5 DEF q, e

LEMMA PrunedIsTail ==
    ASSUME NEW U, NEW j \in Seq(U), NEW height \in Nat, \A r \in U : r.height \in Nat,
           \A i \in 1..Len(j) - 1 : j[i].height < j[i + 1].height
    PROVE  \E k \in 0..Len(j) : /\ TailOf(U, j, Len(j), k, Pruned(j, height))
                                /\ k > 0 => j[k].height < height - PruningWindow
<1> DEFINE N == Len(j)
           below == height - PruningWindow
           Cut(n, k, p) == /\ TailOf(U, j, n, k, p)
                           /\ k > 0 => j[k].height < below
                           /\ k < n => j[n].height >= below
<1>1. N \in Nat /\ below \in Int /\ \A i \in 1..N : j[i] \in U /\ j[i].height \in Nat
    BY ExecutorAssumption
<1>2. PICK f : PruneRun(j, height, f) /\ Pruned(j, height) = f[N]
    BY <1>1, PruneRuns
<1> DEFINE G == {n \in Nat : n <= N => \E k \in 0..n : Cut(n, k, f[n])}
<1>3. 0 \in G
  <2>1. f[0] = <<>>
    BY <1>1, <1>2 DEF PruneRun
  <2>2. <<>> \in Seq(U) /\ Len(<<>>) = 0
    OBVIOUS
  <2>3. TailOf(U, j, 0, 0, f[0])
    BY <2>1, <2>2 DEF TailOf
  <2> HIDE DEF below
  <2>4. Cut(0, 0, f[0])
    BY <2>3
  <2>5. \E k \in 0..0 : Cut(0, k, f[0])
    <3> HIDE DEF Cut
    <3> QED
        BY <2>4
  <2> QED
    BY <2>5
<1>4. ASSUME NEW n \in Nat, n \in G PROVE n + 1 \in G
  <2> SUFFICES ASSUME n + 1 <= N PROVE \E k \in 0..(n + 1) : Cut(n + 1, k, f[n + 1])
    OBVIOUS
  <2>1. n + 1 \in 0..N /\ n + 1 # 0 /\ (n + 1) - 1 = n /\ n <= N /\ n + 1 \in 1..N
    BY <1>1
  <2> DEFINE e == j[n + 1]
  <2>2. f[n + 1] = IF e.height >= below THEN Append(f[n], e) ELSE f[n]
    <3>1. f[n + 1] = KeepRecent(f[n], j[n + 1], height - PruningWindow)
        BY <1>2, <2>1 DEF PruneRun
    <3> QED
        BY <3>1 DEF KeepRecent
  <2>3. PICK k \in 0..n : Cut(n, k, f[n])
    BY <1>4, <2>1
  <2> HIDE DEF below
  <2>4. /\ TailOf(U, j, n, k, f[n]) /\ (k > 0 => j[k].height < below)
        /\ (k < n => j[n].height >= below)
    BY <2>3
  <2>5. e.height \in Nat
    BY <1>1, <2>1
  <2>6. CASE e.height >= below
    <3>1. TailOf(U, j, n + 1, k, f[n + 1])
        BY <2>2, <2>4, <2>6, TailGrows
    <3>2. Cut(n + 1, k, f[n + 1]) /\ k \in 0..(n + 1)
        BY <2>4, <2>6, <3>1
    <3> HIDE DEF Cut
    <3> QED
        BY <3>2
  <2>7. CASE ~ (e.height >= below)
    <3>1. k = n
      <4> SUFFICES ASSUME k < n PROVE FALSE
          OBVIOUS
      <4>1. n \in 1..Len(j) - 1 /\ n \in 1..N
          BY <2>1
      <4>2. j[n].height < e.height /\ j[n].height >= below /\ j[n].height \in Nat
          BY <1>1, <2>4, <4>1
      <4> HIDE DEF e
      <4> QED
          BY <1>1, <2>5, <2>7, <4>2
    <3>2. TailOf(U, j, n + 1, n + 1, f[n + 1])
        BY <2>2, <2>4, <2>7, <3>1, TailGrows
    <3>3. e.height < below
      <4> HIDE DEF e
      <4> QED
          BY <1>1, <2>5, <2>7
    <3>4. Cut(n + 1, n + 1, f[n + 1]) /\ n + 1 \in 0..(n + 1)
        BY <3>2, <3>3
    <3> HIDE DEF Cut
    <3> QED
        BY <3>4
  <2> QED
    BY <2>6, <2>7
<1>5. Nat \subseteq G
  <2> HIDE DEF G
  <2> QED
    BY <1>3, <1>4, Counting
<1>6. PICK k \in 0..N : Cut(N, k, f[N])
    BY <1>1, <1>5
<1> QED
    BY <1>2, <1>6

LEMMA UnbrokenExecutes ==
    ASSUME NEW hs, NEW dt, Dag(hs, dt), NEW bs, Bodied(hs, bs),
           NEW R, Replays(hs, dt, bs, R), NEW b \in DOMAIN hs \ {Genesis},
           NEW x, StandsAt(hs, dt, R, x, dt[b].selected_parent),
           Unbroken(dt, x, dt[b].selected_parent)
    PROVE  LET y == ExecuteChainBlock(dt, bs, x, b)
           IN  /\ Unbroken(dt, y, b)
               /\ Whole(x) /\ R[b].height <= PruningWindow => Whole(y)
<1> DEFINE sp == dt[b].selected_parent
           y == ExecuteChainBlock(dt, bs, x, b)
           r == RecordOf(dt, bs, x, b)
           j == Append(x.journal, r)
           N == Len(x.journal)
<1>1. Replayed(hs, dt, R)
    BY ReplayIsFit
<1>2. StandsAt(hs, dt, R, y, b) /\ y.height = x.height + 1 /\ y.journal = Pruned(j, x.height + 1)
    BY ExecutesTo, ExecutedIs
<1>3. PICK V : x.journal \in Seq(V) /\ \A u \in V : GoodRecord(hs, dt, R, u)
    BY DEF StandsAt, GoodJournal
<1>4. N \in Nat /\ x.height \in Nat /\ y.height = R[b].height /\ x.height = R[sp].height
  <2>1. x.height = R[sp].height /\ sp \in DOMAIN hs /\ y.height = R[b].height
    BY <1>2 DEF StandsAt, Same
  <2> QED
    BY <1>1, <1>3, <2>1 DEF Replayed, Fit
<1>5. r.hash = b /\ r.height = x.height + 1
    BY DEF RecordOf
<1> HIDE DEF r, y
<1> DEFINE W == V \cup {r}
<1>6. /\ j \in Seq(W) /\ Len(j) = N + 1 /\ j[N + 1] = r
      /\ \A i \in 1..N : j[i] = x.journal[i] /\ x.journal[i] \in V
    BY <1>3
<1>7. \A u \in W : u.hash \in DOMAIN hs \ {Genesis} /\ u.height = R[u.hash].height /\ u.height \in Nat /\ u.height >= 1
  <2>1. \A u \in W : u.hash \in DOMAIN hs \ {Genesis} /\ u.height = R[u.hash].height
    BY <1>2, <1>3, <1>4, <1>5 DEF GoodRecord
  <2>2. ASSUME NEW c \in DOMAIN hs \ {Genesis} PROVE R[c].height \in Nat /\ R[c].height >= 1
    <3>1. StepsFrom(hs, dt, c, dt[c].selected_parent)
        BY PastSplits
    <3>2. R[dt[c].selected_parent].height \in Nat /\ R[c].height = R[dt[c].selected_parent].height + 1
        BY <1>1, <3>1 DEF Replayed, Above, Fit, StepsFrom
    <3> QED
        BY <3>2
  <2> QED
    BY <2>1, <2>2
<1> HIDE DEF W, j
<1>8. \A i \in 1..N : dt[j[i + 1].hash].selected_parent = j[i].hash
  <2> SUFFICES ASSUME NEW i \in 1..N PROVE dt[j[i + 1].hash].selected_parent = j[i].hash
    OBVIOUS
  <2>1. CASE i = N
    <3>1. x.journal # <<>> /\ j[N] = x.journal[N]
        BY <1>3, <1>4, <1>6, <2>1
    <3>2. x.journal[N].hash = sp
        BY <3>1 DEF Unbroken
    <3> QED
        BY <1>5, <1>6, <2>1, <3>1, <3>2
  <2>2. CASE i # N
    <3>1. i \in 1..Len(x.journal) - 1 /\ i + 1 \in 1..N
        BY <1>4, <2>2
    <3> QED
        BY <1>6, <3>1 DEF Unbroken
  <2> QED
    BY <2>1, <2>2
<1>9. \A i \in 1..Len(j) - 1 : j[i].height < j[i + 1].height
  <2> SUFFICES ASSUME NEW i \in 1..N PROVE j[i].height < j[i + 1].height
    BY <1>4, <1>6
  <2>1. i \in 1..Len(j) /\ i + 1 \in 1..Len(j)
    BY <1>4, <1>6
  <2>2. j[i] \in W /\ j[i + 1] \in W
    BY <1>6, <2>1
  <2> DEFINE c == j[i + 1].hash
             d == j[i].hash
  <2>3. c \in DOMAIN hs \ {Genesis} /\ dt[c].selected_parent = d /\ d \in DOMAIN hs
    BY <1>7, <1>8, <2>2
  <2>4. R[c].height = R[d].height + 1 /\ R[d].height \in Nat
    BY <1>1, <2>3 DEF Replayed, Above, Fit
  <2>5. j[i].height = R[d].height /\ j[i + 1].height = R[c].height
    BY <1>7, <2>2
  <2> QED
    BY <2>4, <2>5
<1> DEFINE M == Len(j)
           p == y.journal
<1>10. PICK k \in 0..M : /\ TailOf(W, j, M, k, p)
                         /\ k > 0 => j[k].height < (x.height + 1) - PruningWindow
  <2> DEFINE H == x.height + 1
  <2>1. H \in Nat /\ \A u \in W : u.height \in Nat
    BY <1>4, <1>7
  <2>2. p = Pruned(j, H)
    BY <1>2
  <2> HIDE DEF H, p
  <2>3. \E k \in 0..Len(j) : /\ TailOf(W, j, Len(j), k, Pruned(j, H))
                             /\ k > 0 => j[k].height < H - PruningWindow
    BY <1>6, <1>9, <2>1, PrunedIsTail
  <2> QED
    BY <2>2, <2>3 DEF H, p
<1>11. M = N + 1 /\ p \in Seq(W) /\ Len(p) = M - k /\ \A i \in 1..(M - k) : p[i] = j[k + i]
    BY <1>6, <1>10 DEF TailOf
<1> HIDE DEF p, M
<1>12. Unbroken(dt, y, b)
  <2>1. p # <<>> => p[Len(p)].hash = b
    <3> SUFFICES ASSUME p # <<>> PROVE p[Len(p)].hash = b
        OBVIOUS
    <3>1. Len(p) \in 1..(M - k) /\ k + Len(p) = N + 1
        BY <1>4, <1>10, <1>11
    <3> QED
        BY <1>5, <1>6, <1>11, <3>1
  <2>2. ASSUME NEW i \in 1..Len(p) - 1 PROVE dt[p[i + 1].hash].selected_parent = p[i].hash
    <3>1. i \in 1..(M - k) /\ i + 1 \in 1..(M - k) /\ k + i \in 1..N /\ k + (i + 1) = (k + i) + 1
        BY <1>4, <1>10, <1>11
    <3>2. p[i] = j[k + i] /\ p[i + 1] = j[k + (i + 1)]
        BY <1>11, <3>1
    <3> QED
        BY <1>8, <3>1, <3>2
  <2> QED
    BY <2>1, <2>2 DEF Unbroken, p
<1>13. ASSUME Whole(x), R[b].height <= PruningWindow PROVE Whole(y)
  <2>1. N = x.height /\ x.height + 1 <= PruningWindow /\ PruningWindow \in Nat
    BY <1>2, <1>4, <1>13, ExecutorAssumption DEF Whole
  <2>2. k = 0
    <3> SUFFICES ASSUME k > 0 PROVE FALSE
        BY <1>4, <1>10, <1>11
    <3>1. k \in 1..Len(j)
        BY <1>10 DEF M
    <3>2. j[k] \in W
        BY <1>6, <3>1
    <3>3. j[k].height \in Nat /\ j[k].height >= 1
        BY <1>7, <3>2
    <3>4. j[k].height < (x.height + 1) - PruningWindow
        BY <1>10
    <3> QED
        BY <1>4, <2>1, <3>3, <3>4
  <2>3. Len(p) = y.height
    BY <1>2, <1>4, <1>11, <2>1, <2>2
  <2> QED
    BY <2>3 DEF Whole, p
<1> QED
    BY <1>12, <1>13 DEF y

LEMMA UnbrokenUndoes ==
    ASSUME NEW hs, NEW dt, NEW R, NEW b, NEW x, StandsAt(hs, dt, R, x, b),
           Unbroken(dt, x, b), x.journal # <<>>
    PROVE  /\ CanUndo(x, b)
           /\ Unbroken(dt, UndoOne(x), dt[b].selected_parent)
           /\ Len(UndoOne(x).journal) = Len(x.journal) - 1
<1> DEFINE j == x.journal
           N == Len(j)
           front == Front(j)
<1>1. PICK U : j \in Seq(U)
    BY DEF StandsAt, GoodJournal
<1>2. N \in Nat /\ N >= 1
    BY <1>1
<1>3. front = SubSeq(j, 1, N - 1)
    BY DEF Front
<1>4. front \in Seq(U) /\ Len(front) = N - 1 /\ \A i \in 1..(N - 1) : front[i] = j[i]
    BY <1>1, <1>2, <1>3
<1>5. UndoOne(x).journal = front
    BY DEF UndoOne
<1> HIDE DEF front
<1>6. /\ j[N].hash = b
      /\ \A i \in 1..N - 1 : dt[j[i + 1].hash].selected_parent = j[i].hash
    BY DEF Unbroken
<1>7. CanUndo(x, b)
    BY <1>6 DEF CanUndo, Last
<1> HIDE DEF j, N
<1>8. front # <<>> => front[Len(front)].hash = dt[b].selected_parent
  <2> SUFFICES ASSUME front # <<>> PROVE front[Len(front)].hash = dt[b].selected_parent
    OBVIOUS
  <2>1. N - 1 \in 1..(N - 1) /\ (N - 1) + 1 = N
    BY <1>2, <1>4
  <2> QED
    BY <1>4, <1>6, <2>1
<1>9. \A i \in 1..Len(front) - 1 : dt[front[i + 1].hash].selected_parent = front[i].hash
  <2> SUFFICES ASSUME NEW i \in 1..Len(front) - 1
               PROVE  dt[front[i + 1].hash].selected_parent = front[i].hash
    OBVIOUS
  <2>1. i \in 1..(N - 1) /\ i + 1 \in 1..(N - 1)
    BY <1>2, <1>4
  <2> QED
    BY <1>4, <1>6, <2>1
<1>10. Unbroken(dt, UndoOne(x), dt[b].selected_parent)
    BY <1>5, <1>8, <1>9 DEF Unbroken
<1>11. Len(UndoOne(x).journal) = N - 1
    BY <1>4, <1>5
<1> QED
    BY <1>7, <1>10, <1>11 DEF N, j

LEMMA UndoneIsUnbroken ==
    ASSUME NEW hs, NEW dt, Dag(hs, dt), NEW bs, Bodied(hs, bs),
           NEW R, Replays(hs, dt, bs, R), NEW a, NEW c,
           NEW removed \in Seq(DOMAIN hs \ {Genesis}), Falls(dt, removed, a, c),
           NEW x, StandsAt(hs, dt, R, x, a), Unbroken(dt, x, a),
           Len(removed) <= Len(x.journal)
    PROVE  LET y == Undone(x, removed)
           IN  /\ y.ok /\ StandsAt(hs, dt, R, y.ex, c) /\ Unbroken(dt, y.ex, c)
               /\ Len(y.ex.journal) = Len(x.journal) - Len(removed)
<1> DEFINE N == Len(removed)
           D == DOMAIN hs \ {Genesis}
           L == Len(x.journal)
           At(n) == Under(dt, removed, a, n)
           Holds(y, n) == /\ y.ok /\ StandsAt(hs, dt, R, y.ex, At(n)) /\ Unbroken(dt, y.ex, At(n))
                          /\ Len(y.ex.journal) = L - n
<1>1. N \in Nat /\ \A i \in 1..N : removed[i] \in D
    OBVIOUS
<1>2. L \in Nat
    BY DEF StandsAt, GoodJournal
<1>3. PICK f : UndoRun(x, removed, f) /\ Undone(x, removed) = f[N]
    BY <1>1, UndoRuns
<1>4. (\A i \in 1..N : removed[i] = At(i - 1)) /\ c = At(N)
    BY DEF Falls
<1> DEFINE G == {n \in Nat : n <= N => Holds(f[n], n)}
<1>5. 0 \in G
  <2>1. f[0] = FirstUndo(x)
    BY <1>1, <1>3 DEF UndoRun
  <2>2. f[0].ok /\ f[0].ex = x /\ At(0) = a
    BY <2>1 DEF FirstUndo, Under
  <2> HIDE DEF At, L
  <2>3. Len(x.journal) = L - 0
    BY <1>2 DEF L
  <2> QED
    BY <2>2, <2>3
<1>6. ASSUME NEW n \in Nat, n \in G PROVE n + 1 \in G
  <2> SUFFICES ASSUME n + 1 <= N PROVE Holds(f[n + 1], n + 1)
    OBVIOUS
  <2>1. n + 1 \in 0..N /\ n + 1 # 0 /\ (n + 1) - 1 = n /\ n <= N /\ n + 1 \in 1..N
    BY <1>1
  <2>2. f[n + 1] = UndoNext(f[n], removed[n + 1])
    BY <1>3, <2>1 DEF UndoRun
  <2> DEFINE b == removed[n + 1]
             z == f[n].ex
  <2>3. b \in D /\ b = At(n) /\ At(n + 1) = dt[b].selected_parent
    BY <1>1, <1>4, <2>1 DEF Under
  <2>4. f[n].ok /\ StandsAt(hs, dt, R, z, b) /\ Unbroken(dt, z, b) /\ Len(z.journal) = L - n
    BY <1>6, <2>1, <2>3
  <2> HIDE DEF b, At, L, z
  <2>5. z.journal # <<>>
    <3>1. Len(z.journal) >= 1
        BY <1>1, <1>2, <2>1, <2>4 DEF L
    <3> QED
        BY <3>1
  <2>6. /\ CanUndo(z, b) /\ Unbroken(dt, UndoOne(z), dt[b].selected_parent)
        /\ Len(UndoOne(z).journal) = Len(z.journal) - 1
    BY <2>4, <2>5, UnbrokenUndoes
  <2>7. StandsAt(hs, dt, R, UndoOne(z), dt[b].selected_parent)
    BY <2>3, <2>4, <2>6, UndoesTo
  <2>8. f[n + 1].ok /\ f[n + 1].ex = UndoOne(z)
    BY <2>2, <2>4, <2>6 DEF UndoNext, b, z
  <2>9. (L - n) - 1 = L - (n + 1)
    BY <1>2
  <2> QED
    BY <2>3, <2>4, <2>6, <2>7, <2>8, <2>9
<1>7. Nat \subseteq G
  <2> HIDE DEF G
  <2> QED
    BY <1>5, <1>6, Counting
<1>8. Holds(f[N], N)
    BY <1>1, <1>7
<1> QED
    BY <1>3, <1>4, <1>8

LEMMA RedoneIsUnbroken ==
    ASSUME NEW hs, NEW dt, Dag(hs, dt), NEW bs, Bodied(hs, bs),
           NEW R, Replays(hs, dt, bs, R), NEW c,
           NEW added \in Seq(DOMAIN hs \ {Genesis}), Rises(dt, added, c), added # <<>>,
           NEW x, StandsAt(hs, dt, R, x, c), Unbroken(dt, x, c)
    PROVE  LET y == Redone(dt, bs, x, added)
           IN  /\ Unbroken(dt, y, added[Len(added)])
               /\ Whole(x) /\ (\A d \in DOMAIN hs : R[d].height <= PruningWindow) => Whole(y)
<1> DEFINE N == Len(added)
           D == DOMAIN hs \ {Genesis}
           At(n) == IF n = 0 THEN c ELSE added[n]
           Young == Whole(x) /\ \A d \in DOMAIN hs : R[d].height <= PruningWindow
           Holds(y, n) == StandsAt(hs, dt, R, y, At(n)) /\ Unbroken(dt, y, At(n)) /\ (Young => Whole(y))
<1>1. N \in Nat /\ N # 0 /\ \A i \in 1..N : added[i] \in D
    OBVIOUS
<1>2. PICK f : RedoRun(dt, bs, x, added, f) /\ Redone(dt, bs, x, added) = f[N]
    BY <1>1, RedoRuns
<1>3. \A i \in 1..N : dt[added[i]].selected_parent = At(i - 1)
    BY <1>1 DEF Rises
<1> DEFINE G == {n \in Nat : n <= N => Holds(f[n], n)}
<1>4. 0 \in G
  <2>1. f[0] = x
    BY <1>1, <1>2 DEF RedoRun
  <2> QED
    BY <2>1
<1>5. ASSUME NEW n \in Nat, n \in G PROVE n + 1 \in G
  <2> SUFFICES ASSUME n + 1 <= N PROVE Holds(f[n + 1], n + 1)
    OBVIOUS
  <2>1. n + 1 \in 0..N /\ n + 1 # 0 /\ (n + 1) - 1 = n /\ n <= N /\ n + 1 \in 1..N
    BY <1>1
  <2> DEFINE b == added[n + 1]
             z == f[n]
             y == ExecuteChainBlock(dt, bs, z, b)
  <2>2. f[n + 1] = y
    BY <1>2, <2>1 DEF RedoRun
  <2>3. b \in D /\ dt[b].selected_parent = At(n) /\ At(n + 1) = b
    BY <1>1, <1>3, <2>1
  <2>4. StandsAt(hs, dt, R, z, At(n)) /\ Unbroken(dt, z, At(n)) /\ (Young => Whole(z))
    BY <1>5, <2>1
  <2> HIDE DEF At, b, z
  <2>5. StandsAt(hs, dt, R, y, b)
    BY <2>3, <2>4, ExecutesTo
  <2>6. Unbroken(dt, y, b) /\ (Whole(z) /\ R[b].height <= PruningWindow => Whole(y))
    BY <2>3, <2>4, UnbrokenExecutes
  <2>7. Young => R[b].height <= PruningWindow
    BY <2>3
  <2> HIDE DEF y, Young
  <2> QED
    BY <2>2, <2>3, <2>4, <2>5, <2>6, <2>7
<1>6. Nat \subseteq G
  <2> HIDE DEF G
  <2> QED
    BY <1>4, <1>5, Counting
<1>7. Holds(f[N], N) /\ At(N) = added[N]
    BY <1>1, <1>6
<1> QED
    BY <1>2, <1>7

(* Undoing takes as many heights off as blocks. *)
LEMMA FallsLower ==
    ASSUME NEW hs, NEW dt, Dag(hs, dt), NEW bs, Bodied(hs, bs),
           NEW R, Replays(hs, dt, bs, R), NEW a \in DOMAIN hs, NEW c,
           NEW removed \in Seq(DOMAIN hs \ {Genesis}), Falls(dt, removed, a, c)
    PROVE  c \in DOMAIN hs /\ R[c].height \in Nat /\ R[a].height = R[c].height + Len(removed)
<1> DEFINE N == Len(removed)
           D == DOMAIN hs \ {Genesis}
           At(n) == Under(dt, removed, a, n)
           Low(d, n) == d \in DOMAIN hs /\ R[a].height = R[d].height + n
           G == {n \in Nat : n <= N => Low(At(n), n)}
<1>1. N \in Nat /\ \A i \in 1..N : removed[i] \in D
    OBVIOUS
<1>2. (\A i \in 1..N : removed[i] = At(i - 1)) /\ c = At(N)
    BY DEF Falls
<1>3. /\ \A d \in DOMAIN hs : R[d].height \in Nat
      /\ \A d \in DOMAIN hs \ {Genesis} : R[d].height = R[dt[d].selected_parent].height + 1
  <2>1. Replayed(hs, dt, R)
    BY ReplayIsFit
  <2> QED
    BY <2>1 DEF Replayed, Above, Fit
<1>4. 0 \in G
  <2>1. At(0) = a
    BY DEF Under
  <2> QED
    BY <1>3, <2>1
<1>5. ASSUME NEW n \in Nat, n \in G PROVE n + 1 \in G
  <2> SUFFICES ASSUME n + 1 <= N PROVE Low(At(n + 1), n + 1)
    OBVIOUS
  <2>1. n + 1 # 0 /\ (n + 1) - 1 = n /\ n <= N /\ n + 1 \in 1..N
    BY <1>1
  <2> DEFINE b == removed[n + 1]
             sp == dt[b].selected_parent
  <2>2. b \in D /\ b = At(n) /\ At(n + 1) = sp
    BY <1>1, <1>2, <2>1 DEF Under
  <2>3. R[a].height = R[b].height + n
    BY <1>5, <2>1, <2>2
  <2>4. sp \in DOMAIN hs /\ R[b].height = R[sp].height + 1
    <3>1. StepsFrom(hs, dt, b, sp)
        BY <2>2, PastSplits
    <3> QED
        BY <1>3, <2>2, <3>1 DEF StepsFrom
  <2> HIDE DEF b, sp, At
  <2>5. R[sp].height \in Nat
    BY <1>3, <2>4
  <2> QED
    BY <2>2, <2>3, <2>4, <2>5
<1>6. Nat \subseteq G
  <2> HIDE DEF G
  <2> QED
    BY <1>4, <1>5, Counting
<1>7. Low(At(N), N)
    BY <1>1, <1>6
<1> QED
    BY <1>2, <1>3, <1>7

(* A reorg no deeper than a journal without gaps succeeds, and leaves one  *)
(* without gaps; where nothing was ever pruned there is no deeper one.     *)
LEMMA ReorgIsUnbroken ==
    ASSUME NEW hs, NEW dt, Dag(hs, dt), NEW bs, Bodied(hs, bs),
           NEW R, Replays(hs, dt, bs, R), NEW x, NEW a, StandsAt(hs, dt, R, x, a),
           Unbroken(dt, x, a), NEW b \in DOMAIN hs, b \notin ChainIn(dt, a),
           NEW reorg, reorg = ComputeReorg(dt, a, b),
           Whole(x) \/ Len(reorg.removed) <= Len(x.journal)
    PROVE  LET applied == ApplyReorg(dt, bs, x, reorg)
           IN  /\ applied.ok /\ Unbroken(dt, applied.ex, b)
               /\ Whole(x) /\ (\A d \in DOMAIN hs : R[d].height <= PruningWindow)
                  => Whole(applied.ex)
<1> DEFINE undone == Undone(x, reorg.removed)
           u == undone.ex
           redone == Redone(dt, bs, u, reorg.added)
           D == DOMAIN hs \ {Genesis}
           N == Len(reorg.removed)
<1>1. a \in DOMAIN hs /\ x.height = R[a].height
    BY DEF StandsAt, Same
<1>2. b \in ChainIn(dt, b)
    BY ChainIsInPast DEF Dag, WellFormed
<1>3. PICK c : Leads(hs, dt, a, b, reorg, c)
    BY <1>1, ReorgLeads
<1>4. /\ reorg.removed \in Seq(D) /\ Falls(dt, reorg.removed, a, c)
      /\ reorg.added \in Seq(D) /\ Rises(dt, reorg.added, c)
      /\ reorg.added # <<>> => reorg.added[Len(reorg.added)] = b
      /\ b \in Range(reorg.added)
    BY <1>2, <1>3 DEF Leads
<1>5. reorg.added # <<>>
    BY <1>4 DEF Range
<1>6. R[c].height \in Nat /\ R[a].height = R[c].height + N
    BY <1>1, <1>4, FallsLower
<1>7. N \in Nat /\ N <= Len(x.journal)
  <2>1. N \in Nat
    BY <1>4
  <2>2. Whole(x) => N <= Len(x.journal)
    <3> HIDE DEF N
    <3> QED
        BY <1>1, <1>6, <2>1 DEF Whole
  <2> QED
    BY <2>1, <2>2
<1>8. /\ undone.ok /\ StandsAt(hs, dt, R, u, c) /\ Unbroken(dt, u, c)
      /\ Len(u.journal) = Len(x.journal) - N
  <2> DEFINE removed == reorg.removed
  <2>1. removed \in Seq(D) /\ Falls(dt, removed, a, c) /\ Len(removed) <= Len(x.journal)
    BY <1>4, <1>7
  <2> HIDE DEF removed
  <2>2. LET y == Undone(x, removed)
        IN  /\ y.ok /\ StandsAt(hs, dt, R, y.ex, c) /\ Unbroken(dt, y.ex, c)
            /\ Len(y.ex.journal) = Len(x.journal) - Len(removed)
    BY <2>1, UndoneIsUnbroken
  <2> QED
    BY <2>2 DEF removed
<1> HIDE DEF undone, u
<1>9. Whole(x) => Whole(u)
  <2>1. u.height = R[c].height
    BY <1>8 DEF StandsAt, Same
  <2> HIDE DEF N
  <2> QED
    BY <1>1, <1>6, <1>7, <1>8, <2>1 DEF Whole
<1>10. /\ Unbroken(dt, redone, reorg.added[Len(reorg.added)])
       /\ Whole(u) /\ (\A d \in DOMAIN hs : R[d].height <= PruningWindow) => Whole(redone)
    BY <1>4, <1>5, <1>8, RedoneIsUnbroken
<1>11. ApplyReorg(dt, bs, x, reorg) = [ok |-> TRUE, ex |-> redone]
    BY <1>8 DEF ApplyReorg, undone, u
<1> HIDE DEF redone
<1> QED
    BY <1>4, <1>5, <1>9, <1>10, <1>11

-----------------------------------------------------------------------------
(* A block more in the DAG changes no replay of the blocks there were.     *)
Extends(hs, dt, bs, hs2, dt2, bs2) ==
    /\ DOMAIN hs \subseteq DOMAIN hs2
    /\ \A c \in DOMAIN hs : dt2[c] = dt[c] /\ bs2[c] = bs[c]

LEMMA ExecutionAgrees ==
    ASSUME NEW hs, NEW dt, Dag(hs, dt), NEW bs, NEW hs2, NEW dt2, NEW bs2,
           Extends(hs, dt, bs, hs2, dt2, bs2), NEW c \in DOMAIN hs, NEW x
    PROVE  ExecuteChainBlock(dt2, bs2, x, c) = ExecuteChainBlock(dt, bs, x, c)
<1> DEFINE base == Append(dt[c].mergeset_ordered, c)
           row(cs, b) == [j \in 1..Len(cs[b]) |-> [miner |-> Miner[b], tx |-> cs[b][j]]]
           rows(cs) == [i \in 1..Len(base) |-> row(cs, base[i])]
<1>1. base \in Seq(DOMAIN hs)
    BY BaseIsTyped DEF Base
<1>2. dt2[c] = dt[c] /\ \A b \in DOMAIN hs : bs2[b] = bs[b]
    BY DEF Extends
<1>3. \A i \in 1..Len(base) : base[i] \in DOMAIN hs
  <2> HIDE DEF base
  <2> QED
    BY <1>1
<1>4. \A b \in DOMAIN hs : row(bs2, b) = row(bs, b)
    BY <1>2
<1>5. rows(bs2) = rows(bs)
  <2> HIDE DEF row, base
  <2> QED
    BY <1>3, <1>4
<1>6. Tagged(dt2, bs2, c) = FlattenSeq(rows(bs2)) /\ Tagged(dt, bs, c) = FlattenSeq(rows(bs))
    BY <1>2 DEF Tagged
<1>7. Tagged(dt2, bs2, c) = Tagged(dt, bs, c)
  <2> HIDE DEF rows
  <2> QED
    BY <1>5, <1>6
<1> QED
    BY <1>7 DEF ExecuteChainBlock

LEMMA ReplayAgrees ==
    ASSUME NEW hs, NEW dt, Dag(hs, dt), NEW bs, NEW hs2, NEW dt2, Dag(hs2, dt2), NEW bs2,
           Extends(hs, dt, bs, hs2, dt2, bs2),
           NEW R, Replays(hs, dt, bs, R), NEW R2, Replays(hs2, dt2, bs2, R2)
    PROVE  \A c \in DOMAIN hs : R2[c] = R[c]
<1> DEFINE D == DOMAIN hs
           h == [c \in D |-> dt[c].topological_height]
           S == {c \in D : R2[c] = R[c]}
<1>1. \A c \in D : h[c] \in Nat
    BY DEF Dag, WellFormed, Layered
<1>2. /\ \A c \in D : R[c] = ReplayStep(dt, bs, R, c)
      /\ \A c \in D : R2[c] = ReplayStep(dt2, bs2, R2, c)
      /\ \A c \in D : dt2[c] = dt[c]
    BY DEF Replays, Extends
<1>3. ASSUME NEW b \in D, \A c \in D : h[c] < h[b] => c \in S
      PROVE  b \in S
  <2>1. CASE b = Genesis
    BY <1>2, <2>1 DEF ReplayStep
  <2>2. CASE b # Genesis
    <3> DEFINE sp == dt[b].selected_parent
    <3>1. StepsFrom(hs, dt, b, sp)
        BY <2>2, PastSplits
    <3>2. sp \in D /\ h[sp] < h[b]
        BY <3>1 DEF StepsFrom
    <3>3. sp \in S
      <4> HIDE DEF S, h, D, sp
      <4> QED
          BY <1>3, <3>2
    <3>4. R2[sp] = R[sp]
        BY <3>3
    <3>5. ExecuteChainBlock(dt2, bs2, R[sp], b) = ExecuteChainBlock(dt, bs, R[sp], b)
        BY ExecutionAgrees
    <3>6. R[b] = ExecuteChainBlock(dt, bs, R[sp], b) /\ R2[b] = ExecuteChainBlock(dt2, bs2, R2[sp], b)
        BY <1>2, <2>2 DEF ReplayStep
    <3> HIDE DEF sp
    <3> QED
        BY <3>4, <3>5, <3>6
  <2> QED
    BY <2>1, <2>2
<1>4. D \subseteq S
  <2>1. \A b \in D : (\A c \in D : h[c] < h[b] => c \in S) => b \in S
    BY <1>3
  <2> HIDE DEF D, h, S
  <2> QED
    BY <1>1, <2>1, HeightInduction
<1> QED
    BY <1>4

LEMMA StandsStill ==
    ASSUME NEW hs, NEW dt, Dag(hs, dt), NEW bs, NEW hs2, NEW dt2, Dag(hs2, dt2), NEW bs2,
           Extends(hs, dt, bs, hs2, dt2, bs2),
           NEW R, Replays(hs, dt, bs, R), NEW R2, Replays(hs2, dt2, bs2, R2),
           NEW x, NEW b, StandsAt(hs, dt, R, x, b)
    PROVE  StandsAt(hs2, dt2, R2, x, b)
<1>1. /\ \A c \in DOMAIN hs : R2[c] = R[c] /\ dt2[c] = dt[c]
      /\ DOMAIN hs \subseteq DOMAIN hs2
    BY ReplayAgrees DEF Extends
<1>2. \A c \in DOMAIN hs \ {Genesis} : dt[c].selected_parent \in DOMAIN hs
    BY PastSplits DEF StepsFrom
<1>3. ASSUME NEW r, GoodRecord(hs, dt, R, r) PROVE GoodRecord(hs2, dt2, R2, r)
  <2>1. r.hash \in DOMAIN hs \ {Genesis}
    BY <1>3 DEF GoodRecord
  <2>2. /\ R2[r.hash] = R[r.hash] /\ dt2[r.hash] = dt[r.hash]
        /\ R2[dt[r.hash].selected_parent] = R[dt[r.hash].selected_parent]
    BY <1>1, <1>2, <2>1
  <2> QED
    BY <1>1, <1>3, <2>1, <2>2 DEF GoodRecord
<1>4. PICK U : x.journal \in Seq(U) /\ \A r \in U : GoodRecord(hs, dt, R, r)
    BY DEF StandsAt, GoodJournal
<1>5. GoodJournal(hs2, dt2, R2, x.journal)
    BY <1>3, <1>4 DEF GoodJournal
<1>6. b \in DOMAIN hs2 /\ Same(x, R2[b])
    BY <1>1 DEF StandsAt
<1> QED
    BY <1>5, <1>6 DEF StandsAt

-----------------------------------------------------------------------------
(* A block on another's selected chain has children, so a head is on no    *)
(* chain but its own.                                                      *)
LEMMA ChainsHaveChildren ==
    ASSUME NEW hs, NEW dt, Dag(hs, dt), NEW b \in DOMAIN hs
    PROVE  \A x \in ChainIn(dt, b) \ {b} : \E d \in DOMAIN hs : x \in hs[d].parents
<1> DEFINE D == DOMAIN hs
           h == [c \in D |-> dt[c].topological_height]
           Born(x) == \E d \in D : x \in hs[d].parents
           S == {c \in D : \A x \in ChainIn(dt, c) \ {c} : Born(x)}
<1>1. \A c \in D : h[c] \in Nat
    BY DEF Dag, WellFormed, Layered
<1>2. ASSUME NEW c \in D, \A d \in D : h[d] < h[c] => d \in S
      PROVE  c \in S
  <2>1. CASE c = Genesis
    <3>1. ChainIn(dt, Genesis) = {Genesis}
        BY BluesOfGenesis
    <3> QED
        BY <2>1, <3>1
  <2>2. CASE c # Genesis
    <3> DEFINE sp == dt[c].selected_parent
    <3>1. StepsFrom(hs, dt, c, sp)
        BY <2>2, PastSplits
    <3>2. /\ sp \in D /\ h[sp] < h[c] /\ sp \in hs[c].parents
          /\ ChainIn(dt, c) = {c} \cup ChainIn(dt, sp)
        BY <3>1 DEF StepsFrom
    <3>3. sp \in S
      <4> HIDE DEF S, h, D, sp
      <4> QED
          BY <1>2, <3>2
    <3>4. Born(sp)
        BY <3>2
    <3> HIDE DEF sp
    <3> QED
        BY <3>2, <3>3, <3>4
  <2> QED
    BY <2>1, <2>2
<1>3. D \subseteq S
  <2>1. \A c \in D : (\A d \in D : h[d] < h[c] => d \in S) => c \in S
    BY <1>2
  <2> HIDE DEF D, h, S
  <2> QED
    BY <1>1, <2>1, HeightInduction
<1> QED
    BY <1>3

LEMMA HeadHasNoChildren ==
    ASSUME DagInv
    PROVE  VirtualSelectedParent \in Present /\ \A d \in Present : VirtualSelectedParent \notin headers[d].parents
<1>1. /\ Weighed(data, Present) /\ IsFiniteSet(Present) /\ Genesis \in Present
      /\ tips = {b \in Present : children[b] = {}}
      /\ \A b \in Present : children[b] \subseteq Present
      /\ \A b, c \in Present : c \in children[b] <=> b \in headers[c].parents
      /\ Layered(headers, data)
    BY DEF DagInv, TypeOK, WellFormed, Worked, Rooted, Present
<1> DEFINE g == [b \in Present |-> data[b].topological_height]
           H == {g[b] : b \in Present}
           m == Max(H)
<1>2. \A b \in Present : g[b] \in Nat
    BY <1>1 DEF Layered, Present
<1>3. \A b \in Present : \A c \in children[b] : c \in Present /\ g[b] < g[c]
    BY <1>1 DEF Layered, Present
<1> HIDE DEF g
<1>4. IsFiniteSet(H)
    BY <1>1, ImageIsFinite
<1>5. H # {} /\ H \subseteq Nat /\ \A b \in Present : g[b] \in H
    BY <1>1, <1>2
<1> HIDE DEF H
<1>6. m \in H /\ m \in Nat /\ \A x \in H : x <= m
    BY <1>4, <1>5, HighestExists
<1> HIDE DEF m
<1>7. PICK b \in Present : g[b] = m
    BY <1>6 DEF H
<1>8. children[b] = {}
  <2> SUFFICES ASSUME NEW c \in children[b] PROVE FALSE
    OBVIOUS
  <2>1. c \in Present /\ m < g[c]
    BY <1>3, <1>7
  <2>2. g[c] <= m /\ g[c] \in Nat
    BY <1>2, <1>5, <1>6, <2>1
  <2> QED
    BY <1>6, <2>1, <2>2
<1>9. tips \subseteq Present /\ tips # {}
    BY <1>1, <1>7, <1>8
<1>10. VirtualSelectedParent \in tips
  <2>1. IsFiniteSet(tips) /\ Weighed(data, tips)
    BY <1>1, <1>9, FS_Subset DEF Weighed
  <2> QED
    BY <1>9, <2>1, HeaviestExists DEF VirtualSelectedParent
<1> QED
    BY <1>1, <1>10

-----------------------------------------------------------------------------
(* The inductive invariant of execution, beside the store's.               *)
Fresh == ReplayOf(headers, data, bodies)

ExecInv ==
    /\ DOMAIN bodies = Present /\ Bodied(headers, bodies)
    /\ StandsAt(headers, data, Fresh, executor, executor.tip)

LEMMA StoreIsDag ==
    ASSUME DagInv
    PROVE  Dag(headers, data) /\ Present \subseteq Hash
BY DEF DagInv, Dag, TypeOK

LEMMA ExecInitEstablishes ==
    ASSUME ExecInit, DagInv
    PROVE  ExecInv
<1>1. DOMAIN headers = {Genesis} /\ bodies = [b \in {Genesis} |-> <<>>] /\ executor = GenesisExecutor
    BY DEF ExecInit, Init
<1>2. DOMAIN bodies = Present /\ Bodied(headers, bodies)
  <2>1. bodies[Genesis] = <<>> /\ DOMAIN bodies = {Genesis}
    BY <1>1
  <2>2. <<>> \in Seq(Tx)
    OBVIOUS
  <2> QED
    BY <1>1, <2>1, <2>2, HashAssumption DEF Bodied, Present
<1>3. Fresh[Genesis] = GenesisExecutor
  <2>1. Replays(headers, data, bodies, Fresh)
    BY StoreIsDag, ReplayRecursion DEF Fresh
  <2> HIDE DEF Fresh
  <2> QED
    BY <1>1, <2>1 DEF Replays, ReplayStep
<1>4. executor.tip = Genesis /\ executor.journal = <<>>
    BY <1>1 DEF GenesisExecutor
<1>5. GoodJournal(headers, data, Fresh, executor.journal)
  <2> DEFINE U == {}
  <2>1. <<>> \in Seq(U) /\ \A r \in U : GoodRecord(headers, data, Fresh, r)
    OBVIOUS
  <2> HIDE DEF U
  <2> QED
    BY <1>4, <2>1 DEF GoodJournal
<1>6. Same(executor, Fresh[Genesis])
    BY <1>1, <1>3 DEF Same
<1> QED
    BY <1>1, <1>2, <1>4, <1>5, <1>6 DEF ExecInv, StandsAt

(* A block the store takes, with its body.                                 *)
LEMMA StoreGrows ==
    ASSUME DOMAIN bodies = Present, Bodied(headers, bodies), DagInv, DagInv',
           NEW b \in Hash, NEW ps \in ParentSets(Present), NEW w \in Work, NEW body \in Seq(Tx),
           AddBlock(b, ps, w), bodies' = Extend(bodies, b, body)
    PROVE  /\ b \notin Present /\ Present' = Present \cup {b}
           /\ Agree(headers, data, headers', data')
           /\ DOMAIN bodies' = Present' /\ Bodied(headers', bodies')
           /\ Dag(headers, data) /\ Dag(headers', data')
           /\ Extends(headers, data, bodies, headers', data', bodies')
           /\ Replays(headers, data, bodies, Fresh) /\ Replays(headers', data', bodies', Fresh')
<1>1. Grows(headers, data, headers', data', b, ps, w)
    BY AddBlockGrows
<1>2. Grown(headers, data, headers', data', b, ps, w)
    BY <1>1, GrowthAgrees DEF DagInv
<1>3. /\ b \notin Present /\ Present' = Present \cup {b}
      /\ \A c \in Present : data'[c] = data[c]
      /\ Agree(headers, data, headers', data')
    BY <1>1, <1>2 DEF Grows, Grown, Agree, Present
<1>4. /\ DOMAIN bodies' = Present' /\ bodies'[b] = body
      /\ \A c \in Present : bodies'[c] = bodies[c]
    BY <1>3 DEF Extend
<1>5. Dag(headers, data)
    BY StoreIsDag
<1>6. Dag(headers', data') /\ Present' \subseteq Hash
    BY DEF DagInv, Dag, TypeOK
<1>7. Bodied(headers', bodies')
    BY <1>3, <1>4, <1>6 DEF Bodied, Present
<1>8. Extends(headers, data, bodies, headers', data', bodies')
    BY <1>3, <1>4 DEF Extends, Present
<1>9. Replays(headers, data, bodies, Fresh) /\ Replays(headers', data', bodies', Fresh')
    BY <1>5, <1>6, ReplayRecursion DEF Fresh
<1> HIDE DEF Fresh
<1> QED
    BY <1>3, <1>4, <1>5, <1>6, <1>7, <1>8, <1>9

(* A block received is in the store with its body; execution stays put.    *)
LEMMA ReceiveKeeps ==
    ASSUME ExecInv, DagInv, DagInv',
           NEW b \in Hash, NEW ps \in ParentSets(Present), NEW w \in Work, NEW body \in Bodies,
           Receive(b, ps, w, body)
    PROVE  ExecInv'
<1>1. AddBlock(b, ps, w) /\ bodies' = Extend(bodies, b, body) /\ executor' = executor
    BY DEF Receive
<1>2. body \in Seq(Tx)
    BY ExecutorAssumption
<1>3. /\ DOMAIN bodies = Present /\ Bodied(headers, bodies)
      /\ StandsAt(headers, data, Fresh, executor, executor.tip)
    BY DEF ExecInv
<1> HIDE DEF Fresh
<1>4. /\ DOMAIN bodies' = Present' /\ Bodied(headers', bodies')
      /\ Dag(headers, data) /\ Dag(headers', data')
      /\ Extends(headers, data, bodies, headers', data', bodies')
      /\ Replays(headers, data, bodies, Fresh) /\ Replays(headers', data', bodies', Fresh')
    BY <1>1, <1>2, <1>3, StoreGrows
<1>5. StandsAt(headers', data', Fresh', executor, executor.tip)
    BY <1>3, <1>4, StandsStill
<1> QED
    BY <1>1, <1>4, <1>5 DEF ExecInv

(* The reorg to the head, which is on no other block's chain. *)
LEMMA AdvanceKeeps ==
    ASSUME ExecInv, DagInv, AdvanceExecution
    PROVE  ExecInv'
<1> DEFINE V == VirtualSelectedParent
           T == executor.tip
<1>1. /\ T # V /\ ApplyReorg(data, bodies, executor, ComputeReorg(data, T, V)).ok
      /\ executor' = ApplyReorg(data, bodies, executor, ComputeReorg(data, T, V)).ex
      /\ UNCHANGED <<vars, bodies>>
    BY DEF AdvanceExecution
<1>2. Dag(headers, data) /\ Bodied(headers, bodies)
    BY StoreIsDag DEF ExecInv
<1>3. Replays(headers, data, bodies, Fresh)
    BY <1>2, ReplayRecursion DEF Fresh
<1>4. StandsAt(headers, data, Fresh, executor, T) /\ T \in Present
    BY DEF ExecInv, StandsAt, Present
<1>5. V \in Present /\ \A d \in Present : V \notin headers[d].parents
    BY HeadHasNoChildren
<1>6. V \notin ChainIn(data, T)
    BY <1>1, <1>2, <1>4, <1>5, ChainsHaveChildren DEF Present
<1> HIDE DEF V, T, Fresh
<1>7. StandsAt(headers, data, Fresh, executor', V) /\ executor'.tip = V
    BY <1>1, <1>2, <1>3, <1>4, <1>5, <1>6, ReorgStands DEF Present
<1>8. headers' = headers /\ data' = data /\ bodies' = bodies /\ Fresh' = Fresh
    BY <1>1 DEF vars, Fresh
<1> QED
    BY <1>7, <1>8 DEF ExecInv, Present

LEMMA ExecutionIsOfADag == ExecSpec => []DagInv
<1>1. ExecInit => Init
    BY DEF ExecInit
<1>2. [ExecNext]_allVars => [Next]_vars
    BY DEF ExecNext, Receive, AdvanceExecution, Next, allVars
<1>3. ExecSpec => Spec
    BY <1>1, <1>2, PTL DEF ExecSpec, Spec
<1> QED
    BY <1>3, DagInvariant, PTL

LEMMA ExecInvariant == ExecSpec => []ExecInv
<1>1. ExecInit /\ DagInv => ExecInv
    BY ExecInitEstablishes
<1>2. ExecInv /\ DagInv /\ DagInv' /\ [ExecNext]_allVars => ExecInv'
  <2> SUFFICES ASSUME ExecInv, DagInv, DagInv', [ExecNext]_allVars PROVE ExecInv'
    OBVIOUS
  <2>1. CASE \E b \in Hash, ps \in ParentSets(Present), w \in Work, body \in Bodies :
                 Receive(b, ps, w, body)
    BY <2>1, ReceiveKeeps
  <2>2. CASE AdvanceExecution
    BY <2>2, AdvanceKeeps
  <2>3. CASE UNCHANGED allVars
    <3>1. headers' = headers /\ data' = data /\ bodies' = bodies /\ executor' = executor
        BY <2>3 DEF allVars, vars
    <3> QED
        BY <3>1 DEF ExecInv, Fresh, Present
  <2> QED
    BY <2>1, <2>2, <2>3 DEF ExecNext
<1> QED
    BY <1>1, <1>2, ExecutionIsOfADag, PTL DEF ExecSpec

(* However many reorgs led to the tip, whatever the undo journal still     *)
(* holds of them, the state, the results and the height are those of a     *)
(* node that executed the tip's selected chain once (apply_reorg, undo_one *)
(* and execute_chain_block of the chain executor).                         *)
THEOREM StateIsReplayed == ExecSpec => []StateIsReplay
<1>1. ExecInv => StateIsReplay
  <2> SUFFICES ASSUME ExecInv PROVE StateIsReplay
    OBVIOUS
  <2>1. Same(executor, Fresh[executor.tip])
    BY DEF ExecInv, StandsAt
  <2>2. Replay(executor.tip) = Fresh[executor.tip]
    BY DEF Replay, Fresh, ReplayOf, Replays, ReplayStep, Present
  <2> HIDE DEF Fresh
  <2> QED
    BY <2>1, <2>2 DEF StateIsReplay, Same
<1> QED
    BY <1>1, ExecInvariant, PTL

(* compute_reorg returns exactly the blocks on which two selected chains   *)
(* differ, each chain's own in the order they are undone or executed.      *)
THEOREM ReorgExact == ExecSpec => []ReorgIsExact
<1>1. DagInv => ReorgIsExact
    BY StoreIsDag, ReorgsAreExact
<1> QED
    BY <1>1, ExecutionIsOfADag, PTL
=============================================================================
