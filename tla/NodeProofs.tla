----------------------------- MODULE NodeProofs -----------------------------
(***************************************************************************)
(* What the node behind the RPC server keeps true, for any blocks, bodies, *)
(* submissions and pool limits, as long as no reorg is deeper than the     *)
(* undo journal: the transaction index is exact, nothing executed is       *)
(* pending, the pool is used as module TxPool says, and the answers a      *)
(* client is given about the chain fit together.                           *)
(*                                                                         *)
(* The journal has no gap, so "deeper" is a matter of length alone; and on *)
(* the development chain, where only mined blocks are added, no block ever *)
(* leaves the chain, so nothing has to be assumed of reorgs.               *)
(*                                                                         *)
(* All of it rests on one fact about replays: a transaction that executed  *)
(* has a nonce its sender's account has passed, then and in every block    *)
(* after, so no chain executes it twice.                                   *)
(***************************************************************************)
EXTENDS Rpc, ChainExecutorProofs

-----------------------------------------------------------------------------
(* Nonces.  What is not an account has nonce 0. *)
NonceOf(state, a) == AccountOf(state, a).nonce

Accountable(state) ==
    \A a \in DOMAIN state : DOMAIN state[a] = {"nonce", "balance"} /\ state[a].nonce \in Nat

LEMMA NonceIsNatural ==
    ASSUME NEW state, Accountable(state), NEW a
    PROVE  NonceOf(state, a) \in Nat /\ DOMAIN AccountOf(state, a) = {"nonce", "balance"}
BY DEF NonceOf, AccountOf, NoAccount, Accountable

LEMMA DebitedNonce ==
    ASSUME NEW state, Accountable(state), NEW s, NEW n
    PROVE  LET new == Debited(state, s, n)
           IN  /\ Accountable(new)
               /\ \A a : NonceOf(new, a) = IF a = s THEN NonceOf(state, a) + 1 ELSE NonceOf(state, a)
<1> DEFINE v == [nonce |-> AccountOf(state, s).nonce + 1, balance |-> AccountOf(state, s).balance - n]
           new == Debited(state, s, n)
<1>1. DOMAIN v = {"nonce", "balance"} /\ v.nonce = NonceOf(state, s) + 1 /\ v.nonce \in Nat
    BY NonceIsNatural DEF NonceOf
<1>2. new = [a \in DOMAIN state \cup {s} |-> IF a = s THEN v ELSE state[a]]
    BY DEF Debited, Extend
<1> HIDE DEF new, v
<1>3. Accountable(new)
    BY <1>1, <1>2 DEF Accountable
<1>4. \A a : AccountOf(new, a) = IF a = s THEN v ELSE AccountOf(state, a)
    BY <1>2 DEF AccountOf
<1> QED
    BY <1>1, <1>3, <1>4 DEF NonceOf, new

LEMMA CreditedNonce ==
    ASSUME NEW state, Accountable(state), NEW s, NEW n
    PROVE  LET new == Credited(state, s, n)
           IN  Accountable(new) /\ \A a : NonceOf(new, a) = NonceOf(state, a)
<1> DEFINE old == AccountOf(state, s)
           v == [old EXCEPT !.balance = @ + n]
           new == Credited(state, s, n)
<1>1. DOMAIN old = {"nonce", "balance"} /\ old.nonce = NonceOf(state, s) /\ old.nonce \in Nat
    BY NonceIsNatural DEF NonceOf
<1>2. new = [a \in DOMAIN state \cup {s} |-> IF a = s THEN v ELSE state[a]]
    BY DEF Credited, Extend
<1> HIDE DEF old
<1>3. DOMAIN v = {"nonce", "balance"} /\ v.nonce = old.nonce
    BY <1>1
<1> HIDE DEF new, v
<1>4. Accountable(new)
    BY <1>1, <1>2, <1>3 DEF Accountable
<1>5. \A a : AccountOf(new, a) = IF a = s THEN v ELSE AccountOf(state, a)
    BY <1>2 DEF AccountOf
<1> QED
    BY <1>1, <1>3, <1>4, <1>5 DEF NonceOf, new

(* Every nonce of `s` from `lo` up to `hi` is one of `done`.               *)
Fills(done, s, lo, hi) ==
    \A n \in Nat : lo <= n /\ n < hi => \E tx \in done : tx.sender = s /\ tx.nonce = n

(* From `old` to `new`, with the transactions `done` executed on the way:  *)
(* no nonce goes back, each of theirs is passed on the way, and no other.  *)
Advances(old, new, done) ==
    /\ Accountable(new)
    /\ \A a : NonceOf(old, a) <= NonceOf(new, a)
    /\ \A tx \in done : /\ tx.nonce \in Nat
                        /\ NonceOf(old, tx.sender) <= tx.nonce /\ tx.nonce < NonceOf(new, tx.sender)
    /\ \A a : Fills(done, a, NonceOf(old, a), NonceOf(new, a))

LEMMA TransactAdvances ==
    ASSUME NEW old, Accountable(old), NEW new, NEW done, Advances(old, new, done),
           NEW tx, NEW miner, Executable(new, tx)
    PROVE  Advances(old, Transact(new, tx, miner), done \cup {tx})
<1> DEFINE d == Debited(new, tx.sender, tx.value + Fee)
           c == Credited(d, tx.to, tx.value)
           t == Credited(c, miner, Fee)
<1>1. /\ Accountable(d)
      /\ \A a : NonceOf(d, a) = IF a = tx.sender THEN NonceOf(new, a) + 1 ELSE NonceOf(new, a)
  <2>1. Accountable(new)
    BY DEF Advances
  <2> QED
    BY <2>1, DebitedNonce
<1> HIDE DEF d
<1>2. Accountable(c) /\ \A a : NonceOf(c, a) = NonceOf(d, a)
    BY <1>1, CreditedNonce
<1> HIDE DEF c
<1>3. Accountable(t) /\ \A a : NonceOf(t, a) = NonceOf(c, a)
    BY <1>2, CreditedNonce
<1>4. Transact(new, tx, miner) = t
    BY DEF Transact, t, c, d
<1> HIDE DEF t
<1>5. \A a : NonceOf(t, a) = IF a = tx.sender THEN NonceOf(new, a) + 1 ELSE NonceOf(new, a)
    BY <1>1, <1>2, <1>3
<1>6. \A a : NonceOf(old, a) \in Nat /\ NonceOf(new, a) \in Nat
    BY NonceIsNatural DEF Advances
<1>7. tx.nonce = NonceOf(new, tx.sender)
    BY DEF Executable, NonceOf
<1>8. \A a : NonceOf(old, a) <= NonceOf(t, a)
    BY <1>5, <1>6 DEF Advances
<1>9. ASSUME NEW e \in done \cup {tx}
      PROVE  e.nonce \in Nat /\ NonceOf(old, e.sender) <= e.nonce /\ e.nonce < NonceOf(t, e.sender)
  <2>1. CASE e = tx
    BY <1>5, <1>6, <1>7, <2>1 DEF Advances
  <2>2. CASE e \in done
    BY <1>5, <1>6, <2>2 DEF Advances
  <2> QED
    BY <2>1, <2>2
<1>10. ASSUME NEW a PROVE Fills(done \cup {tx}, a, NonceOf(old, a), NonceOf(t, a))
  <2> SUFFICES ASSUME NEW n \in Nat, NonceOf(old, a) <= n, n < NonceOf(t, a)
               PROVE  \E e \in done \cup {tx} : e.sender = a /\ e.nonce = n
    BY DEF Fills
  <2>1. CASE n < NonceOf(new, a)
    BY <2>1 DEF Advances, Fills
  <2>2. CASE ~ (n < NonceOf(new, a))
    BY <1>5, <1>6, <1>7, <2>2
  <2> QED
    BY <2>1, <2>2
<1> QED
    BY <1>3, <1>4, <1>8, <1>9, <1>10 DEF Advances

(* A block: what it executes is executed on the way from its selected      *)
(* parent's state to its own, and nothing of it twice.                     *)
Single(s) == \A i, j \in DOMAIN s : s[i] = s[j] => i = j

LEMMA BlockAdvances ==
    ASSUME NEW tagged, NEW order, Len(order) \in Nat, NEW state, Accountable(state)
    PROVE  LET block == ExecuteSequentially(tagged, order, state)
           IN  Advances(state, block.state, ToSet(block.executed)) /\ Single(block.executed)
<1> DEFINE N == Len(order)
<1>1. PICK f : BlockRun(tagged, order, state, f) /\ ExecuteSequentially(tagged, order, state) = f[N]
    BY BlockRuns
<1> DEFINE Fine(b) == \E U : /\ b.executed \in Seq(U) /\ Single(b.executed)
                            /\ Advances(state, b.state, ToSet(b.executed))
           G == {n \in Nat : n <= N => Fine(f[n])}
<1>2. 0 \in G
  <2>1. f[0] = FirstBlock(state)
    BY <1>1 DEF BlockRun
  <2>2. f[0].executed = <<>> /\ f[0].state = state
    BY <2>1 DEF FirstBlock
  <2>3. Advances(state, state, {})
    BY NonceIsNatural DEF Advances, Fills
  <2>4. ToSet(<<>>) = {} /\ <<>> \in Seq(Tx) /\ Single(<<>>)
    BY DEF ToSet, Single
  <2> QED
    BY <2>2, <2>3, <2>4
<1>3. ASSUME NEW n \in Nat, n \in G PROVE n + 1 \in G
  <2> SUFFICES ASSUME n + 1 <= N PROVE Fine(f[n + 1])
    OBVIOUS
  <2> DEFINE t == tagged[order[n + 1]]
             b == f[n]
  <2>1. n + 1 \in 0..N /\ n + 1 # 0 /\ (n + 1) - 1 = n /\ n <= N
    OBVIOUS
  <2>2. f[n + 1] = ExecuteOne(b, t)
    BY <1>1, <2>1 DEF BlockRun
  <2>3. Fine(b)
    BY <1>3, <2>1
  <2> HIDE DEF b, t
  <2>4. CASE b.gasUsed + t.tx.gas <= GasLimit /\ Executable(b.state, t.tx)
    <3>1. /\ f[n + 1].state = Transact(b.state, t.tx, t.miner)
          /\ f[n + 1].executed = Append(b.executed, t.tx)
        BY <2>2, <2>4 DEF ExecuteOne
    <3>2. PICK U : /\ b.executed \in Seq(U) /\ Single(b.executed)
                   /\ Advances(state, b.state, ToSet(b.executed))
        BY <2>3
    <3> DEFINE e == b.executed
               new == Append(e, t.tx)
               V == U \cup {t.tx}
    <3> HIDE DEF e
    <3>3. e \in Seq(V)
        BY <3>2 DEF e
    <3>4. /\ new \in Seq(V) /\ Len(new) = Len(e) + 1 /\ Len(e) \in Nat
          /\ \A i \in 1..Len(e) : new[i] = e[i]
          /\ new[Len(e) + 1] = t.tx
        BY <3>3
    <3>5. ToSet(new) = {new[i] : i \in 1..Len(new)} /\ ToSet(e) = {e[i] : i \in 1..Len(e)}
        BY <3>3, <3>4 DEF ToSet
    <3>9. Single(new)
      <4>1. t.tx \notin ToSet(e)
        <5>1. NonceOf(b.state, t.tx.sender) = t.tx.nonce
            BY <2>4 DEF Executable, NonceOf
        <5>2. \A tx \in ToSet(e) : tx.nonce \in Nat /\ tx.nonce < NonceOf(b.state, tx.sender)
            BY <3>2 DEF Advances, e
        <5> QED
            BY <5>1, <5>2
      <4>2. \A i, j \in 1..Len(e) : e[i] = e[j] => i = j
        BY <3>2, <3>3 DEF Single, e
      <4>3. \A i \in 1..Len(e) : e[i] # t.tx
        BY <3>5, <4>1
      <4>4. DOMAIN new = 1..(Len(e) + 1)
        BY <3>4
      <4> HIDE DEF new
      <4>5. \A i \in DOMAIN new : i \in 1..Len(e) \/ i = Len(e) + 1
        BY <3>4, <4>4
      <4> QED
        BY <3>4, <4>2, <4>3, <4>5 DEF Single
    <3> HIDE DEF new, V
    <3>6. ToSet(new) = ToSet(e) \cup {t.tx}
        BY <3>4, <3>5
    <3>7. Advances(state, f[n + 1].state, ToSet(e) \cup {t.tx})
        BY <2>4, <3>1, <3>2, TransactAdvances DEF e
    <3>8. f[n + 1].executed = new
        BY <3>1 DEF new, e
    <3> QED
        BY <3>4, <3>6, <3>7, <3>8, <3>9
  <2>5. CASE ~ (b.gasUsed + t.tx.gas <= GasLimit /\ Executable(b.state, t.tx))
    <3>1. f[n + 1] = b
        BY <2>2, <2>5 DEF ExecuteOne
    <3> QED
        BY <2>3, <3>1
  <2> QED
    BY <2>4, <2>5
<1>4. Nat \subseteq G
  <2> HIDE DEF G
  <2> QED
    BY <1>2, <1>3, Counting
<1>5. Fine(f[N])
    BY <1>4
<1> QED
    BY <1>1, <1>5


-----------------------------------------------------------------------------
(* The ledger of a chain.  What a block of it recorded. *)
Own(R, c) == R[c].results[R[c].height]

Did(R, c) == ToSet(Own(R, c).executed)

(* `y` is `x` with block `b` executed. *)
OneMore(x, y, b) ==
    /\ y.height = x.height + 1
    /\ y.results[y.height].hash = b
    /\ DOMAIN y.results = 0..y.height
    /\ \A n \in 0..x.height : y.results[n] = x.results[n]
    /\ Accountable(x.state) => Advances(x.state, y.state, ToSet(y.results[y.height].executed))

LEMMA ExecutedIsOneMore ==
    ASSUME NEW hs, NEW dt, Dag(hs, dt), NEW bs, Bodied(hs, bs), NEW b \in DOMAIN hs,
           NEW x, Fit(x)
    PROVE  OneMore(x, ExecuteChainBlock(dt, bs, x, b), b)
<1> DEFINE tagged == Deduplicated(Tagged(dt, bs, b))
           order == LayerAndSort(tagged)
           block == ExecuteSequentially(tagged, order, x.state)
           entry == [hash |-> b, executed |-> block.executed, state_root |-> block.state]
           y == ExecuteChainBlock(dt, bs, x, b)
<1>1. tagged \in Seq(Item)
    BY TaggedIsTyped, DeduplicatedIsTyped
<1>2. Len(order) \in Nat
  <2> HIDE DEF tagged
  <2> QED
    BY <1>1, OrderHasLength
<1>3. y.state = block.state /\ y.height = x.height + 1 /\ y.results = Extend(x.results, x.height + 1, entry)
    BY DEF ExecuteChainBlock
<1> HIDE DEF tagged, order, y
<1>4. Accountable(x.state) => Advances(x.state, block.state, ToSet(block.executed))
    BY <1>2, BlockAdvances
<1>5. entry.hash = b /\ entry.executed = block.executed
    OBVIOUS
<1> HIDE DEF block, entry
<1>6. x.height \in Nat /\ DOMAIN x.results = 0..x.height
    BY DEF Fit
<1>7. /\ DOMAIN y.results = (0..x.height) \cup {x.height + 1}
      /\ y.results[y.height] = entry
      /\ \A n \in 0..x.height : y.results[n] = x.results[n]
    BY <1>3, <1>6 DEF Extend
<1>8. (0..x.height) \cup {x.height + 1} = 0..(x.height + 1)
    BY <1>6
<1> QED
    BY <1>3, <1>4, <1>5, <1>7, <1>8 DEF OneMore, y

(* Along the chain of `b`, of which `R` is the replay: each height is one  *)
(* block's, with what that block recorded; whatever a block executed is    *)
(* behind its sender, and no other block executed it.                      *)
Ledger(dt, R, b) ==
    /\ Accountable(R[b].state)
    /\ R[b].height \in Nat /\ DOMAIN R[b].results = 0..R[b].height
    /\ Own(R, b).hash = b
    /\ \A c \in ChainIn(dt, b) :
           /\ R[c].height \in 0..R[b].height
           /\ \A n \in 0..R[c].height : R[b].results[n] = R[c].results[n]
           /\ Own(R, c).hash = c
           /\ c # Genesis <=> R[c].height # 0
    /\ \A n \in 0..R[b].height : \E c \in ChainIn(dt, b) : R[c].height = n
    /\ \A c \in ChainIn(dt, b) \ {Genesis} : \A tx \in Did(R, c) :
           tx.nonce \in Nat /\ tx.nonce < NonceOf(R[b].state, tx.sender)
    /\ \A c, d \in ChainIn(dt, b) \ {Genesis} : \A tx \in Did(R, c) : tx \in Did(R, d) => c = d

LEMMA LedgerGrows ==
    ASSUME NEW dt, NEW R, NEW a, NEW b, Ledger(dt, R, a), a \in ChainIn(dt, a),
           ChainIn(dt, b) = {b} \cup ChainIn(dt, a), b \notin ChainIn(dt, a),
           b # Genesis, OneMore(R[a], R[b], b)
    PROVE  Ledger(dt, R, b)
<1>1. /\ Accountable(R[a].state) /\ R[a].height \in Nat
      /\ R[b].height = R[a].height + 1 /\ R[b].results[R[b].height].hash = b
      /\ DOMAIN R[b].results = 0..R[b].height
      /\ \A n \in 0..R[a].height : R[b].results[n] = R[a].results[n]
      /\ Advances(R[a].state, R[b].state, Did(R, b))
    BY DEF Ledger, OneMore, Did, Own
<1>2. /\ \A c \in ChainIn(dt, a) :
           /\ R[c].height \in 0..R[a].height
           /\ \A n \in 0..R[c].height : R[a].results[n] = R[c].results[n]
           /\ Own(R, c).hash = c
           /\ c # Genesis <=> R[c].height # 0
      /\ \A n \in 0..R[a].height : \E c \in ChainIn(dt, a) : R[c].height = n
    BY DEF Ledger
<1>3. R[b].height \in Nat /\ R[b].height # 0 /\ Own(R, b).hash = b
    BY <1>1 DEF Own
<1>4. ASSUME NEW c \in ChainIn(dt, b)
      PROVE  /\ R[c].height \in 0..R[b].height
             /\ \A n \in 0..R[c].height : R[b].results[n] = R[c].results[n]
             /\ Own(R, c).hash = c
             /\ c # Genesis <=> R[c].height # 0
  <2>1. CASE c = b
    BY <1>3, <2>1
  <2>2. CASE c \in ChainIn(dt, a)
    <3>1. R[c].height \in 0..R[a].height
        BY <1>2, <2>2
    <3>2. R[c].height \in 0..R[b].height /\ \A n \in 0..R[c].height : n \in 0..R[a].height
        BY <1>1, <3>1
    <3> QED
        BY <1>1, <1>2, <2>2, <3>2
  <2> QED
    BY <2>1, <2>2
<1>5. ASSUME NEW n \in 0..R[b].height PROVE \E c \in ChainIn(dt, b) : R[c].height = n
  <2>1. CASE n = R[b].height
    BY <2>1
  <2>2. CASE n # R[b].height
    <3>1. n \in 0..R[a].height
        BY <1>1, <2>2
    <3> QED
        BY <1>2, <3>1
  <2> QED
    BY <2>1, <2>2
<1>6. \A x : NonceOf(R[a].state, x) \in Nat /\ NonceOf(R[b].state, x) \in Nat
    BY <1>1, NonceIsNatural DEF Advances
<1>7. \A c \in ChainIn(dt, a) \ {Genesis} : \A tx \in Did(R, c) :
          tx.nonce \in Nat /\ tx.nonce < NonceOf(R[a].state, tx.sender)
    BY DEF Ledger
<1>8. ASSUME NEW c \in ChainIn(dt, b) \ {Genesis}, NEW tx \in Did(R, c)
      PROVE  tx.nonce \in Nat /\ tx.nonce < NonceOf(R[b].state, tx.sender)
  <2>1. CASE c = b
    BY <1>1, <2>1 DEF Advances
  <2>2. CASE c \in ChainIn(dt, a)
    <3>1. tx.nonce \in Nat /\ tx.nonce < NonceOf(R[a].state, tx.sender)
        BY <1>7, <2>2
    <3>2. NonceOf(R[a].state, tx.sender) <= NonceOf(R[b].state, tx.sender)
        BY <1>1 DEF Advances
    <3> QED
        BY <1>6, <3>1, <3>2
  <2> QED
    BY <2>1, <2>2
<1>9. ASSUME NEW c \in ChainIn(dt, a) \ {Genesis}, NEW tx \in Did(R, c)
      PROVE  tx \notin Did(R, b)
  <2>1. tx.nonce \in Nat /\ tx.nonce < NonceOf(R[a].state, tx.sender)
    BY <1>7
  <2>2. tx \in Did(R, b) => NonceOf(R[a].state, tx.sender) <= tx.nonce
    BY <1>1 DEF Advances
  <2> QED
    BY <1>6, <2>1, <2>2
<1>10. \A c, d \in ChainIn(dt, a) \ {Genesis} : \A tx \in Did(R, c) : tx \in Did(R, d) => c = d
    BY DEF Ledger
<1>11. \A c, d \in ChainIn(dt, b) \ {Genesis} : \A tx \in Did(R, c) : tx \in Did(R, d) => c = d
    BY <1>9, <1>10
<1> QED
    BY <1>1, <1>3, <1>4, <1>5, <1>8, <1>11 DEF Ledger, Advances

LEMMA LedgersHold ==
    ASSUME NEW hs, NEW dt, Dag(hs, dt), NEW bs, Bodied(hs, bs), NEW R, Replays(hs, dt, bs, R)
    PROVE  \A b \in DOMAIN hs : Ledger(dt, R, b)
<1> DEFINE D == DOMAIN hs
           h == [c \in D |-> dt[c].topological_height]
           S == {c \in D : Ledger(dt, R, c)}
<1>1. \A c \in D : h[c] \in Nat
    BY DEF Dag, WellFormed, Layered
<1>2. /\ \A c \in D \ {Genesis} : R[c] = ExecuteChainBlock(dt, bs, R[dt[c].selected_parent], c)
      /\ Genesis \in D => R[Genesis] = GenesisExecutor
    BY DEF Replays, ReplayStep
<1>3. \A c \in D : Fit(R[c])
    BY ReplayIsFit DEF Replayed
<1>4. ASSUME NEW b \in D, \A c \in D : h[c] < h[b] => c \in S
      PROVE  b \in S
  <2>1. CASE b = Genesis
    <3>1. ChainIn(dt, Genesis) = {Genesis}
        BY BluesOfGenesis
    <3>2. /\ R[Genesis].state = GenesisState /\ R[Genesis].height = 0
          /\ R[Genesis].results = [n \in {0} |-> [hash |-> Genesis, executed |-> <<>>,
                                                  state_root |-> GenesisState]]
        BY <1>2, <2>1 DEF GenesisExecutor
    <3>3. Accountable(GenesisState)
      <4>1. PICK allocated \in SUBSET Account : GenesisState \in [allocated -> [nonce : Nat, balance : Nat]]
        BY ExecutorAssumption
      <4>2. \A v \in [nonce : Nat, balance : Nat] : DOMAIN v = {"nonce", "balance"} /\ v.nonce \in Nat
        OBVIOUS
      <4> QED
        BY <4>1, <4>2 DEF Accountable
    <3>4. Own(R, Genesis).hash = Genesis /\ DOMAIN R[Genesis].results = 0..0
        BY <3>2 DEF Own
    <3>5. Accountable(R[Genesis].state) /\ R[Genesis].height = 0 /\ 0..R[Genesis].height = {0}
        BY <3>2, <3>3
    <3>6. /\ \A c \in ChainIn(dt, Genesis) : c = Genesis
          /\ \A c \in ChainIn(dt, Genesis) \ {Genesis} : FALSE
          /\ Genesis \in ChainIn(dt, Genesis)
        BY <3>1
    <3>7. Ledger(dt, R, Genesis)
        BY <3>4, <3>5, <3>6 DEF Ledger
    <3> QED
        BY <2>1, <3>7
  <2>2. CASE b # Genesis
    <3> DEFINE sp == dt[b].selected_parent
    <3>1. StepsFrom(hs, dt, b, sp)
        BY <2>2, PastSplits
    <3>2. sp \in D /\ h[sp] < h[b] /\ ChainIn(dt, b) = {b} \cup ChainIn(dt, sp)
        BY <3>1 DEF StepsFrom
    <3>3. Ledger(dt, R, sp)
      <4>1. sp \in S
        <5> HIDE DEF S, h, D, sp
        <5> QED
            BY <1>4, <3>2
      <4> QED
        BY <4>1
    <3>4. sp \in ChainIn(dt, sp) /\ b \notin ChainIn(dt, sp)
      <4>1. sp \in ChainIn(dt, sp) /\ ChainIn(dt, sp) \subseteq {sp} \cup PastIn(hs)[sp]
        BY <3>2, ChainIsInPast DEF Dag, WellFormed
      <4>2. b \notin PastIn(hs)[b] /\ {sp} \cup PastIn(hs)[sp] \subseteq PastIn(hs)[b]
        BY <3>1 DEF StepsFrom
      <4> HIDE DEF sp
      <4> QED
        BY <4>1, <4>2
    <3>5. OneMore(R[sp], R[b], b)
        BY <1>2, <1>3, <2>2, <3>2, ExecutedIsOneMore
    <3> HIDE DEF sp
    <3>6. Ledger(dt, R, b)
        BY <2>2, <3>2, <3>3, <3>4, <3>5, LedgerGrows
    <3> QED
        BY <3>6
  <2> QED
    BY <2>1, <2>2
<1>5. D \subseteq S
  <2>1. \A b \in D : (\A c \in D : h[c] < h[b] => c \in S) => b \in S
    BY <1>4
  <2> HIDE DEF D, h, S
  <2> QED
    BY <1>1, <2>1, HeightInduction
<1> QED
    BY <1>5


-----------------------------------------------------------------------------
(* The transaction index of the chain of `b`: its transactions, each where *)
(* it executed.                                                            *)
Placed(R, at, tx, c) ==
    /\ tx \in Did(R, c)
    /\ at.height = R[c].height /\ at.chain_block = c
    /\ at.index \in DOMAIN Own(R, c).executed /\ Own(R, c).executed[at.index] = tx

IndexOf(dt, R, index, b) ==
    /\ \A tx : tx \in DOMAIN index <=> \E c \in ChainIn(dt, b) \ {Genesis} : tx \in Did(R, c)
    /\ \A tx \in DOMAIN index : \E c \in ChainIn(dt, b) \ {Genesis} : Placed(R, index[tx], tx, c)

(* The heights whose results are those of the blocks `added`. *)
HeightsOf(results, added) == {h \in DOMAIN results : results[h].hash \in added}

ExecutedAt(results, heights) == UNION {ToSet(results[h].executed) : h \in heights}

LEMMA AddedHeights ==
    ASSUME NEW dt, NEW R, NEW b, Ledger(dt, R, b), NEW added \in SUBSET ChainIn(dt, b)
    PROVE  LET heights == HeightsOf(R[b].results, added)
           IN  /\ \A c \in added : R[c].height \in heights /\ R[b].results[R[c].height] = Own(R, c)
               /\ \A h \in heights : \E c \in added : h = R[c].height
               /\ \A tx : tx \in ExecutedAt(R[b].results, heights) <=> \E c \in added : tx \in Did(R, c)
<1> DEFINE results == R[b].results
           heights == HeightsOf(results, added)
<1>1. /\ DOMAIN results = 0..R[b].height
      /\ \A c \in ChainIn(dt, b) : /\ R[c].height \in 0..R[b].height
                                   /\ R[c].height \in 0..R[c].height
                                   /\ \A n \in 0..R[c].height : results[n] = R[c].results[n]
                                   /\ Own(R, c).hash = c
      /\ \A n \in 0..R[b].height : \E c \in ChainIn(dt, b) : R[c].height = n
    BY DEF Ledger
<1>2. \A c \in ChainIn(dt, b) : results[R[c].height] = Own(R, c)
    BY <1>1 DEF Own
<1> HIDE DEF results
<1>3. \A c \in added : R[c].height \in heights /\ results[R[c].height] = Own(R, c)
    BY <1>1, <1>2 DEF HeightsOf
<1>4. ASSUME NEW n \in heights PROVE \E c \in added : n = R[c].height
  <2>1. n \in 0..R[b].height /\ results[n].hash \in added
    BY <1>1 DEF HeightsOf
  <2>2. PICK c \in ChainIn(dt, b) : R[c].height = n
    BY <1>1, <2>1
  <2>3. results[n].hash = c
    BY <1>1, <1>2, <2>2
  <2> QED
    BY <2>1, <2>2, <2>3
<1>5. \A tx : tx \in ExecutedAt(results, heights) <=> \E c \in added : tx \in Did(R, c)
  <2> HIDE DEF heights
  <2>1. \A tx : tx \in ExecutedAt(results, heights) <=> \E n \in heights : tx \in ToSet(results[n].executed)
    BY DEF ExecutedAt
  <2>2. \A c \in added : Did(R, c) = ToSet(results[R[c].height].executed)
    BY <1>3 DEF Did
  <2> QED
    BY <1>3, <1>4, <2>1, <2>2
<1> QED
    BY <1>3, <1>4, <1>5 DEF results

(* What Indexed adds to an index: each new transaction, at its block.      *)
Adds(R, added, old, new) ==
    /\ \A tx : tx \in DOMAIN new <=> tx \in DOMAIN old \/ \E c \in added : tx \in Did(R, c)
    /\ \A c \in added : \A tx \in Did(R, c) : Placed(R, new[tx], tx, c)
    /\ \A tx \in DOMAIN old : (\A c \in added : tx \notin Did(R, c)) => new[tx] = old[tx]

LEMMA IndexedPlaces ==
    ASSUME NEW dt, NEW R, NEW b, Ledger(dt, R, b), NEW added \in SUBSET (ChainIn(dt, b) \ {Genesis}),
           NEW index, NEW ex, ex.results = R[b].results
    PROVE  Adds(R, added, index, Indexed(index, ex, HeightsOf(ex.results, added)))
<1> DEFINE results == ex.results
           heights == HeightsOf(results, added)
           executed == ExecutedAt(results, heights)
           At(tx) == {i \in heights : tx \in ToSet(results[i].executed)}
           entry(tx) == [height |-> Max(At(tx)), chain_block |-> results[Max(At(tx))].hash,
                         index |-> CHOOSE i \in DOMAIN results[Max(At(tx))].executed :
                                       results[Max(At(tx))].executed[i] = tx]
           new == Indexed(index, ex, heights)
<1>1. new = Over([tx \in executed |-> entry(tx)], index)
    BY DEF Indexed, ExecutedAt
<1>2. /\ \A c \in added : R[c].height \in heights /\ results[R[c].height] = Own(R, c)
      /\ \A h \in heights : \E c \in added : h = R[c].height
      /\ \A tx : tx \in executed <=> \E c \in added : tx \in Did(R, c)
    BY AddedHeights
<1>3. /\ \A c \in added : R[c].height \in Nat /\ Own(R, c).hash = c
      /\ \A c, d \in added : \A tx \in Did(R, c) : tx \in Did(R, d) => c = d
  <2>1. R[b].height \in Nat /\ \A c \in ChainIn(dt, b) : R[c].height \in 0..R[b].height /\ Own(R, c).hash = c
    BY DEF Ledger
  <2>2. \A c, d \in ChainIn(dt, b) \ {Genesis} : \A tx \in Did(R, c) : tx \in Did(R, d) => c = d
    BY DEF Ledger
  <2> QED
    BY <2>1, <2>2
<1> HIDE DEF heights, executed, results
<1>4. ASSUME NEW c \in added, NEW tx \in Did(R, c)
      PROVE  Placed(R, entry(tx), tx, c)
  <2>1. At(tx) = {R[c].height}
    <3>1. R[c].height \in At(tx)
        BY <1>2 DEF Did
    <3>2. ASSUME NEW h \in At(tx) PROVE h = R[c].height
      <4>1. PICK d \in added : h = R[d].height
        BY <1>2
      <4>2. tx \in Did(R, d)
        BY <1>2, <4>1 DEF Did
      <4> QED
        BY <1>3, <4>1, <4>2
    <3> QED
        BY <3>1, <3>2
  <2>2. Max(At(tx)) = R[c].height
    <3>1. R[c].height \in Nat
        BY <1>3
    <3> HIDE DEF At
    <3> QED
        BY <2>1, <3>1 DEF Max
  <2>3. entry(tx) = [height |-> R[c].height, chain_block |-> c,
                     index |-> CHOOSE i \in DOMAIN Own(R, c).executed : Own(R, c).executed[i] = tx]
    <3>1. results[Max(At(tx))] = Own(R, c) /\ Own(R, c).hash = c
        BY <1>2, <1>3, <2>2
    <3> HIDE DEF At
    <3> QED
        BY <2>2, <3>1
  <2>4. \E i \in DOMAIN Own(R, c).executed : Own(R, c).executed[i] = tx
    BY DEF Did, ToSet
  <2> HIDE DEF entry
  <2> QED
    BY <2>3, <2>4 DEF Placed
<1> HIDE DEF entry
<1>5. /\ DOMAIN new = executed \cup DOMAIN index
      /\ \A tx \in executed : new[tx] = entry(tx)
      /\ \A tx \in DOMAIN index : tx \notin executed => new[tx] = index[tx]
    BY <1>1 DEF Over
<1> HIDE DEF new
<1>6. \A c \in added : \A tx \in Did(R, c) : Placed(R, new[tx], tx, c)
    BY <1>2, <1>4, <1>5
<1>7. Adds(R, added, index, new)
    BY <1>2, <1>5, <1>6 DEF Adds
<1> QED
    BY <1>7 DEF new, heights, results

(* The index through a reorg: trimmed of what leaves the chain, extended   *)
(* by what joins it.                                                       *)
LEMMA IndexFollows ==
    ASSUME NEW dt, NEW R, NEW a, Ledger(dt, R, a), NEW b, Ledger(dt, R, b),
           NEW index, IndexOf(dt, R, index, a), NEW ex, ex.results = R[b].results,
           Genesis \in ChainIn(dt, a), Genesis \in ChainIn(dt, b),
           NEW removed, removed = ChainIn(dt, a) \ ChainIn(dt, b),
           NEW added, added = ChainIn(dt, b) \ ChainIn(dt, a)
    PROVE  IndexOf(dt, R, Indexed(Retained(index, removed), ex, HeightsOf(ex.results, added)), b)
<1> DEFINE A == ChainIn(dt, a) \ {Genesis}
           B == ChainIn(dt, b) \ {Genesis}
           kept == Retained(index, removed)
           new == Indexed(kept, ex, HeightsOf(ex.results, added))
<1>1. added \in SUBSET B /\ added = B \ A /\ \A c : c \in B <=> c \in added \/ (c \in A /\ c \in B)
    OBVIOUS
<1>2. Adds(R, added, kept, new)
    BY <1>1, IndexedPlaces
<1> HIDE DEF new
<1>3. /\ \A tx : tx \in DOMAIN index <=> \E c \in A : tx \in Did(R, c)
      /\ \A tx \in DOMAIN index : \E c \in A : Placed(R, index[tx], tx, c)
    BY DEF IndexOf
<1>4. /\ DOMAIN kept = {tx \in DOMAIN index : index[tx].chain_block \notin removed}
      /\ \A tx \in DOMAIN kept : kept[tx] = index[tx]
    BY DEF Retained, Restrict
<1>5. /\ \A c, d \in A : \A tx \in Did(R, c) : tx \in Did(R, d) => c = d
      /\ \A c, d \in B : \A tx \in Did(R, c) : tx \in Did(R, d) => c = d
    BY DEF Ledger
<1>6. \A c \in A : c \in removed <=> c \notin B
    OBVIOUS
<1> HIDE DEF kept, A, B
<1>7. ASSUME NEW tx \in DOMAIN kept PROVE \E c \in A : c \in B /\ Placed(R, kept[tx], tx, c)
  <2>1. tx \in DOMAIN index /\ kept[tx] = index[tx] /\ index[tx].chain_block \notin removed
    BY <1>4
  <2>2. PICK c \in A : Placed(R, index[tx], tx, c)
    BY <1>3, <2>1
  <2>3. c \in B
    BY <1>6, <2>1, <2>2 DEF Placed
  <2> QED
    BY <2>1, <2>2, <2>3
<1>8. ASSUME NEW c \in A, c \in B, NEW tx \in Did(R, c) PROVE tx \in DOMAIN kept
  <2>1. tx \in DOMAIN index
    BY <1>3
  <2>2. PICK d \in A : Placed(R, index[tx], tx, d)
    BY <1>3, <2>1
  <2>3. d = c
    BY <1>5, <2>2 DEF Placed
  <2> QED
    BY <1>4, <1>6, <1>8, <2>1, <2>2, <2>3 DEF Placed
<1>9. \A tx : tx \in DOMAIN new <=> \E c \in B : tx \in Did(R, c)
  <2>1. ASSUME NEW tx \in DOMAIN new PROVE \E c \in B : tx \in Did(R, c)
    BY <1>1, <1>2, <1>7 DEF Placed, Adds
  <2>2. ASSUME NEW c \in B, NEW tx \in Did(R, c) PROVE tx \in DOMAIN new
    BY <1>1, <1>2, <1>8 DEF Adds
  <2> QED
    BY <2>1, <2>2
<1>10. ASSUME NEW tx \in DOMAIN new PROVE \E c \in B : Placed(R, new[tx], tx, c)
  <2>1. CASE \E c \in added : tx \in Did(R, c)
    BY <1>1, <1>2, <2>1 DEF Adds
  <2>2. CASE \A c \in added : tx \notin Did(R, c)
    <3>1. tx \in DOMAIN kept /\ new[tx] = kept[tx]
        BY <1>2, <2>2 DEF Adds
    <3> QED
        BY <1>7, <3>1
  <2> QED
    BY <2>1, <2>2
<1> QED
    BY <1>9, <1>10 DEF IndexOf, B, new, kept


(* A larger DAG has the same index for a chain it had.                     *)
LEMMA IndexStays ==
    ASSUME NEW hs, NEW dt, NEW b \in DOMAIN hs, NEW R, NEW hs2, NEW dt2, NEW R2, NEW index,
           Layered(hs, dt), Agree(hs, dt, hs2, dt2), \A c \in DOMAIN hs : R2[c] = R[c],
           IndexOf(dt, R, index, b)
    PROVE  IndexOf(dt2, R2, index, b)
<1>1. ChainIn(dt2, b) = ChainIn(dt, b)
    BY DEF Agree
<1>2. ChainIn(dt, b) \subseteq DOMAIN hs
  <2>1. ChainIn(dt, b) \subseteq {b} \cup PastIn(hs)[b] /\ PastIn(hs)[b] \subseteq DOMAIN hs
    BY ChainIsInPast, PastIsClosed DEF Layered
  <2> QED
    BY <2>1
<1>3. \A c \in ChainIn(dt, b) : R2[c] = R[c]
    BY <1>2
<1>4. \A c \in ChainIn(dt, b) : Own(R2, c) = Own(R, c) /\ Did(R2, c) = Did(R, c)
    BY <1>3 DEF Own, Did
<1>5. \A c \in ChainIn(dt, b) : \A tx, at : Placed(R2, at, tx, c) <=> Placed(R, at, tx, c)
    BY <1>3, <1>4 DEF Placed
<1> QED
    BY <1>1, <1>4, <1>5 DEF IndexOf

-----------------------------------------------------------------------------
(* The pool, as far as the node depends on it; a slot has its own sender   *)
(* and nonce in it.                                                        *)
Slotted(p) ==
    \A s \in DOMAIN p.by_sender : \A n \in DOMAIN p.by_sender[s] :
        p.by_sender[s][n].sender = s /\ p.by_sender[s][n].nonce = n

PoolShape(p) ==
    /\ DOMAIN p = {"by_hash", "by_sender", "sequence"}
    /\ Pool!Pooled(p) \subseteq Tx /\ IsFiniteSet(Pool!Pooled(p))
    /\ p.sequence \in Nat /\ \A tx \in Pool!Pooled(p) : p.by_hash[tx] \in Nat
    /\ Slotted(p)

LEMMA RemovedPool ==
    ASSUME NEW p, PoolShape(p), NEW gone
    PROVE  /\ PoolShape(Pool!Removed(p, gone))
           /\ Pool!Pooled(Pool!Removed(p, gone)) = Pool!Pooled(p) \ gone
<1> DEFINE r == Pool!Removed(p, gone)
<1>1. DOMAIN r = {"by_hash", "by_sender", "sequence"}
    BY DEF Pool!Removed, PoolShape
<1>2. r.by_hash = [tx \in Pool!Pooled(p) \ gone |-> p.by_hash[tx]] /\ r.sequence = p.sequence
    BY DEF Pool!Removed, PoolShape
<1>3. Pool!Pooled(r) = Pool!Pooled(p) \ gone
    BY <1>2 DEF Pool!Pooled
<1>4. IsFiniteSet(Pool!Pooled(p) \ gone)
    BY FS_Difference DEF PoolShape
<1>5. Slotted(r)
  <2> DEFINE left(s) == Pool!Left(p, gone, s)
             kept == {q \in DOMAIN p.by_sender : left(q) # {}}
  <2>1. r.by_sender = [s \in kept |-> [n \in left(s) |-> p.by_sender[s][n]]]
    BY DEF Pool!Removed, PoolShape
  <2>2. \A s : left(s) \subseteq DOMAIN p.by_sender[s]
    BY DEF Pool!Left
  <2> HIDE DEF r, left
  <2>3. \A s \in DOMAIN r.by_sender : \A n \in DOMAIN r.by_sender[s] :
            /\ s \in DOMAIN p.by_sender /\ n \in DOMAIN p.by_sender[s]
            /\ r.by_sender[s][n] = p.by_sender[s][n]
    BY <2>1, <2>2
  <2> QED
    BY <2>3 DEF Slotted, PoolShape
<1> HIDE DEF r
<1>6. PoolShape(r)
    BY <1>1, <1>2, <1>3, <1>4, <1>5 DEF PoolShape
<1> QED
    BY <1>3, <1>6 DEF r

(* What is added is in, and what it displaces has its place; with room for *)
(* everything nothing else goes.                                           *)
Room == IsFiniteSet(Tx) /\ Cardinality(Tx) <= MaxTransactions

SameSlot(a, b) == a.sender = b.sender /\ a.nonce = b.nonce

LEMMA AddedPool ==
    ASSUME NEW p, PoolShape(p), NEW tx \in Tx, NEW fee
    PROVE  /\ PoolShape(Pool!Added(p, tx, fee))
           /\ Pool!Pooled(Pool!Added(p, tx, fee)) \subseteq Pool!Pooled(p) \cup {tx}
           /\ Room => /\ tx \in Pool!Pooled(Pool!Added(p, tx, fee))
                      /\ \A t \in Pool!Pooled(p) \ Pool!Pooled(Pool!Added(p, tx, fee)) : SameSlot(tx, t)
<1> DEFINE kept == IF Pool!Occupied(p, tx)
                   THEN Pool!Removed(p, {Pool!Queue(p, tx.sender)[tx.nonce]}) ELSE p
           new == Pool!Inserted(kept, tx)
           fitted == Pool!Fitted(new, fee)
<1>1. /\ PoolShape(kept) /\ Pool!Pooled(kept) \subseteq Pool!Pooled(p)
      /\ \A t \in Pool!Pooled(p) \ Pool!Pooled(kept) : SameSlot(tx, t)
  <2> DEFINE old == Pool!Queue(p, tx.sender)[tx.nonce]
  <2>1. CASE ~ Pool!Occupied(p, tx)
    BY <2>1
  <2>2. CASE Pool!Occupied(p, tx)
    <3>1. PoolShape(kept) /\ Pool!Pooled(kept) = Pool!Pooled(p) \ {old}
        BY <2>2, RemovedPool
    <3>2. tx.sender \in DOMAIN p.by_sender => SameSlot(tx, old)
        BY <2>2 DEF Pool!Occupied, Pool!Queue, PoolShape, Slotted, SameSlot
    <3>3. tx.sender \in DOMAIN p.by_sender
      <4>1. tx.sender \notin DOMAIN p.by_sender => Pool!Queue(p, tx.sender) = <<>>
          BY DEF Pool!Queue
      <4> QED
          BY <2>2, <4>1 DEF Pool!Occupied
    <3> QED
        BY <3>1, <3>2, <3>3
  <2> QED
    BY <2>1, <2>2
<1>2. Pool!Added(p, tx, fee) = fitted
    BY DEF Pool!Added
<1> HIDE DEF kept
<1>3. Pool!Pooled(new) = Pool!Pooled(kept) \cup {tx}
    BY DEF Pool!Inserted, Pool!Pooled
<1>4. /\ DOMAIN new = {"by_hash", "by_sender", "sequence"} /\ new.sequence = kept.sequence + 1
      /\ \A t \in Pool!Pooled(kept) \cup {tx} :
             new.by_hash[t] = IF t = tx THEN kept.sequence + 1 ELSE kept.by_hash[t]
    BY DEF Pool!Inserted, Pool!Arrival
<1>5. PoolShape(new)
  <2>1. IsFiniteSet(Pool!Pooled(kept) \cup {tx})
    BY <1>1, FS_AddElement DEF PoolShape
  <2>2. Slotted(new)
    <3> DEFINE q == Pool!Queue(kept, tx.sender)
    <3>1. new.by_sender = [s \in DOMAIN kept.by_sender \cup {tx.sender} |->
                              IF s = tx.sender
                              THEN [n \in DOMAIN Pool!Queue(kept, s) \cup {tx.nonce} |->
                                       IF n = tx.nonce THEN tx ELSE Pool!Queue(kept, s)[n]]
                              ELSE kept.by_sender[s]]
        BY DEF Pool!Inserted
    <3>2. \A n \in DOMAIN q : q[n].sender = tx.sender /\ q[n].nonce = n
        BY <1>1 DEF Pool!Queue, PoolShape, Slotted
    <3> HIDE DEF new, q
    <3>3. \A n \in DOMAIN new.by_sender[tx.sender] :
              \/ new.by_sender[tx.sender][n] = tx /\ n = tx.nonce
              \/ n \in DOMAIN q /\ new.by_sender[tx.sender][n] = q[n]
        BY <3>1 DEF q
    <3>4. \A s \in DOMAIN new.by_sender \ {tx.sender} :
              s \in DOMAIN kept.by_sender /\ new.by_sender[s] = kept.by_sender[s]
        BY <3>1
    <3> QED
        BY <1>1, <3>2, <3>3, <3>4 DEF PoolShape, Slotted
  <2> HIDE DEF new
  <2> QED
    BY <1>1, <1>3, <1>4, <2>1, <2>2 DEF PoolShape
<1> HIDE DEF new
<1>6. PoolShape(fitted) /\ Pool!Pooled(fitted) \subseteq Pool!Pooled(new)
  <2>1. fitted = new \/ \E gone : fitted = Pool!Removed(new, gone)
    BY DEF Pool!Fitted, Pool!EvictWorst
  <2> HIDE DEF fitted
  <2> QED
    BY <1>5, <2>1, RemovedPool
<1>7. Room => fitted = new
  <2> SUFFICES ASSUME Room PROVE fitted = new
    OBVIOUS
  <2> DEFINE m == Cardinality(Pool!Pooled(new))
             n == Cardinality(Tx)
  <2>1. m <= n /\ m \in Nat /\ n \in Nat
    BY <1>5, FS_Subset, FS_CardinalityType DEF PoolShape, Room
  <2>2. n <= MaxTransactions
    BY DEF Room
  <2>3. fitted = IF m > MaxTransactions THEN Pool!EvictWorst(new, fee) ELSE new
    <3>1. fitted = IF Pool!Cardinality(Pool!Pooled(new)) > MaxTransactions
                   THEN Pool!EvictWorst(new, fee) ELSE new
        BY DEF Pool!Fitted
    <3>2. Pool!Cardinality(Pool!Pooled(new)) = m
        BY DEF Pool!Cardinality, Cardinality
    <3> QED
        BY <3>1, <3>2
  <2> HIDE DEF m, n, fitted
  <2> QED
    BY <2>1, <2>2, <2>3, BackendAssumption
<1> QED
    BY <1>1, <1>2, <1>3, <1>6, <1>7

LEMMA PrunedPool ==
    ASSUME NEW p, PoolShape(p), NEW nonceOf
    PROVE  /\ PoolShape(Pool!Pruned(p, nonceOf))
           /\ Pool!Pooled(Pool!Pruned(p, nonceOf)) = {tx \in Pool!Pooled(p) : ~ (tx.nonce < nonceOf[tx.sender])}
<1> DEFINE gone == {tx \in Pool!Pooled(p) : tx.nonce < nonceOf[tx.sender]}
<1>1. Pool!Pruned(p, nonceOf) = Pool!Removed(p, gone)
    BY DEF Pool!Pruned
<1>2. PoolShape(Pool!Removed(p, gone)) /\ Pool!Pooled(Pool!Removed(p, gone)) = Pool!Pooled(p) \ gone
    BY RemovedPool
<1>3. Pool!Pooled(p) \ gone = {tx \in Pool!Pooled(p) : ~ (tx.nonce < nonceOf[tx.sender])}
    OBVIOUS
<1> QED
    BY <1>1, <1>2, <1>3

(* Only what is pooled can be removed. *)
LEMMA RemovedOfPooled ==
    ASSUME NEW p, NEW gone
    PROVE  Pool!Removed(p, gone \cap Pool!Pooled(p)) = Pool!Removed(p, gone)
<1> DEFINE part == gone \cap Pool!Pooled(p)
<1>1. Pool!Pooled(p) \ part = Pool!Pooled(p) \ gone
    OBVIOUS
<1>2. part \cap Pool!Pooled(p) = gone \cap Pool!Pooled(p)
    OBVIOUS
<1> HIDE DEF part
<1>3. \A s : Pool!Left(p, part, s) = Pool!Left(p, gone, s)
    BY <1>2 DEF Pool!Left
<1> DEFINE hashes(g) == [tx \in Pool!Pooled(p) \ g |-> p.by_hash[tx]]
           senders(g) == [s \in {q \in DOMAIN p.by_sender : Pool!Left(p, g, q) # {}} |->
                              [n \in Pool!Left(p, g, s) |-> p.by_sender[s][n]]]
<1>4. \A g : Pool!Removed(p, g) = [p EXCEPT !.by_hash = hashes(g), !.by_sender = senders(g)]
    BY DEF Pool!Removed
<1>5. hashes(part) = hashes(gone)
    BY <1>1
<1>6. senders(part) = senders(gone)
    BY <1>3
<1> HIDE DEF hashes, senders
<1> QED
    BY <1>4, <1>5, <1>6 DEF part


-----------------------------------------------------------------------------
(* The inductive invariant of the node, beside the store's: execution      *)
(* stands at the head, the index is that of its chain, and nothing pooled  *)
(* is behind the state.                                                    *)
Pending(p, state) ==
    PoolShape(p) /\ \A tx \in Pool!Pooled(p) : NonceOf(state, tx.sender) <= tx.nonce

NodeInv ==
    /\ DOMAIN bodies = Present /\ Bodied(headers, bodies)
    /\ StandsAt(headers, data, Fresh, executor, executor.tip)
    /\ executor.tip = VirtualSelectedParent
    /\ IndexOf(data, Fresh, tx_index, executor.tip)
    /\ Pending(pool, executor.state)

(* The head is a block of the store on no other block's chain. *)
HeadFree ==
    VirtualSelectedParent \in Present /\ \A d \in Present : VirtualSelectedParent \notin headers[d].parents

(* What a call does to the pool: module TxPool's actions. *)
PoolStep ==
    \/ \E tx \in Tx : Pool!Add(tx) \/ Pool!RefuseReplacement(tx)
    \/ \E executed \in SUBSET Pool!Pooled(pool) : Pool!Advance(executed, NextBaseFee, Accounts')

LEMMA NodeInitEstablishes ==
    ASSUME BackendInit, DagInv
    PROVE  NodeInv
<1>1. ExecInv /\ executor = GenesisExecutor /\ tips = {Genesis}
    BY ExecInitEstablishes DEF BackendInit, ExecInit, Init
<1>2. executor.tip = VirtualSelectedParent
  <2>1. executor.tip = Genesis
    BY <1>1 DEF GenesisExecutor
  <2>2. VirtualSelectedParent = Genesis
    BY <1>1 DEF VirtualSelectedParent, Heaviest
  <2> QED
    BY <2>1, <2>2
<1>3. IndexOf(data, Fresh, tx_index, executor.tip)
  <2>1. ChainIn(data, Genesis) = {Genesis}
    BY StoreIsDag, BluesOfGenesis
  <2>2. DOMAIN tx_index = {} /\ executor.tip = Genesis
    BY <1>1 DEF BackendInit, GenesisExecutor
  <2> HIDE DEF Fresh
  <2> QED
    BY <2>1, <2>2 DEF IndexOf
<1>4. Pending(pool, executor.state)
  <2>1. pool = [by_hash |-> <<>>, by_sender |-> <<>>, sequence |-> 0]
    BY DEF BackendInit, Pool!EmptyPool
  <2>2. /\ DOMAIN pool = {"by_hash", "by_sender", "sequence"} /\ Pool!Pooled(pool) = {}
        /\ pool.sequence = 0 /\ DOMAIN pool.by_sender = {}
    BY <2>1 DEF Pool!Pooled
  <2> QED
    BY <2>2, FS_EmptySet DEF Pending, PoolShape, Slotted
<1> QED
    BY <1>1, <1>2, <1>3, <1>4 DEF NodeInv, ExecInv

(* What the invariant says of the ledger. *)
LEMMA NodeLedger ==
    ASSUME NodeInv, DagInv
    PROVE  /\ Ledger(data, Fresh, executor.tip) /\ executor.tip \in Present
           /\ Same(executor, Fresh[executor.tip])
           /\ \A a : NonceOf(executor.state, a) \in Nat
<1>1. /\ Dag(headers, data) /\ Bodied(headers, bodies)
      /\ executor.tip \in DOMAIN headers /\ Same(executor, Fresh[executor.tip])
    BY StoreIsDag DEF NodeInv, StandsAt
<1>2. Replays(headers, data, bodies, Fresh)
    BY <1>1, ReplayRecursion DEF Fresh
<1> HIDE DEF Fresh
<1>3. Ledger(data, Fresh, executor.tip)
    BY <1>1, <1>2, LedgersHold
<1>4. Accountable(executor.state)
    BY <1>1, <1>3 DEF Ledger, Same
<1> QED
    BY <1>1, <1>3, <1>4, NonceIsNatural DEF Present

(* A submission touches the pool alone. *)
LEMMA SubmissionKeeps ==
    ASSUME NodeInv, DagInv, NEW tx \in Tx, SubmitRaw(tx) \/ SubmitRefused(tx)
    PROVE  NodeInv' /\ PoolStep
<1>1. UNCHANGED <<allVars, tx_index>>
    BY DEF SubmitRaw, SubmitRefused
<1>2. /\ headers' = headers /\ data' = data /\ tips' = tips /\ bodies' = bodies
      /\ executor' = executor /\ tx_index' = tx_index
    BY <1>1 DEF allVars, vars
<1>3. Fresh' = Fresh /\ Present' = Present /\ VirtualSelectedParent' = VirtualSelectedParent /\ Accounts' = Accounts
    BY <1>2 DEF Fresh, Present, VirtualSelectedParent, Accounts
<1>4. PoolShape(pool) /\ \A t \in Pool!Pooled(pool) : NonceOf(executor.state, t.sender) <= t.nonce
    BY DEF NodeInv, Pending
<1>5. Offered(tx)
    BY DEF SubmitRaw, SubmitRefused
<1>6. NonceOf(executor.state, tx.sender) <= tx.nonce
  <2>1. tx.sender \in Account /\ tx.nonce \in Nat
    BY BackendAssumption
  <2>2. tx.nonce >= Accounts[tx.sender].nonce
    BY <1>5 DEF Offered, Pool!Admissible
  <2>3. Accounts[tx.sender].nonce = NonceOf(executor.state, tx.sender)
    BY <2>1 DEF Accounts, NonceOf
  <2>4. NonceOf(executor.state, tx.sender) \in Nat
    BY NodeLedger
  <2> QED
    BY <2>1, <2>2, <2>3, <2>4
<1>7. CASE SubmitRaw(tx)
  <2>1. pool' = Pool!Added(pool, tx, NextBaseFee)
    BY <1>7 DEF SubmitRaw
  <2>2. PoolShape(pool') /\ Pool!Pooled(pool') \subseteq Pool!Pooled(pool) \cup {tx}
    BY <1>4, <2>1, AddedPool
  <2>3. Pending(pool', executor.state)
    BY <1>4, <1>6, <2>2 DEF Pending
  <2>4. Pool!Add(tx)
    BY <1>3, <1>5, <1>7 DEF SubmitRaw, Offered, Pool!Add
  <2> QED
    BY <1>2, <1>3, <2>3, <2>4 DEF NodeInv, PoolStep
<1>8. CASE SubmitRefused(tx)
  <2>1. pool' = [pool EXCEPT !.sequence = @ + 1]
    BY <1>8 DEF SubmitRefused
  <2>2. /\ DOMAIN pool' = DOMAIN pool /\ Pool!Pooled(pool') = Pool!Pooled(pool)
        /\ pool'.by_hash = pool.by_hash /\ pool'.sequence = pool.sequence + 1
        /\ pool'.by_sender = pool.by_sender
    BY <1>4, <2>1 DEF PoolShape, Pool!Pooled
  <2>3. Pending(pool', executor.state)
    BY <1>4, <2>2 DEF Pending, PoolShape, Slotted
  <2>4. Pool!RefuseReplacement(tx)
    BY <1>3, <1>5, <1>8 DEF SubmitRefused, Offered, Pool!RefuseReplacement
  <2> QED
    BY <1>2, <1>3, <2>3, <2>4 DEF NodeInv, PoolStep
<1> QED
    BY <1>7, <1>8

(* What advance leaves of the pool: what is ahead of the new state; and it *)
(* is an advance in the sense of module TxPool.                            *)
LEMMA SettledIsPending ==
    ASSUME NEW p, PoolShape(p), NEW ex, \A a : NonceOf(ex.state, a) \in Nat, NEW executed
    PROVE  Pending(Settled(p, ex, executed), ex.state)
<1> DEFINE r == Pool!Removed(p, executed)
           nonces == [a \in Account |-> AccountOf(ex.state, a).nonce]
           new == Pool!Pruned(r, nonces)
<1>1. PoolShape(r)
    BY RemovedPool
<1> HIDE DEF r
<1>2. PoolShape(new) /\ Pool!Pooled(new) = {tx \in Pool!Pooled(r) : ~ (tx.nonce < nonces[tx.sender])}
    BY <1>1, PrunedPool
<1>3. ASSUME NEW tx \in Pool!Pooled(new) PROVE NonceOf(ex.state, tx.sender) <= tx.nonce
  <2>1. tx \in Tx /\ ~ (tx.nonce < nonces[tx.sender])
    BY <1>1, <1>2 DEF PoolShape
  <2>2. tx.sender \in Account /\ tx.nonce \in Nat
    BY <2>1, BackendAssumption
  <2>3. nonces[tx.sender] = NonceOf(ex.state, tx.sender)
    BY <2>2 DEF NonceOf
  <2> HIDE DEF nonces
  <2> QED
    BY <2>1, <2>2, <2>3
<1>4. Settled(p, ex, executed) = new
    BY DEF Settled, r
<1> HIDE DEF new
<1> QED
    BY <1>2, <1>3, <1>4 DEF Pending


(* What advance leaves, from execution `x` standing at `a` to the head `b` *)
(* and `y`: the index and the pool, of `index` and `p`.                    *)
Moved(hs, dt, R, b, y, index, p) ==
    /\ StandsAt(hs, dt, R, y, b) /\ y.tip = b
    /\ IndexOf(dt, R, index, b)
    /\ Pending(p, y.state)

AddedBy(reorg, y) == HeightsOf(y.results, ToSet(reorg.added))

ExecutedBy(reorg, y) == ExecutedAt(y.results, AddedBy(reorg, y))

LEMMA HeadMoves ==
    ASSUME NEW hs, NEW dt, Dag(hs, dt), NEW bs, Bodied(hs, bs),
           NEW R, Replays(hs, dt, bs, R), NEW x, NEW a, StandsAt(hs, dt, R, x, a),
           NEW index, IndexOf(dt, R, index, a), NEW p, PoolShape(p),
           NEW b \in DOMAIN hs, b \notin ChainIn(dt, a),
           NEW reorg, reorg = ComputeReorg(dt, a, b),
           NEW applied, applied = ApplyReorg(dt, bs, x, reorg), applied.ok,
           NEW y, y = applied.ex
    PROVE  /\ Moved(hs, dt, R, b, y,
                    Indexed(Retained(index, ToSet(reorg.removed)), y, AddedBy(reorg, y)),
                    Settled(p, y, ExecutedBy(reorg, y)))
           /\ \A tx \in ExecutedBy(reorg, y) : tx.nonce < NonceOf(y.state, tx.sender)
<1> DEFINE removed == ToSet(reorg.removed)
           added == ToSet(reorg.added)
<1>1. StandsAt(hs, dt, R, y, b) /\ y.tip = b
    BY ReorgStands
<1>2. Same(y, R[b]) /\ a \in DOMAIN hs
    BY <1>1 DEF StandsAt
<1>3. Ledger(dt, R, a) /\ Ledger(dt, R, b)
    BY <1>2, LedgersHold
<1>4. removed = ChainIn(dt, a) \ ChainIn(dt, b) /\ added = ChainIn(dt, b) \ ChainIn(dt, a)
  <2>1. PICK c : Leads(hs, dt, a, b, reorg, c)
    BY <1>2, ReorgLeads
  <2>2. /\ Range(reorg.removed) = ChainIn(dt, a) \ ChainIn(dt, b)
        /\ Range(reorg.added) = ChainIn(dt, b) \ ChainIn(dt, a)
    BY <2>1 DEF Leads
  <2> QED
    BY <2>2 DEF ToSet, Range
<1>5. Genesis \in ChainIn(dt, a) /\ Genesis \in ChainIn(dt, b)
    BY <1>2, GenesisIsOnChains
<1>6. y.results = R[b].results /\ y.state = R[b].state
    BY <1>2 DEF Same
<1> HIDE DEF removed, added
<1>7. IndexOf(dt, R, Indexed(Retained(index, removed), y, HeightsOf(y.results, added)), b)
    BY <1>3, <1>4, <1>5, <1>6, IndexFollows
<1>8. \A s : NonceOf(y.state, s) \in Nat
  <2>1. Accountable(y.state)
    BY <1>3, <1>6 DEF Ledger
  <2> QED
    BY <2>1, NonceIsNatural
<1>9. Pending(Settled(p, y, ExecutedBy(reorg, y)), y.state)
    BY <1>8, SettledIsPending
<1>10. ASSUME NEW tx \in ExecutedBy(reorg, y) PROVE tx.nonce < NonceOf(y.state, tx.sender)
  <2>1. added \in SUBSET ChainIn(dt, b) /\ Genesis \notin added
    BY <1>4, <1>5
  <2>2. \A t : t \in ExecutedAt(y.results, HeightsOf(y.results, added)) <=> \E c \in added : t \in Did(R, c)
    <3>1. \A t : t \in ExecutedAt(R[b].results, HeightsOf(R[b].results, added)) <=> \E c \in added : t \in Did(R, c)
        BY <1>3, <2>1, AddedHeights
    <3> QED
        BY <1>6, <3>1
  <2>3. PICK c \in added : tx \in Did(R, c)
    BY <2>2 DEF ExecutedBy, AddedBy, added
  <2>4. c \in ChainIn(dt, b) \ {Genesis}
    BY <2>1
  <2>5. \A d \in ChainIn(dt, b) \ {Genesis} : \A t \in Did(R, d) : t.nonce < NonceOf(R[b].state, t.sender)
    BY <1>3 DEF Ledger
  <2> QED
    BY <1>6, <2>3, <2>4, <2>5
<1> QED
    BY <1>1, <1>7, <1>9, <1>10 DEF Moved, AddedBy, removed, added

(* A block: the store grows, and execution moves if the head did.          *)
LEMMA BlockKeeps ==
    ASSUME NodeInv, DagInv, DagInv', HeadFree', ReorgSucceeds,
           NEW b \in Hash, NEW ps \in ParentSets(Present), NEW w \in Work, NEW body \in Seq(Tx),
           AddBlockAndAdvance(b, ps, w, body)
    PROVE  NodeInv' /\ (PoolStep \/ UNCHANGED <<pool, Accounts>>)
<1> DEFINE T == executor.tip
           V == VirtualSelectedParent'
           reorg == ComputeReorg(data', T, V)
           applied == ApplyReorg(data', bodies', executor, reorg)
           y == applied.ex
           kept == Retained(tx_index, ToSet(reorg.removed))
           executed == ExecutedBy(reorg, y)
<1>1. /\ AddBlock(b, ps, w) /\ bodies' = Extend(bodies, b, body)
      /\ AdvanceBackend(V)
    BY DEF AddBlockAndAdvance, VirtualSelectedParent
<1>2. /\ DOMAIN bodies = Present /\ Bodied(headers, bodies)
      /\ StandsAt(headers, data, Fresh, executor, T)
      /\ T = VirtualSelectedParent
      /\ IndexOf(data, Fresh, tx_index, T)
      /\ Pending(pool, executor.state) /\ PoolShape(pool)
    BY DEF NodeInv, Pending
<1> HIDE DEF Fresh, T, V
<1>3. /\ Agree(headers, data, headers', data')
      /\ DOMAIN bodies' = Present' /\ Bodied(headers', bodies')
      /\ Dag(headers, data) /\ Dag(headers', data')
      /\ Extends(headers, data, bodies, headers', data', bodies')
      /\ Replays(headers, data, bodies, Fresh) /\ Replays(headers', data', bodies', Fresh')
    BY <1>1, <1>2, StoreGrows
<1>4. StandsAt(headers', data', Fresh', executor, T)
    BY <1>2, <1>3, StandsStill
<1>5. IndexOf(data', Fresh', tx_index, T)
  <2>1. T \in DOMAIN headers /\ Layered(headers, data)
    BY <1>2, <1>3 DEF StandsAt, Dag, WellFormed
  <2>2. \A c \in DOMAIN headers : Fresh'[c] = Fresh[c]
    BY <1>3, ReplayAgrees
  <2> QED
    BY <1>2, <1>3, <2>1, <2>2, IndexStays
<1>6. CASE V = T
  <2>1. UNCHANGED <<executor, tx_index, pool>>
    BY <1>1, <1>6 DEF AdvanceBackend, T
  <2>2. Accounts' = Accounts
    BY <2>1 DEF Accounts
  <2>3. executor'.tip = T
    BY <2>1 DEF T
  <2> QED
    BY <1>2, <1>3, <1>4, <1>5, <1>6, <2>1, <2>2, <2>3 DEF NodeInv, V
<1>7. CASE V # T
  <2>1. applied.ok
    BY <1>7 DEF ReorgSucceeds, T, V
  <2>2. V \in DOMAIN headers' /\ \A d \in DOMAIN headers' : V \notin headers'[d].parents
    BY DEF HeadFree, Present, V
  <2>3. V \notin ChainIn(data', T)
    BY <1>3, <1>4, <1>7, <2>2, ChainsHaveChildren DEF StandsAt
  <2> DEFINE index == Indexed(kept, y, AddedBy(reorg, y))
  <2>4. executor' = y /\ tx_index' = index /\ pool' = Settled(pool, y, executed)
    BY <1>1, <1>7, <2>1 DEF AdvanceBackend, AddedBy, HeightsOf, ExecutedBy, ExecutedAt, T
  <2> HIDE DEF applied, reorg
  <2>5. /\ Moved(headers', data', Fresh', V, y, index, Settled(pool, y, executed))
        /\ \A tx \in executed : tx.nonce < NonceOf(y.state, tx.sender)
    BY <1>2, <1>3, <1>4, <1>5, <2>1, <2>2, <2>3, HeadMoves DEF applied, reorg
  <2> HIDE DEF y, index, executed
  <2>6. NodeInv'
    BY <1>3, <2>4, <2>5 DEF Moved, NodeInv, V
  <2>7. PoolStep
    <3> DEFINE E == executed \cap Pool!Pooled(pool)
    <3>1. \A tx \in E : tx.nonce < Accounts'[tx.sender].nonce
      <4> SUFFICES ASSUME NEW tx \in E PROVE tx.nonce < Accounts'[tx.sender].nonce
        OBVIOUS
      <4>1. tx.sender \in Account
        BY <1>2, BackendAssumption DEF PoolShape
      <4>2. Accounts'[tx.sender].nonce = NonceOf(y.state, tx.sender)
        BY <2>4, <4>1 DEF Accounts, NonceOf
      <4> QED
        BY <2>5, <4>2
    <3>2. pool' = Pool!Pruned(Pool!Removed(pool, E), [s \in Account |-> Accounts'[s].nonce])
      <4>1. Accounts' = [s \in Account |-> AccountOf(y.state, s)]
        BY <2>4 DEF Accounts
      <4>2. [s \in Account |-> Accounts'[s].nonce] = [s \in Account |-> AccountOf(y.state, s).nonce]
        BY <4>1
      <4> QED
        BY <2>4, <4>2, RemovedOfPooled DEF Settled
    <3> HIDE DEF E
    <3>3. Pool!Advance(E, NextBaseFee, Accounts')
        BY <3>1, <3>2 DEF Pool!Advance
    <3>4. E \in SUBSET Pool!Pooled(pool)
        BY DEF E
    <3> QED
        BY <3>3, <3>4 DEF PoolStep
  <2> QED
    BY <2>6, <2>7
<1> QED
    BY <1>6, <1>7


LEMMA NodeIsOfADag == BackendSpec => [](DagInv /\ Pure(headers, data))
<1>1. BackendInit => Init
    BY DEF BackendInit, ExecInit
<1>2. [BackendNext]_backendVars => [Next]_vars
  <2> SUFFICES ASSUME [BackendNext]_backendVars PROVE [Next]_vars
    OBVIOUS
  <2>1. CASE \E tx \in Tx : SubmitRaw(tx) \/ SubmitRefused(tx)
    BY <2>1 DEF SubmitRaw, SubmitRefused, allVars
  <2>2. CASE \E b \in Hash, ps \in ParentSets(Present), w \in Work, body \in Bodies :
                 AddBlockAndAdvance(b, ps, w, body)
    BY <2>2 DEF AddBlockAndAdvance, Next
  <2>3. CASE UNCHANGED backendVars
    BY <2>3 DEF backendVars, vars
  <2> QED
    BY <2>1, <2>2, <2>3 DEF BackendNext
<1>3. BackendSpec => Spec
    BY <1>1, <1>2, PTL DEF BackendSpec, Spec
<1> QED
    BY <1>3, DagInvariant, PureInvariant, PTL

LEMMA StepKeepsNode ==
    ASSUME NodeInv, DagInv, DagInv', HeadFree', [ReorgSucceeds]_backendVars, [BackendNext]_backendVars
    PROVE  NodeInv' /\ (PoolStep \/ UNCHANGED <<pool, Accounts>>)
<1>1. CASE \E tx \in Tx : SubmitRaw(tx) \/ SubmitRefused(tx)
    BY <1>1, SubmissionKeeps
<1>2. CASE /\ ReorgSucceeds
           /\ \E b \in Hash, ps \in ParentSets(Present), w \in Work, body \in Bodies :
                  AddBlockAndAdvance(b, ps, w, body)
  <2>1. PICK b \in Hash, ps \in ParentSets(Present), w \in Work, body \in Bodies :
             AddBlockAndAdvance(b, ps, w, body)
    BY <1>2
  <2>2. body \in Seq(Tx)
    BY ExecutorAssumption
  <2> QED
    BY <1>2, <2>1, <2>2, BlockKeeps
<1>3. CASE UNCHANGED backendVars
  <2>1. /\ headers' = headers /\ data' = data /\ tips' = tips /\ bodies' = bodies
        /\ executor' = executor /\ tx_index' = tx_index /\ pool' = pool
    BY <1>3 DEF backendVars
  <2>2. Fresh' = Fresh /\ Present' = Present /\ VirtualSelectedParent' = VirtualSelectedParent /\ Accounts' = Accounts
    BY <2>1 DEF Fresh, Present, VirtualSelectedParent, Accounts
  <2> HIDE DEF Fresh, Present, VirtualSelectedParent, Accounts
  <2> QED
    BY <2>1, <2>2 DEF NodeInv
<1> QED
    BY <1>1, <1>2, <1>3 DEF BackendNext

LEMMA HeadIsFree == DagInv => HeadFree
BY HeadHasNoChildren DEF HeadFree

LEMMA NodeInvariant == BackendSpec /\ [][ReorgSucceeds]_backendVars => []NodeInv
<1>1. BackendInit /\ DagInv => NodeInv
    BY NodeInitEstablishes
<1>2. /\ NodeInv /\ DagInv /\ DagInv' /\ HeadFree' /\ [BackendNext]_backendVars
      /\ [ReorgSucceeds]_backendVars
      => NodeInv'
    BY StepKeepsNode
<1> QED
    BY <1>1, <1>2, NodeIsOfADag, HeadIsFree, PTL DEF BackendSpec


-----------------------------------------------------------------------------
(* The index, in the words of the property. *)
LEMMA IndexIsExact ==
    ASSUME NodeInv, DagInv
    PROVE  TxIndexIsExact
<1> DEFINE b == executor.tip
           results == executor.results
           blocks == ChainIn(data, b) \ {Genesis}
           heights == 1..executor.height
<1>1. Ledger(data, Fresh, b) /\ Same(executor, Fresh[b])
    BY NodeLedger
<1>2. IndexOf(data, Fresh, tx_index, b)
    BY DEF NodeInv
<1> HIDE DEF Fresh, b
<1>3. results = Fresh[b].results /\ executor.height = Fresh[b].height
    BY <1>1 DEF Same
<1> HIDE DEF results
<1>4. /\ executor.height \in Nat
      /\ \A c \in ChainIn(data, b) :
             /\ Fresh[c].height \in 0..executor.height /\ Fresh[c].height \in 0..Fresh[c].height
             /\ \A n \in 0..Fresh[c].height : results[n] = Fresh[c].results[n]
             /\ Own(Fresh, c).hash = c
             /\ c # Genesis <=> Fresh[c].height # 0
      /\ \A n \in 0..executor.height : \E c \in ChainIn(data, b) : Fresh[c].height = n
    BY <1>1, <1>3 DEF Ledger
<1>5. \A c \in blocks : /\ Fresh[c].height \in heights
                        /\ results[Fresh[c].height] = Own(Fresh, c)
                        /\ Own(Fresh, c).hash = c
    BY <1>4 DEF Own
<1>6. \A n \in heights : \E c \in blocks : Fresh[c].height = n
    BY <1>4
<1> HIDE DEF blocks, heights
<1>7. \A tx : tx \in UNION {ToSet(results[n].executed) : n \in heights}
              <=> \E c \in blocks : tx \in Did(Fresh, c)
  <2>1. \A tx : tx \in UNION {ToSet(results[n].executed) : n \in heights}
                <=> \E n \in heights : tx \in ToSet(results[n].executed)
      OBVIOUS
  <2>2. \A c \in blocks : Did(Fresh, c) = ToSet(results[Fresh[c].height].executed)
      BY <1>5 DEF Did
  <2> QED
      BY <1>5, <1>6, <2>1, <2>2
<1>8. /\ \A tx : tx \in DOMAIN tx_index <=> \E c \in blocks : tx \in Did(Fresh, c)
      /\ \A tx \in DOMAIN tx_index : \E c \in blocks : Placed(Fresh, tx_index[tx], tx, c)
    BY <1>2 DEF IndexOf, blocks
<1>9. DOMAIN tx_index = UNION {ToSet(results[n].executed) : n \in heights}
    BY <1>7, <1>8
<1>10. ASSUME NEW tx \in DOMAIN tx_index
       PROVE  LET at == tx_index[tx]
              IN  /\ at.height \in heights
                  /\ results[at.height].hash = at.chain_block
                  /\ results[at.height].executed[at.index] = tx
  <2>1. PICK c \in blocks : Placed(Fresh, tx_index[tx], tx, c)
      BY <1>8
  <2> QED
      BY <1>5, <2>1 DEF Placed
<1> QED
    BY <1>9, <1>10 DEF TxIndexIsExact, results, heights

(* add_block_and_advance: as long as no reorg is deeper than the journal,  *)
(* the index names exactly the transactions the current chain executed,    *)
(* each at the height, in the block and at the place recorded for it,      *)
(* however the chain came to be the selected one.                          *)
THEOREM TxIndexExact ==
    BackendSpec /\ [][ReorgSucceeds]_backendVars => []TxIndexIsExact
<1>1. NodeInv /\ DagInv => TxIndexIsExact
    BY IndexIsExact
<1> QED
    BY <1>1, NodeInvariant, NodeIsOfADag, PTL

LEMMA PoolIsAhead ==
    ASSUME NodeInv, DagInv
    PROVE  PoolIsPending
<1> SUFFICES ASSUME NEW tx \in Pool!Pooled(pool)
             PROVE  tx \notin DOMAIN tx_index /\ tx.nonce >= AccountOf(executor.state, tx.sender).nonce
    BY DEF PoolIsPending
<1>1. /\ tx \in Tx /\ NonceOf(executor.state, tx.sender) <= tx.nonce
      /\ IndexOf(data, Fresh, tx_index, executor.tip)
    BY DEF NodeInv, Pending, PoolShape
<1>2. /\ Ledger(data, Fresh, executor.tip) /\ Same(executor, Fresh[executor.tip])
      /\ NonceOf(executor.state, tx.sender) \in Nat
    BY NodeLedger
<1> HIDE DEF Fresh
<1>3. tx.nonce \in Nat
    BY <1>1, BackendAssumption
<1>4. ASSUME tx \in DOMAIN tx_index PROVE tx.nonce < NonceOf(executor.state, tx.sender)
  <2>1. PICK c \in ChainIn(data, executor.tip) \ {Genesis} : tx \in Did(Fresh, c)
    BY <1>1, <1>4 DEF IndexOf
  <2>2. tx.nonce < NonceOf(Fresh[executor.tip].state, tx.sender)
    BY <1>2, <2>1 DEF Ledger
  <2> QED
    BY <1>2, <2>2 DEF Same
<1> QED
    BY <1>1, <1>2, <1>3, <1>4 DEF NonceOf

(* add_block_and_advance and submit_raw: nothing pooled was executed on    *)
(* the current chain, and no pooled transaction has a nonce its sender's   *)
(* account has passed, after any reorg the journal holds.                  *)
THEOREM PoolPending ==
    BackendSpec /\ [][ReorgSucceeds]_backendVars => []PoolIsPending
<1>1. NodeInv /\ DagInv => PoolIsPending
    BY PoolIsAhead
<1> QED
    BY <1>1, NodeInvariant, NodeIsOfADag, PTL

(* Every call of the node uses the pool as module TxPool says it is used:  *)
(* an addition, a refusal, or an advance that removes executed             *)
(* transactions whose nonces the new state has passed and prunes by that   *)
(* state.                                                                  *)
THEOREM PoolImplemented ==
    BackendSpec /\ [][ReorgSucceeds]_backendVars => PoolIsImplemented
<1>1. /\ NodeInv /\ DagInv /\ DagInv' /\ HeadFree' /\ [BackendNext]_backendVars
      /\ [ReorgSucceeds]_backendVars
      => [PoolStep]_<<pool, Accounts>>
  <2>1. PoolStep \/ UNCHANGED <<pool, Accounts>> => [PoolStep]_<<pool, Accounts>>
    OBVIOUS
  <2> QED
    BY <2>1, StepKeepsNode
<1>2. BackendSpec /\ [][ReorgSucceeds]_backendVars => [][PoolStep]_<<pool, Accounts>>
    BY <1>1, NodeInvariant, NodeIsOfADag, HeadIsFree, PTL DEF BackendSpec
<1>3. [][PoolStep]_<<pool, Accounts>> => PoolIsImplemented
    BY DEF PoolIsImplemented, PoolStep
<1> QED
    BY <1>2, <1>3


-----------------------------------------------------------------------------
(* Blue scores count: a block's score is the number of blues of its past,  *)
(* and along a chain those of a lower block are among those of a higher.   *)
LEMMA ScoreCounts ==
    ASSUME NEW hs, NEW dt, Dag(hs, dt), Pure(hs, dt)
    PROVE  \A b \in DOMAIN hs : /\ IsFiniteSet(BluesOf(dt, b))
                                /\ dt[b].blue_score = Cardinality(BluesOf(dt, b))
<1> DEFINE D == DOMAIN hs
           h == [c \in D |-> dt[c].topological_height]
           Counts(c) == dt[c].blue_score = Cardinality(BluesOf(dt, c))
           S == {c \in D : Counts(c)}
<1>1. \A c \in D : h[c] \in Nat
    BY DEF Dag, WellFormed, Layered
<1>2. \A c \in D : IsFiniteSet(BluesOf(dt, c))
  <2> SUFFICES ASSUME NEW c \in D PROVE IsFiniteSet(BluesOf(dt, c))
    OBVIOUS
  <2>1. IsFiniteSet(D)
    BY DEF Dag, WellFormed, Worked
  <2>2. BluesOf(dt, c) \subseteq D
    BY BluesArePast, PastIsClosed DEF Dag, WellFormed
  <2> HIDE DEF D
  <2> QED
    BY <2>1, <2>2, FS_Subset
<1>3. ASSUME NEW b \in D, \A c \in D : h[c] < h[b] => c \in S
      PROVE  b \in S
  <2>1. CASE b = Genesis
    <3>1. BluesOf(dt, Genesis) = {}
        BY BluesOfGenesis
    <3> QED
        BY <2>1, <3>1, FS_EmptySet DEF Dag, Rooted
  <2>2. CASE b # Genesis
    <3> DEFINE sp == dt[b].selected_parent
               M == dt[b].mergeset_blues
               B == BluesOf(dt, sp)
    <3>1. StepsFrom(hs, dt, b, sp)
        BY <2>2, PastSplits
    <3>2. sp \in D /\ h[sp] < h[b] /\ sp \notin PastIn(hs)[sp] /\ sp \in PastIn(hs)[b]
        BY <3>1 DEF StepsFrom
    <3>3. BluesOf(dt, b) = M \cup B /\ M \cap (B \cup {sp}) = {sp}
        BY <2>2, BluesSplit
    <3>4. B \subseteq PastIn(hs)[sp]
        BY <3>2, BluesArePast
    <3>5. M \cap B = {}
        BY <3>2, <3>3, <3>4
    <3>6. IsFiniteSet(B) /\ IsFiniteSet(M)
      <4>1. IsFiniteSet(B) /\ IsFiniteSet(M \cup B)
          BY <1>2, <3>2, <3>3
      <4> HIDE DEF M, B
      <4> QED
          BY <4>1, FS_Subset
    <3>7. Cardinality(M \cup B) = Cardinality(M) + Cardinality(B)
      <4> HIDE DEF M, B
      <4>1. Cardinality(M) \in Nat /\ Cardinality(B) \in Nat /\ Cardinality({}) = 0
          BY <3>6, FS_CardinalityType, FS_EmptySet
      <4>2. Cardinality(M \cup B) = Cardinality(M) + Cardinality(B) - Cardinality(M \cap B)
          BY <3>6, FS_Union
      <4> DEFINE m == Cardinality(M)
                 n == Cardinality(B)
                 k == Cardinality(M \cup B)
                 i == Cardinality(M \cap B)
      <4>3. k = m + n - i /\ m \in Nat /\ n \in Nat /\ i = 0
          BY <3>5, <4>1, <4>2
      <4> HIDE DEF m, n, k, i
      <4>4. k = m + n
          BY <4>3
      <4> QED
          BY <4>4 DEF m, n, k
    <3>8. dt[sp].blue_score = Cardinality(B)
      <4>1. sp \in S
        <5> HIDE DEF S, h, D, sp
        <5> QED
            BY <1>3, <3>2
      <4> QED
          BY <4>1
    <3>9. dt[b].blue_score = dt[sp].blue_score + Cardinality(M)
      <4> DEFINE past == Restrict(dt, PastIn(hs)[b])
                 g == ComputeGhostdag(Restrict(hs, PastIn(hs)[b]), past, hs[b].parents, hs[b].work)
      <4>1. dt[b] = g
          BY <2>2 DEF Pure
      <4>2. g.blue_score = past[g.selected_parent].blue_score + Cardinality(g.mergeset_blues)
          BY DEF ComputeGhostdag
      <4> HIDE DEF g
      <4>3. past[sp] = dt[sp]
          BY <3>2 DEF Restrict
      <4> QED
          BY <4>1, <4>2, <4>3
    <3> HIDE DEF M, B, sp
    <3>10. dt[b].blue_score = Cardinality(B) + Cardinality(M)
        BY <3>8, <3>9
    <3>11. Cardinality(B) + Cardinality(M) = Cardinality(M) + Cardinality(B)
        BY <3>6, FS_CardinalityType
    <3>12. dt[b].blue_score = Cardinality(M \cup B)
        BY <3>7, <3>10, <3>11
    <3>13. Counts(b)
        BY <3>3, <3>12
    <3> QED
        BY <3>13
  <2> QED
    BY <2>1, <2>2
<1>4. D \subseteq S
  <2>1. \A b \in D : (\A c \in D : h[c] < h[b] => c \in S) => b \in S
    BY <1>3
  <2> HIDE DEF D, h, S
  <2> QED
    BY <1>1, <2>1, HeightInduction
<1> QED
    BY <1>2, <1>4

LEMMA ChainsNest ==
    ASSUME NEW hs, NEW dt, Dag(hs, dt)
    PROVE  \A b \in DOMAIN hs : \A c \in ChainIn(dt, b) :
               c \in DOMAIN hs /\ ChainIn(dt, c) \subseteq ChainIn(dt, b)
<1> DEFINE D == DOMAIN hs
           h == [c \in D |-> dt[c].topological_height]
           Nests(b) == \A c \in ChainIn(dt, b) : c \in D /\ ChainIn(dt, c) \subseteq ChainIn(dt, b)
           S == {b \in D : Nests(b)}
<1>1. \A c \in D : h[c] \in Nat
    BY DEF Dag, WellFormed, Layered
<1>2. ASSUME NEW b \in D, \A c \in D : h[c] < h[b] => c \in S
      PROVE  b \in S
  <2>1. CASE b = Genesis
    <3>1. ChainIn(dt, Genesis) = {Genesis}
        BY BluesOfGenesis
    <3> QED
        BY <2>1, <3>1
  <2>2. CASE b # Genesis
    <3> DEFINE sp == dt[b].selected_parent
    <3>1. StepsFrom(hs, dt, b, sp)
        BY <2>2, PastSplits
    <3>2. sp \in D /\ h[sp] < h[b] /\ ChainIn(dt, b) = {b} \cup ChainIn(dt, sp)
        BY <3>1 DEF StepsFrom
    <3>3. Nests(sp)
      <4>1. sp \in S
        <5> HIDE DEF S, h, D, sp
        <5> QED
            BY <1>2, <3>2
      <4> QED
          BY <4>1
    <3> HIDE DEF sp
    <3> QED
        BY <3>2, <3>3
  <2> QED
    BY <2>1, <2>2
<1>3. D \subseteq S
  <2>1. \A b \in D : (\A c \in D : h[c] < h[b] => c \in S) => b \in S
    BY <1>2
  <2> HIDE DEF D, h, S
  <2> QED
    BY <1>1, <2>1, HeightInduction
<1> QED
    BY <1>3

LEMMA DepthIsGained ==
    ASSUME NEW hs, NEW dt, Dag(hs, dt), Pure(hs, dt),
           NEW v \in DOMAIN hs, NEW c \in ChainIn(dt, v)
    PROVE  (IF dt[v].blue_score > dt[c].blue_score THEN dt[v].blue_score - dt[c].blue_score ELSE 0)
               = Cardinality(BluesOf(dt, v) \ BluesOf(dt, c))
<1> DEFINE V == BluesOf(dt, v)
           C == BluesOf(dt, c)
<1>1. c \in DOMAIN hs /\ ChainIn(dt, c) \subseteq ChainIn(dt, v)
    BY ChainsNest
<1>2. C \subseteq V
    BY <1>1 DEF BluesOf
<1>3. /\ IsFiniteSet(V) /\ dt[v].blue_score = Cardinality(V)
      /\ IsFiniteSet(C) /\ dt[c].blue_score = Cardinality(C)
    BY <1>1, ScoreCounts
<1> HIDE DEF V, C
<1>4. Cardinality(V \ C) = Cardinality(V) - Cardinality(V \cap C)
    BY <1>3, FS_Difference
<1>5. V \cap C = C
    BY <1>2
<1>6. Cardinality(V) \in Nat /\ Cardinality(C) \in Nat /\ Cardinality(C) <= Cardinality(V)
    BY <1>2, <1>3, FS_CardinalityType, FS_Subset
<1> DEFINE m == Cardinality(V)
           n == Cardinality(C)
           k == Cardinality(V \ C)
<1>7. k = m - n /\ m \in Nat /\ n \in Nat /\ n <= m
    BY <1>4, <1>5, <1>6
<1>8. dt[v].blue_score = m /\ dt[c].blue_score = n
    BY <1>3
<1> HIDE DEF m, n, k
<1>9. (IF m > n THEN m - n ELSE 0) = k
    BY <1>7
<1> QED
    BY <1>8, <1>9 DEF V, C, k

(* Backend::receipt: the place in the index is that of a block of the      *)
(* chain, and the result found there is what executing that block gives.   *)
LEMMA IndexedIsListed ==
    ASSUME NodeInv, DagInv, NEW tx \in DOMAIN tx_index
    PROVE  LET at == tx_index[tx]
           IN  \E c \in ChainIn(data, executor.tip) \ {Genesis} :
                   /\ Placed(Fresh, at, tx, c)
                   /\ Own(Fresh, c).hash = c
                   /\ at.height \in DOMAIN executor.results
                   /\ executor.results[at.height] = Own(Fresh, c)
<1> DEFINE b == executor.tip
           at == tx_index[tx]
<1>1. Ledger(data, Fresh, b) /\ Same(executor, Fresh[b]) /\ IndexOf(data, Fresh, tx_index, b)
    BY NodeLedger DEF NodeInv
<1> HIDE DEF Fresh, b
<1>2. PICK c \in ChainIn(data, b) \ {Genesis} : Placed(Fresh, at, tx, c)
    BY <1>1 DEF IndexOf
<1>3. /\ Fresh[b].height \in Nat /\ DOMAIN Fresh[b].results = 0..Fresh[b].height
      /\ Fresh[c].height \in 0..Fresh[b].height /\ Fresh[c].height \in 0..Fresh[c].height
      /\ \A n \in 0..Fresh[c].height : Fresh[b].results[n] = Fresh[c].results[n]
      /\ Own(Fresh, c).hash = c
    BY <1>1, <1>2 DEF Ledger
<1>4. executor.results = Fresh[b].results /\ at.height = Fresh[c].height
    BY <1>1, <1>2 DEF Same, Placed
<1>5. at.height \in DOMAIN executor.results /\ executor.results[at.height] = Own(Fresh, c)
    BY <1>3, <1>4 DEF Own
<1> QED
    BY <1>2, <1>3, <1>5 DEF b

(* get_transaction_receipt, when nothing comes between its sections. *)
LEMMA ReceiptIsWhole ==
    ASSUME NodeInv, DagInv, NEW tx \in DOMAIN tx_index
    PROVE  LET at      == tx_index[tx]
               outcome == executor.results[at.height]
           IN  /\ Located(tx) = [found |-> TRUE, at |-> at, outcome |-> outcome]
               /\ Receipt(tx) = ReceiptWith(at, outcome, SenderOf(tx))
<1>1. /\ tx_index[tx].height \in DOMAIN executor.results
      /\ tx_index[tx].index \in DOMAIN executor.results[tx_index[tx].height].executed
    BY IndexedIsListed DEF Placed
<1>2. Located(tx) = [found |-> TRUE, at |-> tx_index[tx],
                     outcome |-> executor.results[tx_index[tx].height]]
    BY <1>1 DEF Located
<1> QED
    BY <1>2 DEF Receipt, ReceiptAnswer

(* get_transaction_receipt and get_confidence: the depth of a transaction  *)
(* is the number of blue blocks gained over the block that executed it,    *)
(* whichever blocks the chain merged since.                                *)
THEOREM DepthCounts ==
    BackendSpec /\ [][ReorgSucceeds]_backendVars => []DepthCountsBlues
<1>1. NodeInv /\ DagInv /\ Pure(headers, data) => DepthCountsBlues
  <2> SUFFICES ASSUME NodeInv, DagInv, Pure(headers, data), NEW tx \in DOMAIN tx_index
               PROVE  Receipt(tx).depth =
                          Cardinality(BluePast(VirtualSelectedParent) \ BluePast(tx_index[tx].chain_block))
    BY DEF DepthCountsBlues
  <2> DEFINE V == VirtualSelectedParent
             c == tx_index[tx].chain_block
  <2>1. TxIndexIsExact
    BY IndexIsExact
  <2>2. /\ tx_index[tx].height \in 1..executor.height
        /\ executor.results[tx_index[tx].height].hash = c
    BY <2>1 DEF TxIndexIsExact
  <2>3. /\ Ledger(data, Fresh, V) /\ V \in Present /\ Same(executor, Fresh[V])
        /\ IndexOf(data, Fresh, tx_index, V)
    BY NodeLedger DEF NodeInv
  <2>4. executor.height \in Nat /\ DOMAIN executor.results = 0..executor.height
    BY <2>3 DEF Ledger, Same
  <2>5. c \in ChainIn(data, V)
    BY <2>3 DEF IndexOf, Placed
  <2>6. Receipt(tx).depth = BlueDepth(c)
    BY <2>2, ReceiptIsWhole DEF ReceiptWith
  <2>7. BluePast(V) = BluesOf(data, V) /\ BluePast(c) = BluesOf(data, c)
    BY DEF BluePast, Chain, BluesOf
  <2> HIDE DEF V
  <2>8. BlueDepth(c) = Cardinality(BluesOf(data, V) \ BluesOf(data, c))
    BY <2>3, <2>5, StoreIsDag, DepthIsGained DEF BlueDepth, V, Present
  <2> QED
    BY <2>6, <2>7, <2>8 DEF V
<1> QED
    BY <1>1, NodeInvariant, NodeIsOfADag, PTL

-----------------------------------------------------------------------------
(* The hypothesis of the theorems above, from what an operator can see.    *)
(* A reorg that removes no more blocks than the journal holds:             *)
ReorgIsShallow ==
    executor.tip # VirtualSelectedParent' =>
        Len(ComputeReorg(data', executor.tip, VirtualSelectedParent').removed)
            <= Len(executor.journal)

JournalInv == Unbroken(data, executor, executor.tip)

LEMMA UnbrokenStays ==
    ASSUME NEW hs, NEW dt, NEW R, NEW x, NEW b, StandsAt(hs, dt, R, x, b), Unbroken(dt, x, b),
           NEW dt2, \A c \in DOMAIN hs : dt2[c] = dt[c]
    PROVE  Unbroken(dt2, x, b)
<1> DEFINE j == x.journal
<1>1. PICK U : j \in Seq(U) /\ \A r \in U : GoodRecord(hs, dt, R, r)
    BY DEF StandsAt, GoodJournal
<1>2. /\ j # <<>> => j[Len(j)].hash = b
      /\ \A i \in 1..Len(j) - 1 : dt[j[i + 1].hash].selected_parent = j[i].hash
    BY DEF Unbroken
<1> HIDE DEF j
<1>3. ASSUME NEW i \in 1..Len(j) - 1 PROVE dt2[j[i + 1].hash].selected_parent = j[i].hash
  <2>1. i + 1 \in 1..Len(j)
    BY <1>1
  <2>2. j[i + 1].hash \in DOMAIN hs
    BY <1>1, <2>1 DEF GoodRecord
  <2> QED
    BY <1>2, <2>2
<1> QED
    BY <1>2, <1>3 DEF Unbroken, j

LEMMA HeightIsDepth ==
    ASSUME NEW hs, NEW dt, Dag(hs, dt), NEW bs, Bodied(hs, bs), NEW R, Replays(hs, dt, bs, R)
    PROVE  \A b \in DOMAIN hs : R[b].height + 1 = Depth(dt, b)
<1> DEFINE D == DOMAIN hs
           h == [c \in D |-> dt[c].topological_height]
           Deep(c) == R[c].height + 1 = Depth(dt, c)
           S == {c \in D : Deep(c)}
<1>1. \A c \in D : h[c] \in Nat
    BY DEF Dag, WellFormed, Layered
<1>2. Replayed(hs, dt, R) /\ Linked(hs, dt)
    BY ReplayIsFit, DagIsLinked
<1>3. /\ \A c \in D : R[c].height \in Nat
      /\ \A c \in D \ {Genesis} : R[c].height = R[dt[c].selected_parent].height + 1
    BY <1>2 DEF Replayed, Above, Fit
<1>4. \A c \in D \ {Genesis} : Depth(dt, c) = Depth(dt, dt[c].selected_parent) + 1
    BY <1>2 DEF Linked
<1>5. ASSUME NEW b \in D, \A c \in D : h[c] < h[b] => c \in S
      PROVE  b \in S
  <2>1. CASE b = Genesis
    <3>1. ChainIn(dt, Genesis) = {Genesis}
        BY BluesOfGenesis
    <3>2. Depth(dt, Genesis) = 1
        BY <3>1, FS_Singleton DEF Depth
    <3>3. R[Genesis].height = 0
      <4>1. R[Genesis] = GenesisExecutor
          BY <2>1 DEF Replays, ReplayStep
      <4> QED
          BY <4>1 DEF GenesisExecutor
    <3> QED
        BY <2>1, <3>2, <3>3
  <2>2. CASE b # Genesis
    <3> DEFINE sp == dt[b].selected_parent
    <3>1. StepsFrom(hs, dt, b, sp)
        BY <2>2, PastSplits
    <3>2. sp \in D /\ h[sp] < h[b]
        BY <3>1 DEF StepsFrom
    <3>3. sp \in S
      <4> HIDE DEF S, h, D, sp
      <4> QED
          BY <1>5, <3>2
    <3>4. R[sp].height + 1 = Depth(dt, sp)
        BY <3>3
    <3>5. R[b].height = R[sp].height + 1 /\ Depth(dt, b) = Depth(dt, sp) + 1
        BY <1>3, <1>4, <2>2
    <3> HIDE DEF sp
    <3> QED
        BY <3>4, <3>5
  <2> QED
    BY <2>1, <2>2
<1>6. D \subseteq S
  <2>1. \A b \in D : (\A c \in D : h[c] < h[b] => c \in S) => b \in S
    BY <1>5
  <2> HIDE DEF D, h, S
  <2> QED
    BY <1>1, <2>1, HeightInduction
<1> QED
    BY <1>6

LEMMA YoungIsLow ==
    ASSUME IsFiniteSet(Hash), Cardinality(Hash) <= PruningWindow,
           NEW hs, DOMAIN hs \subseteq Hash, NEW dt, Dag(hs, dt), NEW bs, Bodied(hs, bs),
           NEW R, Replays(hs, dt, bs, R)
    PROVE  \A d \in DOMAIN hs : R[d].height <= PruningWindow
<1> SUFFICES ASSUME NEW d \in DOMAIN hs PROVE R[d].height <= PruningWindow
    OBVIOUS
<1>1. R[d].height + 1 = Depth(dt, d)
    BY HeightIsDepth
<1>2. Depth(dt, d) <= Cardinality(DOMAIN hs)
    BY DagIsLinked DEF Linked
<1>3. Cardinality(DOMAIN hs) <= Cardinality(Hash) /\ Cardinality(DOMAIN hs) \in Nat /\ Cardinality(Hash) \in Nat
    BY FS_Subset, FS_CardinalityType
<1>4. R[d].height \in Nat
    BY ReplayIsFit DEF Replayed, Fit
<1> DEFINE m == Cardinality(DOMAIN hs)
           n == Cardinality(Hash)
           k == Depth(dt, d)
<1>5. R[d].height + 1 = k /\ k <= m /\ m <= n /\ m \in Nat /\ n \in Nat /\ n <= PruningWindow
    BY <1>1, <1>2, <1>3
<1> HIDE DEF m, n, k
<1> QED
    BY <1>4, <1>5, ExecutorAssumption

LEMMA BlockKeepsJournal ==
    ASSUME NodeInv, JournalInv, DagInv, DagInv', HeadFree', Whole(executor) \/ ReorgIsShallow,
           NEW b \in Hash, NEW ps \in ParentSets(Present), NEW w \in Work, NEW body \in Seq(Tx),
           AddBlockAndAdvance(b, ps, w, body)
    PROVE  /\ ReorgSucceeds /\ JournalInv'
           /\ /\ Whole(executor)
              /\ IsFiniteSet(Hash) /\ Cardinality(Hash) <= PruningWindow
              => Whole(executor')
<1> DEFINE T == executor.tip
           V == VirtualSelectedParent'
           reorg == ComputeReorg(data', T, V)
           applied == ApplyReorg(data', bodies', executor, reorg)
           Young == IsFiniteSet(Hash) /\ Cardinality(Hash) <= PruningWindow
<1>1. /\ AddBlock(b, ps, w) /\ bodies' = Extend(bodies, b, body)
      /\ AdvanceBackend(V)
    BY DEF AddBlockAndAdvance, VirtualSelectedParent
<1>2. /\ DOMAIN bodies = Present /\ Bodied(headers, bodies)
      /\ StandsAt(headers, data, Fresh, executor, T)
      /\ Unbroken(data, executor, T)
    BY DEF NodeInv, JournalInv
<1> HIDE DEF Fresh, T, V
<1>3. /\ Agree(headers, data, headers', data')
      /\ Bodied(headers', bodies')
      /\ Dag(headers, data) /\ Dag(headers', data')
      /\ Extends(headers, data, bodies, headers', data', bodies')
      /\ Replays(headers, data, bodies, Fresh) /\ Replays(headers', data', bodies', Fresh')
    BY <1>1, <1>2, StoreGrows
<1>4. StandsAt(headers', data', Fresh', executor, T)
    BY <1>2, <1>3, StandsStill
<1>5. Unbroken(data', executor, T)
  <2>1. \A c \in DOMAIN headers : data'[c] = data[c]
    BY <1>3 DEF Agree
  <2> QED
    BY <1>2, <2>1, UnbrokenStays
<1>6. Young => \A d \in DOMAIN headers' : Fresh'[d].height <= PruningWindow
  <2>1. DOMAIN headers' \subseteq Hash
    BY DEF DagInv, TypeOK, Present
  <2> QED
    BY <1>3, <2>1, YoungIsLow
<1> HIDE DEF Young
<1>7. CASE V = T
  <2>1. executor' = executor
    BY <1>1, <1>7 DEF AdvanceBackend, T
  <2>2. executor'.tip = T
    BY <2>1 DEF T
  <2>3. ReorgSucceeds
    BY <1>7 DEF ReorgSucceeds, T, V
  <2> QED
    BY <1>5, <2>1, <2>2, <2>3 DEF JournalInv
<1>8. CASE V # T
  <2>1. V \in DOMAIN headers' /\ \A d \in DOMAIN headers' : V \notin headers'[d].parents
    BY DEF HeadFree, Present, V
  <2>2. V \notin ChainIn(data', T)
    BY <1>3, <1>4, <1>8, <2>1, ChainsHaveChildren DEF StandsAt
  <2>3. Whole(executor) \/ Len(reorg.removed) <= Len(executor.journal)
    BY <1>8 DEF ReorgIsShallow, T, V
  <2> HIDE DEF applied, reorg
  <2>4. /\ applied.ok /\ Unbroken(data', applied.ex, V)
        /\ Whole(executor) /\ Young => Whole(applied.ex)
    BY <1>3, <1>4, <1>5, <1>6, <2>1, <2>2, <2>3, ReorgIsUnbroken DEF applied, reorg
  <2>5. applied.ex.tip = V
    BY <1>3, <1>4, <2>1, <2>2, <2>4, ReorgStands DEF applied, reorg
  <2>6. ReorgSucceeds
    BY <2>4 DEF ReorgSucceeds, applied, reorg, T, V
  <2>7. executor' = applied.ex
    BY <1>1, <1>8 DEF AdvanceBackend, applied, reorg, T
  <2> QED
    BY <2>4, <2>5, <2>6, <2>7 DEF JournalInv, Young
<1> QED
    BY <1>7, <1>8

LEMMA StepKeepsJournal ==
    ASSUME NodeInv, JournalInv, DagInv, DagInv', HeadFree',
           Whole(executor) \/ [ReorgIsShallow]_backendVars, [BackendNext]_backendVars
    PROVE  /\ [ReorgSucceeds]_backendVars /\ JournalInv'
           /\ /\ Whole(executor)
              /\ IsFiniteSet(Hash) /\ Cardinality(Hash) <= PruningWindow
              => Whole(executor')
<1>1. CASE UNCHANGED <<data, executor>> /\ (executor.tip = VirtualSelectedParent' \/ UNCHANGED backendVars)
  <2>1. [ReorgSucceeds]_backendVars
    BY <1>1 DEF ReorgSucceeds
  <2> QED
    BY <1>1, <2>1 DEF JournalInv
<1>2. CASE \E tx \in Tx : SubmitRaw(tx) \/ SubmitRefused(tx)
  <2>1. data' = data /\ tips' = tips /\ executor' = executor
    BY <1>2 DEF SubmitRaw, SubmitRefused, allVars, vars
  <2>2. executor.tip = VirtualSelectedParent'
    BY <2>1 DEF NodeInv, VirtualSelectedParent
  <2> QED
    BY <1>1, <2>1, <2>2
<1>3. CASE /\ ~ UNCHANGED backendVars
           /\ \E b \in Hash, ps \in ParentSets(Present), w \in Work, body \in Bodies :
                  AddBlockAndAdvance(b, ps, w, body)
  <2>1. PICK b \in Hash, ps \in ParentSets(Present), w \in Work, body \in Bodies :
             AddBlockAndAdvance(b, ps, w, body)
    BY <1>3
  <2>2. body \in Seq(Tx)
    BY ExecutorAssumption
  <2>3. Whole(executor) \/ ReorgIsShallow
    BY <1>3
  <2> QED
    BY <2>1, <2>2, <2>3, BlockKeepsJournal
<1>4. CASE UNCHANGED backendVars
  <2>1. UNCHANGED <<data, executor>>
    BY <1>4 DEF backendVars
  <2> QED
    BY <1>1, <1>4, <2>1
<1> QED
    BY <1>2, <1>3, <1>4 DEF BackendNext

LEMMA JournalStarts == BackendInit => JournalInv /\ Whole(executor)
<1> SUFFICES ASSUME BackendInit PROVE JournalInv /\ Whole(executor)
    OBVIOUS
<1>1. executor.journal = <<>> /\ executor.height = 0
    BY DEF BackendInit, ExecInit, GenesisExecutor
<1> QED
    BY <1>1 DEF JournalInv, Unbroken, Whole

(* apply_reorg and undo_one: the journal never has a gap, so what makes a  *)
(* reorg fail is its depth and nothing else.  One that removes no more     *)
(* blocks than the journal has records succeeds.                           *)
THEOREM ShallowReorgsSucceed ==
    BackendSpec /\ [][ReorgIsShallow]_backendVars => [][ReorgSucceeds]_backendVars
<1>1. BackendInit /\ DagInv => NodeInv /\ JournalInv
    BY NodeInitEstablishes, JournalStarts
<1>2. /\ NodeInv /\ JournalInv /\ DagInv /\ DagInv' /\ HeadFree' /\ [BackendNext]_backendVars
      /\ [ReorgIsShallow]_backendVars
      => NodeInv' /\ JournalInv' /\ [ReorgSucceeds]_backendVars
    BY StepKeepsNode, StepKeepsJournal
<1> QED
    BY <1>1, <1>2, NodeIsOfADag, HeadIsFree, PTL DEF BackendSpec

(* prune_journal: as long as no more blocks exist than the window is long, *)
(* nothing is pruned, and no reorg fails, however deep.                    *)
THEOREM YoungReorgsSucceed ==
    ASSUME IsFiniteSet(Hash), Cardinality(Hash) <= PruningWindow
    PROVE  BackendSpec => [][ReorgSucceeds]_backendVars
<1>1. BackendInit /\ DagInv => NodeInv /\ JournalInv /\ Whole(executor)
    BY NodeInitEstablishes, JournalStarts
<1>2. /\ NodeInv /\ JournalInv /\ Whole(executor) /\ DagInv /\ DagInv' /\ HeadFree'
      /\ [BackendNext]_backendVars
      => NodeInv' /\ JournalInv' /\ Whole(executor)' /\ [ReorgSucceeds]_backendVars
  <2> SUFFICES ASSUME NodeInv, JournalInv, Whole(executor), DagInv, DagInv', HeadFree',
                      [BackendNext]_backendVars
               PROVE  NodeInv' /\ JournalInv' /\ Whole(executor)' /\ [ReorgSucceeds]_backendVars
    OBVIOUS
  <2>1. [ReorgSucceeds]_backendVars /\ JournalInv' /\ Whole(executor')
    BY StepKeepsJournal
  <2>2. NodeInv'
    BY <2>1, StepKeepsNode
  <2> QED
    BY <2>1, <2>2
<1> QED
    BY <1>1, <1>2, NodeIsOfADag, HeadIsFree, PTL DEF BackendSpec


-----------------------------------------------------------------------------
(* The development chain.  What the template takes from the pool are       *)
(* transactions.                                                           *)
BestRun(p, fee, limit, f) ==
    f = [n \in 0..limit |-> IF n = 0 THEN <<>> ELSE Pool!Taken(p, fee, f[n - 1])]

LEMMA BestRuns ==
    ASSUME NEW p, NEW fee, NEW limit \in Nat
    PROVE  \E f : BestRun(p, fee, limit, f) /\ Pool!BestTransactions(p, fee, limit) = f[limit]
<1> DEFINE To(k, f) == f = [n \in 0..k |-> IF n = 0 THEN <<>> ELSE Pool!Taken(p, fee, f[n - 1])]
           G == {k \in Nat : \E f : To(k, f)}
<1>1. 0 \in G
  <2> DEFINE g == [n \in 0..0 |-> <<>>]
  <2>1. g = [n \in 0..0 |-> IF n = 0 THEN <<>> ELSE Pool!Taken(p, fee, g[n - 1])]
    OBVIOUS
  <2> QED
    BY <2>1
<1>2. ASSUME NEW k \in Nat, k \in G PROVE k + 1 \in G
  <2>1. PICK f : To(k, f)
    BY <1>2
  <2> DEFINE g == [n \in 0..(k + 1) |-> IF n = 0 THEN <<>> ELSE Pool!Taken(p, fee, f[n - 1])]
  <2>2. \A n \in 0..k : g[n] = f[n]
    BY <2>1
  <2>3. \A n \in 0..(k + 1) : n # 0 => n - 1 \in 0..k
    OBVIOUS
  <2>4. g = [n \in 0..(k + 1) |-> IF n = 0 THEN <<>> ELSE Pool!Taken(p, fee, g[n - 1])]
    <3>1. \A n \in 0..(k + 1) : n # 0 => g[n - 1] = f[n - 1]
        BY <2>2, <2>3
    <3>2. g = [n \in 0..(k + 1) |-> IF n = 0 THEN <<>> ELSE Pool!Taken(p, fee, f[n - 1])]
        OBVIOUS
    <3> HIDE DEF g
    <3> QED
        BY <3>1, <3>2
  <2>5. \E h : To(k + 1, h)
    <3>1. To(k + 1, g)
        BY <2>4
    <3> HIDE DEF g, To
    <3> QED
        BY <3>1
  <2> QED
    BY <2>5
<1>3. \E f : BestRun(p, fee, limit, f)
  <2>1. Nat \subseteq G
    <3> HIDE DEF G
    <3> QED
        BY <1>1, <1>2, Counting
  <2> QED
    BY <2>1 DEF BestRun
<1> DEFINE Run(f) == BestRun(p, fee, limit, f)
           chosen == CHOOSE f : Run(f)
<1>4. Run(chosen)
  <2> HIDE DEF Run
  <2>1. \E f : Run(f)
    BY <1>3 DEF Run
  <2> QED
    BY <2>1
<1>5. Pool!BestTransactions(p, fee, limit) = chosen[limit]
    BY DEF Pool!BestTransactions, BestRun
<1> QED
    BY <1>4, <1>5

(* What is taken is pooled; the choice among candidates is theirs as long  *)
(* as some candidate is no worse than the others, which is module TxPool's *)
(* affair (BestExists).                                                    *)
(* Of finitely many naturals one is least. *)
LEMMA LowestExists ==
    ASSUME NEW S, S \subseteq Nat, S # {}
    PROVE  \E n \in S : \A m \in S : ~ (m < n)
<1>1. IsWellFoundedOn(OpToRel(<, Nat), Nat)
    BY NatLessThanWellFounded
<1>2. \E n \in S : \A m \in S : ~ (<<m, n>> \in OpToRel(<, Nat))
    BY <1>1, WFMin
<1> QED
    BY <1>2 DEF OpToRel

(* Of the candidates one is best: of those with the highest tip the first. *)
LEMMA BestIsPooled ==
    ASSUME NEW p, PoolShape(p), NEW fee \in Nat, NEW out, Pool!Candidates(p, out) # {}
    PROVE  Pool!Best(p, fee, out) \in Tx
<1> DEFINE C == Pool!Candidates(p, out)
           tip == [t \in C |-> Pool!EffectiveTip(t, fee)]
           arrival == [t \in C |-> p.by_hash[t]]
<1>1. C \subseteq Tx /\ IsFiniteSet(C) /\ \A t \in C : p.by_hash[t] \in Nat
  <2>1. C \subseteq Pool!Pooled(p)
    BY DEF Pool!Candidates
  <2> HIDE DEF C
  <2> QED
    BY <2>1, FS_Subset DEF PoolShape
<1>2. \A a, b \in C : Pool!Worse(p, fee, a, b) <=>
          tip[a] < tip[b] \/ (tip[a] = tip[b] /\ arrival[a] > arrival[b])
    BY DEF Pool!Worse
<1>3. C # {}
    OBVIOUS
<1>4. \A t \in C : Pool!EffectiveTip(t, fee) \in Nat
  <2> SUFFICES ASSUME NEW t \in C PROVE Pool!EffectiveTip(t, fee) \in Nat
    OBVIOUS
  <2>1. t.max_fee \in Nat /\ t.priority \in Nat
    BY <1>1, BackendAssumption
  <2> QED
    BY <2>1 DEF Pool!EffectiveTip
<1>5. Pool!Best(p, fee, out) = CHOOSE t \in C : \A other \in C \ {t} : ~ Pool!Worse(p, fee, t, other)
    BY DEF Pool!Best
<1> HIDE DEF C
<1>6. \A t \in C : tip[t] \in Nat /\ arrival[t] \in Nat
    BY <1>1, <1>4
<1> HIDE DEF tip, arrival
<1>7. PICK m \in Nat : (\E t \in C : tip[t] = m) /\ \A t \in C : tip[t] <= m
  <2> DEFINE T == {tip[t] : t \in C}
  <2>1. IsFiniteSet(T)
    BY <1>1, ImageIsFinite
  <2>2. T \subseteq Nat /\ T # {}
    BY <1>3, <1>6
  <2>3. \A t \in C : tip[t] \in T
    OBVIOUS
  <2>4. \A n \in T : \E t \in C : tip[t] = n
    OBVIOUS
  <2> HIDE DEF T
  <2>5. Max(T) \in T /\ Max(T) \in Nat /\ \A n \in T : n <= Max(T)
    BY <2>1, <2>2, HighestExists
  <2> QED
    BY <2>3, <2>4, <2>5
<1>8. PICK t \in C : tip[t] = m /\ \A other \in C : tip[other] = m => ~ (arrival[other] < arrival[t])
  <2> DEFINE A == {arrival[other] : other \in {o \in C : tip[o] = m}}
  <2>1. A \subseteq Nat /\ A # {}
    BY <1>6, <1>7
  <2>2. PICK n \in A : \A k \in A : ~ (k < n)
    <3> HIDE DEF A
    <3> QED
        BY <2>1, LowestExists
  <2> QED
    BY <2>2
<1>9. \A other \in C \ {t} : ~ Pool!Worse(p, fee, t, other)
    BY <1>2, <1>6, <1>7, <1>8
<1>10. Pool!Best(p, fee, out) \in C
    BY <1>5, <1>9
<1> QED
    BY <1>1, <1>10

(* best_transactions: what the template takes are transactions. *)
LEMMA BestAreTransactions ==
    ASSUME NEW p, PoolShape(p), NEW fee \in Nat, NEW limit \in Nat
    PROVE  Pool!BestTransactions(p, fee, limit) \in Seq(Tx)
<1>1. PICK f : BestRun(p, fee, limit, f) /\ Pool!BestTransactions(p, fee, limit) = f[limit]
    BY BestRuns
<1> DEFINE G == {n \in Nat : n <= limit => f[n] \in Seq(Tx)}
<1>2. 0 \in G
  <2>1. f[0] = <<>>
    BY <1>1 DEF BestRun
  <2>2. <<>> \in Seq(Tx)
    OBVIOUS
  <2> QED
    BY <2>1, <2>2
<1>3. ASSUME NEW n \in Nat, n \in G PROVE n + 1 \in G
  <2> SUFFICES ASSUME n + 1 <= limit PROVE f[n + 1] \in Seq(Tx)
    OBVIOUS
  <2>1. n + 1 \in 0..limit /\ n + 1 # 0 /\ (n + 1) - 1 = n /\ n <= limit
    OBVIOUS
  <2>2. f[n + 1] = Pool!Taken(p, fee, f[n])
    BY <1>1, <2>1 DEF BestRun
  <2>3. f[n] \in Seq(Tx)
    BY <1>3, <2>1
  <2>4. CASE Pool!Candidates(p, f[n]) = {}
    BY <2>2, <2>3, <2>4 DEF Pool!Taken
  <2>5. CASE Pool!Candidates(p, f[n]) # {}
    <3> DEFINE out == f[n]
               t == Pool!Best(p, fee, out)
    <3>1. t \in Tx
        BY <2>5, BestIsPooled
    <3>2. f[n + 1] = Append(out, t)
        BY <2>2, <2>5 DEF Pool!Taken
    <3> HIDE DEF out, t
    <3>3. out \in Seq(Tx)
        BY <2>3 DEF out
    <3> QED
        BY <3>1, <3>2, <3>3
  <2> QED
    BY <2>4, <2>5
<1>4. Nat \subseteq G
  <2> HIDE DEF G
  <2> QED
    BY <1>2, <1>3, Counting
<1> QED
    BY <1>1, <1>4

-----------------------------------------------------------------------------
(* The development chain.  Only mined blocks are added, each on the one    *)
(* tip there is, so no block ever leaves the chain; what a template says   *)
(* of the chain is still true when its block joins it.                     *)
Lag(h) == IF h > DeferredLag THEN h - DeferredLag ELSE 0

DevInv ==
    /\ tips = {executor.tip}
    /\ \A c \in DOMAIN deferred :
           c \in Present /\ deferred[c] = Fresh[c].results[Lag(Fresh[c].height)]
    /\ template # NoTemplate =>
           /\ template.parents = {executor.tip} /\ template.body \in Seq(Tx)
           /\ template.deferred = executor.results[Lag(executor.height + 1)]

(* All that is kept between two steps. *)
Mining == NodeInv /\ JournalInv /\ DagInv /\ DevInv

LEMMA MiningStarts ==
    ASSUME DevInit
    PROVE  Mining
<1>1. BackendInit /\ template = NoTemplate /\ DOMAIN deferred = {}
    BY DEF DevInit
<1>2. DagInv
    BY <1>1, InitEstablishes DEF BackendInit, ExecInit
<1>3. NodeInv /\ JournalInv
    BY <1>1, <1>2, NodeInitEstablishes, JournalStarts
<1>4. tips = {executor.tip}
    BY <1>1 DEF BackendInit, ExecInit, Init, GenesisExecutor
<1> QED
    BY <1>1, <1>2, <1>3, <1>4 DEF Mining, DevInv

(* The one tip is the template's one parent. *)
LEMMA LoneTip ==
    ASSUME Mining
    PROVE  /\ TopTips = {executor.tip} /\ {executor.tip} \in ParentSets(Present)
<1> DEFINE T == executor.tip
<1>1. tips = {T} /\ T \in Present
    BY NodeLedger DEF Mining, DevInv
<1>2. ~ Heavier(data, T, T)
  <2>1. Weighed(data, DOMAIN headers)
    BY DEF Mining, DagInv, WellFormed
  <2> QED
    BY <1>1, <2>1, HeavierIsTotal DEF Present
<1>3. Cardinality({c \in {T} : Heavier(data, c, T)}) = 0
  <2>1. {c \in {T} : Heavier(data, c, T)} = {}
    BY <1>2
  <2> QED
    BY <2>1, FS_EmptySet
<1>4. TopTips = {T}
  <2>1. TopTips = {b \in {T} : Cardinality({c \in {T} : Heavier(data, c, b)}) < MaxParents}
    BY <1>1 DEF TopTips
  <2> QED
    BY <1>3, <2>1, BoundsAssumption
<1>5. Cardinality({T}) = 1
    BY FS_Singleton
<1> HIDE DEF T
<1>6. {T} \in ParentSets(Present)
    BY <1>1, <1>5, BoundsAssumption DEF ParentSets
<1> QED
    BY <1>4, <1>6 DEF T

(* What leaves the store and execution alone leaves the results alone. *)
LEMMA StoreStandsStill ==
    ASSUME Mining, UNCHANGED <<allVars, template, deferred>>
    PROVE  DevInv' /\ JournalInv'
<1>1. /\ headers' = headers /\ data' = data /\ tips' = tips /\ bodies' = bodies
      /\ executor' = executor /\ template' = template /\ deferred' = deferred
    BY DEF allVars, vars
<1>2. Fresh' = Fresh /\ Present' = Present
    BY <1>1 DEF Fresh, Present
<1> HIDE DEF Fresh, Present
<1> QED
    BY <1>1, <1>2 DEF Mining, DevInv, JournalInv

(* The lock is taken for the template: body, parents and deferred result.  *)
LEMMA TemplateIsTrue ==
    ASSUME Mining, DagInv', HeadFree', TakeTemplate
    PROVE  Mining'
<1>1. UNCHANGED backendVars /\ deferred' = deferred
    BY DEF TakeTemplate
<1>2. /\ headers' = headers /\ data' = data /\ tips' = tips /\ bodies' = bodies
      /\ executor' = executor /\ children' = children
      /\ tx_index' = tx_index /\ pool' = pool
    BY <1>1 DEF backendVars
<1>3. template'.parents = {executor.tip}
    BY LoneTip DEF TakeTemplate
<1>4. template'.body \in Seq(Tx)
  <2>1. PoolShape(pool)
    BY DEF Mining, NodeInv, Pending
  <2>2. Pool!BestTransactions(pool, NextBaseFee, TemplateTxs) \in Seq(Tx)
    BY <2>1, BackendAssumption, DevAssumption, BestAreTransactions
  <2> QED
    BY <2>2 DEF TakeTemplate
<1>5. template'.deferred = executor.results[Lag(executor.height + 1)]
  <2>1. template'.deferred = DeferredResultFor(executor, executor.height + 1)
    BY DEF TakeTemplate
  <2>2. executor.height \in Nat
    BY NodeLedger DEF Mining, Ledger, Same
  <2>3. DeferredResultFor(executor, executor.height + 1) = executor.results[Lag(executor.height + 1)]
    BY <2>2, DevAssumption DEF DeferredResultFor, Lag
  <2> QED
    BY <2>1, <2>3
<1>6. NodeInv' /\ JournalInv'
  <2>1. [BackendNext]_backendVars /\ [ReorgIsShallow]_backendVars
    BY <1>1
  <2> QED
    BY <2>1, StepKeepsJournal, StepKeepsNode DEF Mining
<1>7. Fresh' = Fresh /\ Present' = Present
    BY <1>2 DEF Fresh, Present
<1> HIDE DEF Fresh, Present
<1>8. DevInv'
    BY <1>1, <1>2, <1>3, <1>4, <1>5, <1>7 DEF Mining, DevInv
<1> QED
    BY <1>6, <1>8 DEF Mining


(* A block mined on the one tip: nothing leaves the chain. *)
LEMMA MinedIsShallow ==
    ASSUME Mining, DagInv', NEW b \in Hash, NEW w \in Work, NEW body \in Seq(Tx),
           AddBlockAndAdvance(b, {executor.tip}, w, body)
    PROVE  /\ tips' = {b} /\ VirtualSelectedParent' = b /\ b \in Present' \ Present
           /\ data'[b].selected_parent = executor.tip
           /\ ChainIn(data', b) = {b} \cup ChainIn(data', executor.tip)
           /\ ReorgIsShallow
<1> DEFINE T == executor.tip
<1>1. /\ AddBlock(b, {T}, w) /\ bodies' = Extend(bodies, b, body)
      /\ tips = {T} /\ {T} \in ParentSets(Present) /\ T \in Present /\ DagInv
      /\ DOMAIN bodies = Present /\ Bodied(headers, bodies)
      /\ StandsAt(headers, data, Fresh, executor, T)
    BY LoneTip DEF AddBlockAndAdvance, Mining, DevInv, ParentSets, NodeInv
<1>2. tips' = {b} /\ headers' = Extend(headers, b, [parents |-> {T}, work |-> w])
    BY <1>1 DEF AddBlock, TipsAfter
<1> HIDE DEF Fresh
<1>3. /\ b \notin Present /\ Present' = Present \cup {b}
      /\ Dag(headers', data')
    BY <1>1, StoreGrows
<1>4. VirtualSelectedParent' = b
  <2>1. VirtualSelectedParent' = CHOOSE c \in {b} : \A d \in {b} \ {c} : Heavier(data', c, d)
    BY <1>2 DEF VirtualSelectedParent, Heaviest
  <2> QED
    BY <2>1
<1>5. b \in DOMAIN headers' \ {Genesis} /\ headers'[b].parents = {T}
  <2>1. Genesis \in Present
    BY <1>1, StoreIsDag DEF Dag, Rooted, Present
  <2> QED
    BY <1>2, <1>3, <2>1 DEF Present, Extend
<1>6. data'[b].selected_parent = T /\ ChainIn(data', b) = {b} \cup ChainIn(data', T)
  <2>1. Linked(headers', data') /\ Layered(headers', data')
    BY <1>3, DagIsLinked DEF Dag, WellFormed
  <2>2. data'[b].selected_parent = b \/ data'[b].selected_parent \in headers'[b].parents
    BY <1>5, <2>1 DEF Layered
  <2>3. data'[b].selected_parent # b /\ ChainIn(data', b) = {b} \cup ChainIn(data', data'[b].selected_parent)
    BY <1>5, <2>1 DEF Linked
  <2> QED
    BY <1>5, <2>2, <2>3
<1> DEFINE reorg == ComputeReorg(data', T, b)
<1>7. Len(reorg.removed) = 0
  <2>1. T \in DOMAIN headers' /\ b \in DOMAIN headers'
    BY <1>1, <1>3, <1>5 DEF Present
  <2>2. PICK c : Leads(headers', data', T, b, reorg, c)
    BY <1>3, <2>1, ReorgLeads
  <2>3. reorg.removed \in Seq(DOMAIN headers' \ {Genesis}) /\ Range(reorg.removed) = {}
    BY <1>6, <2>2 DEF Leads
  <2> DEFINE s == reorg.removed
  <2> HIDE DEF reorg
  <2>4. s \in Seq(DOMAIN headers' \ {Genesis}) /\ Range(s) = {}
    BY <2>3
  <2> HIDE DEF s
  <2>5. DOMAIN s = {}
    BY <2>4 DEF Range
  <2>6. Len(s) = 0
    BY <2>4, <2>5
  <2> QED
    BY <2>6 DEF s
<1>8. Len(executor.journal) \in Nat
  <2>1. PICK U : executor.journal \in Seq(U)
    BY <1>1 DEF StandsAt, GoodJournal
  <2> QED
    BY <2>1
<1> HIDE DEF reorg
<1>9. ReorgIsShallow
  <2>1. Len(reorg.removed) <= Len(executor.journal)
    BY <1>7, <1>8
  <2> QED
    BY <1>4, <2>1 DEF ReorgIsShallow, reorg
<1> QED
    BY <1>2, <1>3, <1>4, <1>6, <1>9

(* The lock is taken again for the block: its template is still true.      *)
LEMMA MinedIsTrue ==
    ASSUME Mining, DagInv', HeadFree', NEW b \in Hash, NEW w \in Work, AddMined(b, w)
    PROVE  Mining' /\ ReorgSucceeds
<1> DEFINE T == executor.tip
           body == template.body
           n == Fresh[T].height
<1>1. /\ AddBlockAndAdvance(b, {T}, w, body) /\ body \in Seq(Tx)
      /\ deferred' = Extend(deferred, b, template.deferred)
      /\ template' = NoTemplate
      /\ template.deferred = executor.results[Lag(executor.height + 1)]
    BY DEF AddMined, Mining, DevInv
<1> HIDE DEF T, body
<1>2. /\ tips' = {b} /\ VirtualSelectedParent' = b /\ b \in Present' \ Present
      /\ data'[b].selected_parent = T
      /\ ReorgIsShallow
    BY <1>1, MinedIsShallow DEF T
<1>3. {T} \in ParentSets(Present)
    BY LoneTip DEF T
<1>4. ReorgSucceeds /\ JournalInv'
    BY <1>1, <1>2, <1>3, BlockKeepsJournal DEF Mining
<1>5. NodeInv'
    BY <1>1, <1>3, <1>4, BlockKeeps DEF Mining
<1>6. executor'.tip = b
    BY <1>2, <1>5 DEF NodeInv
<1>7. /\ T \in Present /\ Same(executor, Fresh[T])
      /\ DOMAIN bodies = Present /\ Bodied(headers, bodies)
    BY NodeLedger DEF Mining, NodeInv, T
<1> HIDE DEF Fresh
<1>8. /\ Dag(headers', data') /\ Bodied(headers', bodies')
      /\ \A c \in Present : Fresh'[c] = Fresh[c]
      /\ Replays(headers', data', bodies', Fresh')
      /\ Present' = Present \cup {b}
  <2>1. AddBlock(b, {T}, w) /\ bodies' = Extend(bodies, b, body)
    BY <1>1 DEF AddBlockAndAdvance
  <2>2. DagInv
    BY DEF Mining
  <2>3. /\ Dag(headers, data) /\ Dag(headers', data') /\ Bodied(headers', bodies')
        /\ Extends(headers, data, bodies, headers', data', bodies')
        /\ Replays(headers, data, bodies, Fresh) /\ Replays(headers', data', bodies', Fresh')
        /\ Present' = Present \cup {b}
    BY <1>1, <1>3, <1>7, <2>1, <2>2, StoreGrows
  <2>4. \A c \in Present : Fresh'[c] = Fresh[c]
    BY <2>3, ReplayAgrees DEF Present
  <2> QED
    BY <2>3, <2>4
<1>9. /\ n \in Nat /\ Fresh'[b].height = n + 1
      /\ \A i \in 0..n : Fresh'[b].results[i] = Fresh[T].results[i]
  <2>1. b \in DOMAIN headers' \ {Genesis}
    <3>1. Genesis \in Present
        BY StoreIsDag DEF Mining, Dag, Rooted, Present
    <3> QED
        BY <1>2, <3>1 DEF Present
  <2>2. Replayed(headers', data', Fresh')
    BY <1>8, ReplayIsFit
  <2>3. Above(Fresh'[T], Fresh'[b]) /\ Fit(Fresh'[T]) /\ Fit(Fresh'[b])
    BY <1>2, <1>7, <1>8, <2>1, <2>2 DEF Replayed, Present
  <2>4. Fresh'[T] = Fresh[T]
    BY <1>7, <1>8
  <2>5. /\ n \in Nat /\ Fresh'[b].height = n + 1 /\ DOMAIN Fresh'[b].results = 0..(n + 1)
        /\ Fresh[T].results = [i \in (0..(n + 1)) \ {n + 1} |-> Fresh'[b].results[i]]
    BY <2>3, <2>4 DEF Above, Fit
  <2> HIDE DEF n
  <2> QED
    BY <2>5
<1>10. template.deferred = Fresh'[b].results[Lag(Fresh'[b].height)]
  <2>1. template.deferred = Fresh[T].results[Lag(n + 1)]
    BY <1>1, <1>7 DEF Same
  <2> HIDE DEF n
  <2>2. Lag(n + 1) \in 0..n
    BY <1>9, DevAssumption DEF Lag
  <2> QED
    BY <1>9, <2>1, <2>2
<1>11. ASSUME NEW c \in DOMAIN deferred'
       PROVE  c \in Present' /\ deferred'[c] = Fresh'[c].results[Lag(Fresh'[c].height)]
  <2>1. CASE c = b
    BY <1>1, <1>2, <1>10, <2>1 DEF Extend
  <2>2. CASE c # b
    <3>1. c \in DOMAIN deferred /\ deferred'[c] = deferred[c]
        BY <1>1, <2>2 DEF Extend
    <3>2. c \in Present /\ deferred[c] = Fresh[c].results[Lag(Fresh[c].height)]
        BY <3>1 DEF Mining, DevInv
    <3> QED
        BY <1>8, <3>1, <3>2
  <2> QED
    BY <2>1, <2>2
<1>12. DevInv'
    BY <1>1, <1>2, <1>6, <1>11 DEF DevInv
<1> QED
    BY <1>4, <1>5, <1>12 DEF Mining


LEMMA MiningIsOfADag ==
    ASSUME Mining, [DevNext]_devVars
    PROVE  DagInv'
<1>1. CASE \E tx \in Tx : SubmitRaw(tx) \/ SubmitRefused(tx)
    BY <1>1, StepKeepsInvariant DEF SubmitRaw, SubmitRefused, allVars, Mining
<1>2. CASE TakeTemplate \/ GiveUp \/ UNCHANGED devVars
  <2>1. UNCHANGED vars
    BY <1>2 DEF TakeTemplate, GiveUp, devVars, backendVars, vars
  <2> QED
    BY <2>1, StepKeepsInvariant DEF Mining
<1>3. CASE \E b \in Hash, w \in Work : AddMined(b, w)
  <2>1. PICK b \in Hash, w \in Work : AddMined(b, w)
    BY <1>3
  <2>2. AddBlock(b, {executor.tip}, w)
    BY <2>1 DEF AddMined, AddBlockAndAdvance, Mining, DevInv
  <2>3. {executor.tip} \in ParentSets(Present)
    BY LoneTip
  <2>4. [Next]_vars
    BY <2>2, <2>3 DEF Next
  <2> QED
    BY <2>4, StepKeepsInvariant DEF Mining
<1> QED
    BY <1>1, <1>2, <1>3 DEF DevNext

LEMMA MiningGoesOn ==
    ASSUME Mining, DagInv', HeadFree', [DevNext]_devVars
    PROVE  Mining' /\ [ReorgSucceeds]_backendVars
<1>1. CASE (\E tx \in Tx : SubmitRaw(tx) \/ SubmitRefused(tx)) /\ UNCHANGED <<template, deferred>>
  <2>1. UNCHANGED <<allVars, template, deferred>>
    BY <1>1 DEF SubmitRaw, SubmitRefused
  <2>2. executor.tip = VirtualSelectedParent'
    BY <2>1 DEF allVars, vars, Mining, NodeInv, VirtualSelectedParent
  <2>3. [ReorgSucceeds]_backendVars
    BY <2>2 DEF ReorgSucceeds
  <2>4. [BackendNext]_backendVars
    BY <1>1 DEF BackendNext
  <2>5. NodeInv'
    BY <2>3, <2>4, StepKeepsNode DEF Mining
  <2> QED
    BY <2>1, <2>3, <2>5, StoreStandsStill DEF Mining
<1>2. CASE TakeTemplate
  <2>1. UNCHANGED backendVars
    BY <1>2 DEF TakeTemplate
  <2> QED
    BY <1>2, <2>1, TemplateIsTrue
<1>3. CASE \E b \in Hash, w \in Work : AddMined(b, w)
    BY <1>3, MinedIsTrue
<1>4. CASE GiveUp \/ UNCHANGED devVars
  <2>1. UNCHANGED backendVars /\ deferred' = deferred /\ (template' = template \/ template' = NoTemplate)
    BY <1>4 DEF GiveUp, devVars
  <2>2. /\ headers' = headers /\ data' = data /\ tips' = tips /\ bodies' = bodies
        /\ executor' = executor
    BY <2>1 DEF backendVars
  <2>3. Fresh' = Fresh /\ Present' = Present
    BY <2>2 DEF Fresh, Present
  <2>4. NodeInv' /\ JournalInv'
    <3>1. [BackendNext]_backendVars /\ [ReorgIsShallow]_backendVars
        BY <2>1
    <3> QED
        BY <3>1, StepKeepsJournal, StepKeepsNode DEF Mining
  <2> HIDE DEF Fresh, Present
  <2>5. DevInv'
    BY <2>1, <2>2, <2>3 DEF Mining, DevInv
  <2> QED
    BY <2>1, <2>4, <2>5 DEF Mining
<1> QED
    BY <1>1, <1>2, <1>3, <1>4 DEF DevNext

LEMMA MiningInvariant == DevSpec => []Mining /\ [][ReorgSucceeds]_backendVars
<1>1. DevInit => Mining
    BY MiningStarts
<1>2. Mining /\ [DevNext]_devVars => DagInv'
    BY MiningIsOfADag
<1>3. Mining /\ DagInv' /\ HeadFree' /\ [DevNext]_devVars => Mining' /\ [ReorgSucceeds]_backendVars
    BY MiningGoesOn
<1> QED
    BY <1>1, <1>2, <1>3, HeadIsFree, PTL DEF DevSpec

(* mine_once: with nothing assumed of reorgs, a mined header publishes the *)
(* result of the chain block DeferredLag heights below it as that height   *)
(* has it now, although the result is read under one lock and the block    *)
(* joins the chain under another.                                          *)
THEOREM HeadersAreHistory == DevSpec => []HeadersTellHistory
<1>1. Mining => HeadersTellHistory
  <2> SUFFICES ASSUME Mining, NEW h \in DOMAIN executor.results,
                      executor.results[h].hash \in DOMAIN deferred
               PROVE  deferred[executor.results[h].hash] = executor.results[Lag(h)]
    BY DEF HeadersTellHistory, Lag
  <2> DEFINE T == executor.tip
             c == executor.results[h].hash
  <2>1. Ledger(data, Fresh, T) /\ Same(executor, Fresh[T])
    BY NodeLedger DEF Mining
  <2>2. deferred[c] = Fresh[c].results[Lag(Fresh[c].height)]
    BY DEF Mining, DevInv
  <2> HIDE DEF Fresh, T
  <2>3. /\ Fresh[T].height \in Nat /\ executor.results = Fresh[T].results
        /\ h \in 0..Fresh[T].height
    BY <2>1 DEF Ledger, Same
  <2>4. PICK d \in ChainIn(data, T) : Fresh[d].height = h
    BY <2>1, <2>3 DEF Ledger
  <2>5. /\ Own(Fresh, d).hash = d
        /\ \A n \in 0..h : Fresh[T].results[n] = Fresh[d].results[n]
    BY <2>1, <2>4 DEF Ledger
  <2>6. c = d
    BY <2>3, <2>4, <2>5 DEF Own
  <2> HIDE DEF c
  <2>7. Lag(h) \in 0..h
    BY <2>3, DevAssumption DEF Lag
  <2> QED
    BY <2>2, <2>3, <2>4, <2>5, <2>6, <2>7 DEF c
<1> QED
    BY <1>1, MiningInvariant, PTL

(* mining_loop next to the RPC server: the development chain never undoes  *)
(* a block, so its index is exact and its pool ahead of the state with     *)
(* nothing assumed of the journal.                                         *)
THEOREM DevNodeIsExact ==
    DevSpec => /\ [](TxIndexIsExact /\ PoolIsPending)
               /\ [][ReorgSucceeds]_backendVars
<1>1. Mining => TxIndexIsExact /\ PoolIsPending
    BY IndexIsExact, PoolIsAhead DEF Mining
<1> QED
    BY <1>1, MiningInvariant, PTL


(* A chain executes the nonces of an account one after another, from the   *)
(* one it has at genesis.                                                  *)
Gapless(dt, R, b) ==
    \A a : /\ NonceOf(GenesisState, a) <= NonceOf(R[b].state, a)
           /\ \A n \in Nat : NonceOf(GenesisState, a) <= n /\ n < NonceOf(R[b].state, a) =>
                  \E c \in ChainIn(dt, b) \ {Genesis} : \E tx \in Did(R, c) :
                      tx.sender = a /\ tx.nonce = n

LEMMA GaplessGrows ==
    ASSUME NEW dt, NEW R, NEW a, NEW b, Ledger(dt, R, a), Gapless(dt, R, a),
           ChainIn(dt, b) = {b} \cup ChainIn(dt, a), b # Genesis, OneMore(R[a], R[b], b)
    PROVE  Gapless(dt, R, b)
<1>1. Advances(R[a].state, R[b].state, Did(R, b)) /\ Accountable(R[a].state)
    BY DEF Ledger, OneMore, Did, Own
<1>2. /\ Accountable(GenesisState)
      /\ \A s : NonceOf(GenesisState, s) \in Nat
  <2>1. Accountable(GenesisState)
    BY ExecutorAssumption DEF Accountable
  <2> QED
    BY <2>1, NonceIsNatural
<1>3. \A s : NonceOf(R[a].state, s) \in Nat /\ NonceOf(R[b].state, s) \in Nat
    BY <1>1, NonceIsNatural DEF Advances
<1> SUFFICES ASSUME NEW s
             PROVE  /\ NonceOf(GenesisState, s) <= NonceOf(R[b].state, s)
                    /\ \A n \in Nat : NonceOf(GenesisState, s) <= n /\ n < NonceOf(R[b].state, s) =>
                           \E c \in ChainIn(dt, b) \ {Genesis} : \E tx \in Did(R, c) :
                               tx.sender = s /\ tx.nonce = n
    BY DEF Gapless
<1>4. NonceOf(GenesisState, s) <= NonceOf(R[a].state, s)
    BY DEF Gapless
<1>5. NonceOf(R[a].state, s) <= NonceOf(R[b].state, s)
    BY <1>1 DEF Advances
<1>6. ASSUME NEW n \in Nat, NonceOf(GenesisState, s) <= n, n < NonceOf(R[b].state, s)
      PROVE  \E c \in ChainIn(dt, b) \ {Genesis} : \E tx \in Did(R, c) : tx.sender = s /\ tx.nonce = n
  <2>1. CASE n < NonceOf(R[a].state, s)
    BY <1>6, <2>1 DEF Gapless
  <2>2. CASE NonceOf(R[a].state, s) <= n
    BY <1>1, <1>6, <2>2 DEF Advances, Fills
  <2> QED
    BY <1>3, <2>1, <2>2
<1> QED
    BY <1>2, <1>3, <1>4, <1>5, <1>6

LEMMA NoncesHaveNoGap ==
    ASSUME NEW hs, NEW dt, Dag(hs, dt), NEW bs, Bodied(hs, bs), NEW R, Replays(hs, dt, bs, R)
    PROVE  \A b \in DOMAIN hs : Gapless(dt, R, b)
<1> DEFINE D == DOMAIN hs
           h == [c \in D |-> dt[c].topological_height]
           S == {c \in D : Gapless(dt, R, c)}
<1>1. \A c \in D : h[c] \in Nat
    BY DEF Dag, WellFormed, Layered
<1>2. /\ \A c \in D \ {Genesis} : R[c] = ExecuteChainBlock(dt, bs, R[dt[c].selected_parent], c)
      /\ Genesis \in D => R[Genesis] = GenesisExecutor
    BY DEF Replays, ReplayStep
<1>3. \A c \in D : Fit(R[c])
    BY ReplayIsFit DEF Replayed
<1>4. Linked(hs, dt) /\ \A c \in D : Ledger(dt, R, c)
    BY DagIsLinked, LedgersHold
<1>5. ASSUME NEW b \in D, \A c \in D : h[c] < h[b] => c \in S
      PROVE  b \in S
  <2>1. CASE b = Genesis
    <3>1. R[b].state = GenesisState
        BY <1>2, <2>1 DEF GenesisExecutor
    <3>2. Accountable(GenesisState)
        BY ExecutorAssumption DEF Accountable
    <3>3. \A a : NonceOf(GenesisState, a) \in Nat
        BY <3>2, NonceIsNatural
    <3>4. Gapless(dt, R, b)
        BY <3>1, <3>3 DEF Gapless
    <3> QED
        BY <3>4
  <2>2. CASE b # Genesis
    <3> DEFINE sp == dt[b].selected_parent
    <3>1. StepsFrom(hs, dt, b, sp)
        BY <2>2, PastSplits
    <3>2. sp \in D /\ h[sp] < h[b]
        BY <3>1 DEF StepsFrom
    <3>3. sp \in S
      <4> HIDE DEF S, h, D, sp
      <4> QED
          BY <1>5, <3>2
    <3>4. ChainIn(dt, b) = {b} \cup ChainIn(dt, sp)
        BY <1>4, <2>2 DEF Linked
    <3>5. OneMore(R[sp], R[b], b)
        BY <1>2, <1>3, <2>2, <3>2, ExecutedIsOneMore
    <3>6. Gapless(dt, R, sp) /\ Ledger(dt, R, sp)
        BY <1>4, <3>2, <3>3
    <3> HIDE DEF sp
    <3>7. Gapless(dt, R, b)
        BY <2>2, <3>4, <3>5, <3>6, GaplessGrows
    <3> QED
        BY <3>7
  <2> QED
    BY <2>1, <2>2
<1>6. D \subseteq S
  <2>1. \A b \in D : (\A c \in D : h[c] < h[b] => c \in S) => b \in S
    BY <1>5
  <2> HIDE DEF D, h, S
  <2> QED
    BY <1>1, <2>1, HeightInduction
<1> QED
    BY <1>6

(* What was promised: the slot is pending or executed. *)
Promised == Pool!Pooled(pool) \cup DOMAIN tx_index

Kept(tx) == \E other \in Promised : SameSlot(other, tx)

NothingLost == \A tx \in accepted : tx \in Tx /\ Kept(tx)

LEMMA SubmissionLosesNothing ==
    ASSUME Mining, Room, NothingLost, NEW tx \in Tx, SubmitRaw(tx) \/ SubmitRefused(tx)
    PROVE  NothingLost'
<1>1. PoolShape(pool) /\ tx_index' = tx_index
    BY DEF Mining, NodeInv, Pending, SubmitRaw, SubmitRefused
<1>2. CASE SubmitRaw(tx)
  <2>1. pool' = Pool!Added(pool, tx, NextBaseFee) /\ accepted' = accepted \cup {tx}
    BY <1>2 DEF SubmitRaw
  <2>2. /\ tx \in Pool!Pooled(pool')
        /\ \A t \in Pool!Pooled(pool) \ Pool!Pooled(pool') : SameSlot(tx, t)
    BY <1>1, <2>1, AddedPool
  <2>3. \A t \in Promised : t \in Promised' \/ SameSlot(tx, t)
    BY <1>1, <2>2 DEF Promised
  <2>4. tx \in Promised'
    BY <2>2 DEF Promised
  <2>5. ASSUME NEW t \in accepted' PROVE t \in Tx /\ Kept(t)'
    <3>1. CASE t = tx
        BY <2>4, <3>1 DEF Kept, SameSlot
    <3>2. CASE t \in accepted
      <4>1. t \in Tx /\ \E other \in Promised : SameSlot(other, t)
          BY <3>2 DEF NothingLost, Kept
      <4> HIDE DEF Promised
      <4>2. \E other \in Promised' : SameSlot(other, t)
          BY <2>3, <2>4, <4>1 DEF SameSlot
      <4> QED
          BY <4>1, <4>2 DEF Kept
    <3> QED
        BY <2>1, <3>1, <3>2
  <2> QED
    BY <2>5 DEF NothingLost
<1>3. CASE SubmitRefused(tx)
  <2>1. pool' = [pool EXCEPT !.sequence = @ + 1] /\ accepted' = accepted
    BY <1>3 DEF SubmitRefused
  <2>2. Pool!Pooled(pool') = Pool!Pooled(pool)
    BY <1>1, <2>1 DEF PoolShape, Pool!Pooled
  <2>3. Promised' = Promised
    BY <1>1, <2>2 DEF Promised
  <2> HIDE DEF Promised
  <2> QED
    BY <2>1, <2>3 DEF NothingLost, Kept
<1> QED
    BY <1>2, <1>3


LEMMA IndexedHolds ==
    ASSUME NEW index, NEW ex, NEW heights
    PROVE  DOMAIN Indexed(index, ex, heights) = ExecutedAt(ex.results, heights) \cup DOMAIN index
BY DEF Indexed, ExecutedAt, Over

(* What advance does not keep pending it has executed, or a rival of it.   *)
LEMMA MinedLosesNothing ==
    ASSUME Mining, Mining', NothingLost, ReorgSucceeds,
           NEW b \in Hash, NEW w \in Work, AddMined(b, w)
    PROVE  NothingLost'
<1> DEFINE T == executor.tip
           body == template.body
           reorg == ComputeReorg(data', T, b)
           applied == ApplyReorg(data', bodies', executor, reorg)
           y == applied.ex
           done == ExecutedBy(reorg, y)
<1>1. /\ AddBlockAndAdvance(b, {T}, w, body) /\ body \in Seq(Tx) /\ accepted' = accepted
      /\ DagInv' /\ T \in Present
      /\ PoolShape(pool) /\ \A t \in Pool!Pooled(pool) : NonceOf(executor.state, t.sender) <= t.nonce
    BY NodeLedger DEF AddMined, AddBlockAndAdvance, Mining, DevInv, NodeInv, Pending
<1>2. /\ VirtualSelectedParent' = b /\ b \in Present' \ Present
      /\ ChainIn(data', b) = {b} \cup ChainIn(data', T)
  <2> HIDE DEF body
  <2> QED
    BY <1>1, MinedIsShallow DEF T
<1>3. executor' = y /\ pool' = Settled(pool, y, done) /\ done \subseteq DOMAIN tx_index'
  <2> DEFINE kept == Retained(tx_index, ToSet(reorg.removed))
  <2>1. AdvanceBackend(b) /\ b # T
    BY <1>1, <1>2 DEF AddBlockAndAdvance, VirtualSelectedParent
  <2>2. applied.ok
    BY <1>2, <2>1 DEF ReorgSucceeds
  <2>3. executor' = y /\ tx_index' = Indexed(kept, y, AddedBy(reorg, y)) /\ pool' = Settled(pool, y, done)
    BY <2>1, <2>2 DEF AdvanceBackend, AddedBy, HeightsOf, ExecutedBy, ExecutedAt
  <2> HIDE DEF y, kept, reorg
  <2> DEFINE heights == AddedBy(reorg, y)
  <2>4. done = ExecutedAt(y.results, heights)
    BY DEF ExecutedBy
  <2> HIDE DEF heights, done
  <2>5. DOMAIN Indexed(kept, y, heights) = ExecutedAt(y.results, heights) \cup DOMAIN kept
    BY IndexedHolds
  <2> QED
    BY <2>3, <2>4, <2>5 DEF heights
<1>4. ASSUME NEW t \in Pool!Pooled(pool), t \notin Pool!Pooled(pool'), t \notin done
      PROVE  t \in Tx /\ t.nonce < NonceOf(executor'.state, t.sender)
  <2> DEFINE p == Pool!Removed(pool, done)
             nonces == [a \in Account |-> AccountOf(y.state, a).nonce]
  <2> HIDE DEF done, y
  <2>1. PoolShape(p) /\ Pool!Pooled(p) = Pool!Pooled(pool) \ done
    BY <1>1, RemovedPool
  <2> HIDE DEF p
  <2>2. pool' = Pool!Pruned(p, nonces)
    BY <1>3 DEF Settled, p
  <2>3. Pool!Pooled(pool') = {u \in Pool!Pooled(p) : ~ (u.nonce < nonces[u.sender])}
    BY <2>1, <2>2, PrunedPool
  <2>4. t \in Tx /\ t.nonce < nonces[t.sender]
    BY <1>1, <1>4, <2>1, <2>3 DEF PoolShape
  <2>5. t.sender \in Account
    BY <2>4, BackendAssumption
  <2>6. nonces[t.sender] = NonceOf(executor'.state, t.sender)
    BY <1>3, <2>5 DEF NonceOf
  <2> QED
    BY <2>4, <2>6
<1> HIDE DEF done, y, body
<1>5. /\ Dag(headers, data) /\ Dag(headers', data')
      /\ Bodied(headers, bodies) /\ Bodied(headers', bodies')
      /\ Replays(headers, data, bodies, Fresh) /\ Replays(headers', data', bodies', Fresh')
      /\ Agree(headers, data, headers', data')
      /\ \A c \in Present : Fresh'[c] = Fresh[c]
  <2>1. /\ AddBlock(b, {T}, w) /\ bodies' = Extend(bodies, b, body)
        /\ DOMAIN bodies = Present /\ Bodied(headers, bodies) /\ DagInv
        /\ {T} \in ParentSets(Present)
    BY <1>1, LoneTip DEF AddBlockAndAdvance, Mining, NodeInv
  <2> HIDE DEF Fresh, T
  <2>2. /\ Dag(headers, data) /\ Dag(headers', data') /\ Bodied(headers', bodies')
        /\ Agree(headers, data, headers', data')
        /\ Extends(headers, data, bodies, headers', data', bodies')
        /\ Replays(headers, data, bodies, Fresh) /\ Replays(headers', data', bodies', Fresh')
    BY <1>1, <2>1, StoreGrows
  <2>3. \A c \in Present : Fresh'[c] = Fresh[c]
    BY <2>2, ReplayAgrees DEF Present
  <2> QED
    BY <2>1, <2>2, <2>3
<1>6. /\ IndexOf(data, Fresh, tx_index, T) /\ IndexOf(data', Fresh', tx_index', b)
      /\ Same(executor, Fresh[T]) /\ Same(executor', Fresh'[b])
    BY <1>2 DEF Mining, NodeInv, StandsAt
<1> HIDE DEF Fresh
<1>7. Gapless(data, Fresh, T) /\ Gapless(data', Fresh', b)
    BY <1>1, <1>2, <1>5, NoncesHaveNoGap DEF Present
<1>8. DOMAIN tx_index \subseteq DOMAIN tx_index'
  <2> SUFFICES ASSUME NEW t \in DOMAIN tx_index PROVE t \in DOMAIN tx_index'
    OBVIOUS
  <2>1. PICK c \in ChainIn(data, T) \ {Genesis} : t \in Did(Fresh, c)
    BY <1>6 DEF IndexOf
  <2>2. c \in Present
    BY <1>1, <1>5, <2>1, DagIsLinked DEF Linked, Present
  <2>3. c \in ChainIn(data', b) \ {Genesis}
    BY <1>1, <1>2, <1>5, <2>1 DEF Agree, Present
  <2>4. t \in Did(Fresh', c)
    BY <1>5, <2>1, <2>2 DEF Did, Own
  <2> QED
    BY <1>6, <2>3, <2>4 DEF IndexOf
<1>9. ASSUME NEW t \in Promised PROVE \E other \in Promised' : SameSlot(other, t)
  <2>1. CASE t \in Promised'
    BY <2>1 DEF SameSlot
  <2>2. CASE t \notin Promised'
    <3>1. t \in Pool!Pooled(pool) /\ t \notin Pool!Pooled(pool') /\ t \notin done
        BY <1>3, <1>8, <2>2 DEF Promised
    <3>2. t \in Tx /\ t.nonce < NonceOf(Fresh'[b].state, t.sender)
        BY <1>4, <1>6, <3>1 DEF Same
    <3>3. NonceOf(Fresh[T].state, t.sender) <= t.nonce
        BY <1>1, <1>6, <3>1 DEF Same
    <3>4. NonceOf(GenesisState, t.sender) <= NonceOf(Fresh[T].state, t.sender)
        BY <1>7 DEF Gapless
    <3>5. t.nonce \in Nat
        BY <3>2, BackendAssumption
    <3>6. NonceOf(GenesisState, t.sender) \in Nat /\ NonceOf(Fresh[T].state, t.sender) \in Nat
      <4>1. Accountable(GenesisState)
          BY ExecutorAssumption DEF Accountable
      <4>2. Accountable(Fresh[T].state)
          BY <1>1, <1>5, LedgersHold DEF Ledger, Present
      <4> QED
          BY <4>1, <4>2, NonceIsNatural
    <3>7. NonceOf(GenesisState, t.sender) <= t.nonce
        BY <3>3, <3>4, <3>5, <3>6
    <3>8. PICK c \in ChainIn(data', b) \ {Genesis} : \E tx \in Did(Fresh', c) :
               tx.sender = t.sender /\ tx.nonce = t.nonce
        BY <1>7, <3>2, <3>5, <3>7 DEF Gapless
    <3>9. PICK tx \in Did(Fresh', c) : SameSlot(tx, t)
        BY <3>8 DEF SameSlot
    <3>10. tx \in DOMAIN tx_index'
        BY <1>6, <3>9 DEF IndexOf
    <3> QED
        BY <3>9, <3>10 DEF Promised
  <2> QED
    BY <2>1, <2>2
<1> HIDE DEF T
<1>10. ASSUME NEW t \in accepted' PROVE t \in Tx /\ Kept(t)'
  <2>1. t \in Tx /\ \E other \in Promised : SameSlot(other, t)
    BY <1>1, <1>10 DEF NothingLost, Kept
  <2>2. PICK u \in Promised : SameSlot(u, t)
    BY <2>1
  <2>3. PICK v \in Promised' : SameSlot(v, u)
    BY <1>9
  <2>4. SameSlot(v, t)
    BY <2>2, <2>3 DEF SameSlot
  <2> QED
    BY <2>1, <2>3, <2>4 DEF Kept
<1> QED
    BY <1>10 DEF NothingLost


(* submit_raw, best_transactions and advance: with room for everything in  *)
(* the pool, an accepted transaction, or another one of its sender and     *)
(* nonce, is pending or executed on the mined chain ever after, whatever   *)
(* is submitted between template and block.                                *)
THEOREM NothingGetsLost ==
    ASSUME Room
    PROVE  DevSpec => []NothingIsLost
<1>1. DevInit => NothingLost
    BY DEF DevInit, BackendInit, NothingLost
<1>2. Mining /\ Mining' /\ NothingLost /\ [DevNext]_devVars /\ [ReorgSucceeds]_backendVars => NothingLost'
  <2> SUFFICES ASSUME Mining, Mining', NothingLost, [DevNext]_devVars, [ReorgSucceeds]_backendVars
               PROVE  NothingLost'
    OBVIOUS
  <2>1. CASE \E tx \in Tx : SubmitRaw(tx) \/ SubmitRefused(tx)
    BY <2>1, SubmissionLosesNothing
  <2>2. CASE \E b \in Hash, w \in Work : AddMined(b, w)
    <3>1. PICK b \in Hash, w \in Work : AddMined(b, w)
        BY <2>2
    <3>2. ReorgSucceeds
      <4>1. Present' # Present
          BY <3>1 DEF AddMined, AddBlockAndAdvance, AddBlock, Accepts, Extend, Present
      <4>2. ~ UNCHANGED backendVars
          BY <4>1 DEF backendVars, Present
      <4> QED
          BY <4>2
    <3> QED
        BY <3>1, <3>2, MinedLosesNothing
  <2>3. CASE TakeTemplate \/ GiveUp \/ UNCHANGED devVars
    <3>1. pool' = pool /\ tx_index' = tx_index /\ accepted' = accepted
        BY <2>3 DEF TakeTemplate, GiveUp, devVars, backendVars
    <3>2. Promised' = Promised
        BY <3>1 DEF Promised
    <3> HIDE DEF Promised
    <3> QED
        BY <3>1, <3>2 DEF NothingLost, Kept
  <2> QED
    BY <2>1, <2>2, <2>3 DEF DevNext
<1>3. NothingLost => NothingIsLost
    BY DEF NothingLost, NothingIsLost, Kept, SameSlot, Promised
<1> QED
    BY <1>1, <1>2, <1>3, MiningInvariant, PTL DEF DevSpec


-----------------------------------------------------------------------------
(* What the RPC server serves.  Running totals: each is the one before it  *)
(* and its own amount.                                                     *)
TotalRun(amounts, f) ==
    f = [i \in 0..Len(amounts) |-> IF i = 0 THEN 0 ELSE f[i - 1] + amounts[i]]

LEMMA TotalRuns ==
    ASSUME NEW amounts, Len(amounts) \in Nat
    PROVE  \E f : TotalRun(amounts, f) /\ \A n : RunningTotal(amounts, n) = f[n]
<1> DEFINE N == Len(amounts)
           To(k, f) == f = [i \in 0..k |-> IF i = 0 THEN 0 ELSE f[i - 1] + amounts[i]]
           G == {k \in Nat : \E f : To(k, f)}
<1>1. 0 \in G
  <2> DEFINE g == [n \in 0..0 |-> 0]
  <2>1. g = [n \in 0..0 |-> IF n = 0 THEN 0 ELSE g[n - 1] + amounts[n]]
    OBVIOUS
  <2> QED
    BY <2>1
<1>2. ASSUME NEW k \in Nat, k \in G PROVE k + 1 \in G
  <2>1. PICK f : To(k, f)
    BY <1>2
  <2> DEFINE g == [n \in 0..(k + 1) |-> IF n = 0 THEN 0 ELSE f[n - 1] + amounts[n]]
  <2>2. \A n \in 0..k : g[n] = f[n]
    BY <2>1
  <2>3. \A n \in 0..(k + 1) : n # 0 => n - 1 \in 0..k
    OBVIOUS
  <2>4. g = [n \in 0..(k + 1) |-> IF n = 0 THEN 0 ELSE g[n - 1] + amounts[n]]
    <3>1. \A n \in 0..(k + 1) : n # 0 => g[n - 1] = f[n - 1]
        BY <2>2, <2>3
    <3>2. g = [n \in 0..(k + 1) |-> IF n = 0 THEN 0 ELSE f[n - 1] + amounts[n]]
        OBVIOUS
    <3> HIDE DEF g
    <3> QED
        BY <3>1, <3>2
  <2>5. \E h : To(k + 1, h)
    <3>1. To(k + 1, g)
        BY <2>4
    <3> HIDE DEF g, To
    <3> QED
        BY <3>1
  <2> QED
    BY <2>5
<1>3. \E f : TotalRun(amounts, f)
  <2>1. Nat \subseteq G
    <3> HIDE DEF G
    <3> QED
        BY <1>1, <1>2, Counting
  <2> QED
    BY <2>1 DEF TotalRun
<1> DEFINE Run(f) == TotalRun(amounts, f)
           chosen == CHOOSE f : Run(f)
<1>4. Run(chosen)
  <2> HIDE DEF Run
  <2>1. \E f : Run(f)
    BY <1>3 DEF Run
  <2> QED
    BY <2>1
<1>5. \A n : RunningTotal(amounts, n) = chosen[n]
    BY DEF RunningTotal, TotalRun
<1> QED
    BY <1>4, <1>5

AddsUp(amounts, n) ==
    /\ RunningTotal(amounts, 0) = 0
    /\ \A i \in 1..n : RunningTotal(amounts, i) = RunningTotal(amounts, i - 1) + amounts[i]
    /\ \A i \in 0..n : RunningTotal(amounts, i) \in Nat

LEMMA TotalsAdd ==
    ASSUME NEW amounts, NEW n \in Nat, Len(amounts) = n, \A i \in 1..n : amounts[i] \in Nat
    PROVE  AddsUp(amounts, n)
<1>1. PICK f : TotalRun(amounts, f) /\ \A i : RunningTotal(amounts, i) = f[i]
    BY TotalRuns
<1>2. f[0] = 0 /\ \A i \in 1..n : f[i] = f[i - 1] + amounts[i]
  <2>1. f = [i \in 0..n |-> IF i = 0 THEN 0 ELSE f[i - 1] + amounts[i]]
    BY <1>1 DEF TotalRun
  <2>2. \A i \in 1..n : i \in 0..n /\ i # 0
    OBVIOUS
  <2> QED
    BY <2>1, <2>2
<1> DEFINE G == {i \in Nat : i <= n => f[i] \in Nat}
<1>3. 0 \in G
    BY <1>2
<1>4. ASSUME NEW i \in Nat, i \in G PROVE i + 1 \in G
  <2> SUFFICES ASSUME i + 1 <= n PROVE f[i + 1] \in Nat
    OBVIOUS
  <2>1. i + 1 \in 1..n /\ (i + 1) - 1 = i
    OBVIOUS
  <2>2. f[i] \in Nat /\ amounts[i + 1] \in Nat
    BY <1>4, <2>1
  <2>3. f[i + 1] = f[i] + amounts[i + 1]
    BY <1>2, <2>1
  <2> QED
    BY <2>2, <2>3
<1>5. Nat \subseteq G
  <2> HIDE DEF G
  <2> QED
    BY <1>3, <1>4, Counting
<1>6. \A i \in 0..n : f[i] \in Nat
    BY <1>5
<1>7. /\ RunningTotal(amounts, 0) = f[0]
      /\ \A i \in 1..n : RunningTotal(amounts, i) = f[i] /\ RunningTotal(amounts, i - 1) = f[i - 1]
      /\ \A i \in 0..n : RunningTotal(amounts, i) = f[i]
    BY <1>1
<1> HIDE DEF G
<1> QED
    BY <1>2, <1>6, <1>7 DEF AddsUp


(* No total is below an earlier one. *)
LEMMA TotalsRise ==
    ASSUME NEW a, NEW N \in Nat, AddsUp(a, N), \A i \in 1..N : a[i] \in Nat
    PROVE  \A i, j \in 0..N : i <= j => RunningTotal(a, i) <= RunningTotal(a, j)
<1> DEFINE t(i) == RunningTotal(a, i)
           G == {j \in Nat : j <= N => \A i \in 0..j : t(i) <= t(j)}
<1>1. /\ \A i \in 0..N : t(i) \in Nat
      /\ \A i \in 1..N : t(i) = t(i - 1) + a[i]
    BY DEF AddsUp
<1> HIDE DEF t
<1>2. 0 \in G
  <2>1. t(0) \in Nat /\ 0..0 = {0}
    BY <1>1
  <2>2. \A i \in 0..0 : t(i) <= t(0)
    BY <2>1
  <2> QED
    BY <2>2
<1>3. ASSUME NEW j \in Nat, j \in G PROVE j + 1 \in G
  <2> SUFFICES ASSUME j + 1 <= N, NEW i \in 0..(j + 1) PROVE t(i) <= t(j + 1)
    OBVIOUS
  <2>1. j + 1 \in 1..N /\ (j + 1) - 1 = j /\ j + 1 \in 0..N /\ j \in 0..N /\ i \in 0..N
    OBVIOUS
  <2>2. t(j + 1) = t(j) + a[j + 1] /\ a[j + 1] \in Nat /\ t(j) \in Nat /\ t(i) \in Nat /\ t(j + 1) \in Nat
    BY <1>1, <2>1
  <2>3. CASE i = j + 1
    BY <2>2, <2>3
  <2>4. CASE i \in 0..j
    <3>1. t(i) <= t(j)
        BY <1>3, <2>1, <2>4
    <3> QED
        BY <2>2, <3>1
  <2> QED
    BY <2>3, <2>4
<1>4. Nat \subseteq G
  <2> HIDE DEF G
  <2> QED
    BY <1>2, <1>3, Counting
<1>5. \A j \in 0..N : \A i \in 0..j : t(i) <= t(j)
    BY <1>4
<1>6. \A i, j \in 0..N : i <= j => i \in 0..j
    OBVIOUS
<1>7. \A i, j \in 0..N : i <= j => t(i) <= t(j)
    BY <1>5, <1>6
<1> QED
    BY <1>7 DEF t

(* Every number up to the whole is in one amount's part. *)
LEMMA TotalsCover ==
    ASSUME NEW a, NEW N \in Nat, AddsUp(a, N), \A i \in 1..N : a[i] \in Nat,
           NEW x \in 1..RunningTotal(a, N)
    PROVE  \E i \in 1..N : \E n \in 1..a[i] : x = RunningTotal(a, i - 1) + n
<1> DEFINE t(i) == RunningTotal(a, i)
           S == {i \in 0..N : x <= t(i)}
<1>1. /\ t(0) = 0
      /\ \A i \in 0..N : t(i) \in Nat
      /\ \A i \in 1..N : t(i) = t(i - 1) + a[i]
      /\ x \in 1..t(N)
    BY DEF AddsUp
<1> HIDE DEF t
<1>2. t(N) \in Nat
    BY <1>1
<1>3. x \in Nat /\ x # 0 /\ x <= t(N)
    BY <1>1, <1>2
<1>4. N \in S /\ S \subseteq Nat
    BY <1>3
<1>5. PICK i \in S : \A m \in S : ~ (m < i)
  <2> HIDE DEF S
  <2> QED
    BY <1>4, LowestExists
<1>6. i \in 0..N /\ x <= t(i)
    BY <1>5
<1>7. i # 0
    BY <1>1, <1>3, <1>6
<1>8. i \in 1..N /\ i - 1 \in 0..N /\ i - 1 < i
    BY <1>6, <1>7
<1>9. ~ (x <= t(i - 1))
    BY <1>5, <1>8
<1>10. t(i) = t(i - 1) + a[i] /\ t(i - 1) \in Nat /\ a[i] \in Nat
    BY <1>1, <1>8
<1>11. PICK n \in 1..a[i] : x = t(i - 1) + n
  <2>1. x - t(i - 1) \in 1..a[i] /\ x = t(i - 1) + (x - t(i - 1))
    BY <1>3, <1>6, <1>9, <1>10
  <2> QED
    BY <2>1
<1> QED
    BY <1>8, <1>11 DEF t


(* get_logs, one block: log `n` of its transaction `i` has a number that   *)
(* counts every log before it; the numbers leave no gap and follow the     *)
(* order of execution.                                                     *)
Log(h, a, i, n) ==
    [number |-> h, transaction |-> i, position |-> n, logIndex |-> RunningTotal(a, i - 1) + n - 1]

LogsOf(h, a, N, found) ==
    /\ \A i \in 1..N : \A n \in 1..a[i] : Log(h, a, i, n) \in found
    /\ \A l \in found : \E i \in 1..N : \E n \in 1..a[i] : l = Log(h, a, i, n)

LEMMA LogsCount ==
    ASSUME NEW h, NEW a, NEW N \in Nat, AddsUp(a, N), \A i \in 1..N : a[i] \in Nat,
           NEW found, LogsOf(h, a, N, found)
    PROVE  /\ {l.logIndex : l \in found} = 0..(Cardinality(found) - 1)
           /\ \A l, m \in found : l.transaction < m.transaction => l.logIndex < m.logIndex
<1> DEFINE t(i) == RunningTotal(a, i)
<1>1. /\ t(0) = 0
      /\ \A i \in 0..N : t(i) \in Nat
      /\ \A i \in 1..N : t(i) = t(i - 1) + a[i]
      /\ \A i, j \in 0..N : i <= j => t(i) <= t(j)
      /\ \A x \in 1..t(N) : \E i \in 1..N : \E n \in 1..a[i] : x = t(i - 1) + n
    BY TotalsRise, TotalsCover DEF AddsUp
<1>2. \A i \in 1..N : \A n \in 1..a[i] :
          /\ Log(h, a, i, n) \in found
          /\ Log(h, a, i, n).transaction = i /\ Log(h, a, i, n).logIndex = t(i - 1) + n - 1
    BY DEF LogsOf, Log
<1>3. \A l \in found : \E i \in 1..N : \E n \in 1..a[i] : l = Log(h, a, i, n)
    BY DEF LogsOf
<1> HIDE DEF t
<1>4. \A i \in 1..N : i - 1 \in 0..N /\ i \in 0..N
    OBVIOUS
<1>5. \A l \in found :
          /\ l.transaction \in 1..N
          /\ t(l.transaction - 1) \in Nat /\ t(l.transaction) \in Nat
          /\ l.logIndex \in Nat /\ t(l.transaction - 1) <= l.logIndex /\ l.logIndex < t(l.transaction)
  <2> TAKE l \in found
  <2>1. PICK i \in 1..N : \E n \in 1..a[i] : l = Log(h, a, i, n)
    BY <1>3
  <2>2. PICK n \in 1..a[i] : l = Log(h, a, i, n)
    BY <2>1
  <2>3. l.transaction = i /\ l.logIndex = t(i - 1) + n - 1
    BY <1>2, <2>2
  <2>4. t(i - 1) \in Nat /\ t(i) \in Nat /\ t(i) = t(i - 1) + a[i] /\ a[i] \in Nat
    BY <1>1, <1>4
  <2>5. n \in Nat /\ n # 0 /\ n <= a[i]
    BY <2>4
  <2> QED
    BY <2>3, <2>4, <2>5
<1>6. \A l, m \in found : l.transaction < m.transaction => l.logIndex < m.logIndex
  <2> SUFFICES ASSUME NEW l \in found, NEW m \in found, l.transaction < m.transaction
               PROVE  l.logIndex < m.logIndex
    OBVIOUS
  <2> DEFINE i == l.transaction
             j == m.transaction
  <2>1. i \in 1..N /\ j \in 1..N /\ i < j
    BY <1>5
  <2>2. i \in 0..N /\ j - 1 \in 0..N /\ i <= j - 1
    BY <2>1
  <2>3. t(i) <= t(j - 1)
    BY <1>1, <2>2
  <2>4. /\ l.logIndex < t(i) /\ t(j - 1) <= m.logIndex
        /\ t(i) \in Nat /\ t(j - 1) \in Nat /\ l.logIndex \in Nat /\ m.logIndex \in Nat
    BY <1>5
  <2> QED
    BY <2>3, <2>4
<1>7. \A l, m \in found : l.logIndex = m.logIndex => l = m
  <2> SUFFICES ASSUME NEW l \in found, NEW m \in found, l.logIndex = m.logIndex
               PROVE  l = m
    OBVIOUS
  <2>1. PICK i \in 1..N : \E n \in 1..a[i] : l = Log(h, a, i, n)
    BY <1>3
  <2>2. PICK n \in 1..a[i] : l = Log(h, a, i, n)
    BY <2>1
  <2>3. PICK j \in 1..N : \E k \in 1..a[j] : m = Log(h, a, j, k)
    BY <1>3
  <2>4. PICK k \in 1..a[j] : m = Log(h, a, j, k)
    BY <2>3
  <2>5. /\ l.transaction = i /\ l.logIndex = t(i - 1) + n - 1
        /\ m.transaction = j /\ m.logIndex = t(j - 1) + k - 1
    BY <1>2, <2>2, <2>4
  <2>6. i = j
    <3>1. l.logIndex \in Nat /\ l.transaction \in 1..N /\ m.transaction \in 1..N
        BY <1>5
    <3>2. ~ (l.logIndex < m.logIndex) /\ ~ (m.logIndex < l.logIndex)
        BY <3>1
    <3>3. ~ (l.transaction < m.transaction) /\ ~ (m.transaction < l.transaction)
        BY <1>6, <3>2
    <3>4. l.transaction = m.transaction
        BY <3>1, <3>3
    <3> QED
        BY <2>5, <3>4
  <2>7. n = k
    <3>1. t(i - 1) \in Nat /\ a[i] \in Nat
        BY <1>1, <1>4
    <3>2. t(i - 1) + n - 1 = t(i - 1) + k - 1
        BY <2>5, <2>6
    <3>3. k \in 1..a[i]
        BY <2>6
    <3>4. n \in Nat /\ k \in Nat
        BY <3>1, <3>3
    <3> QED
        BY <3>1, <3>2, <3>4
  <2> QED
    BY <2>2, <2>4, <2>6, <2>7
<1>8. \A l \in found : l.logIndex \in 0..(t(N) - 1)
  <2> TAKE l \in found
  <2>1. l.transaction \in 0..N /\ N \in 0..N /\ l.transaction <= N
    BY <1>5
  <2>2. t(l.transaction) <= t(N) /\ t(N) \in Nat
    BY <1>1, <2>1
  <2>3. l.logIndex \in Nat /\ l.logIndex < t(l.transaction) /\ t(l.transaction) \in Nat
    BY <1>5
  <2> QED
    BY <2>2, <2>3
<1>9. \A x \in 0..(t(N) - 1) : \E l \in found : l.logIndex = x
  <2> TAKE x \in 0..(t(N) - 1)
  <2>0. N \in 0..N /\ t(N) \in Nat /\ x + 1 \in 1..t(N) /\ x \in Nat
    BY <1>1
  <2>1. PICK i \in 1..N : \E n \in 1..a[i] : x + 1 = t(i - 1) + n
    BY <1>1, <2>0
  <2>2. PICK n \in 1..a[i] : x + 1 = t(i - 1) + n
    BY <2>1
  <2>3. Log(h, a, i, n) \in found /\ Log(h, a, i, n).logIndex = x
    <3>1. t(i - 1) \in Nat /\ a[i] \in Nat
        BY <1>1, <1>4
    <3>2. n \in Nat
        BY <3>1
    <3>3. t(i - 1) + n - 1 = x
        BY <2>0, <2>2, <3>1, <3>2
    <3> QED
        BY <1>2, <3>3
  <2> QED
    BY <2>3
<1>10. {l.logIndex : l \in found} = 0..(t(N) - 1)
    BY <1>8, <1>9
<1>11. Cardinality(found) = t(N)
  <2> DEFINE T == 0..(t(N) - 1)
             g == [x \in T |-> CHOOSE l \in found : l.logIndex = x]
  <2>1. N \in 0..N
    OBVIOUS
  <2>2. t(N) \in Nat
    BY <1>1, <2>1
  <2>3. IsFiniteSet(T) /\ Cardinality(T) = t(N)
    <3>1. 0 \in Int /\ t(N) - 1 \in Int
        BY <2>2
    <3>2. IsFiniteSet(T) /\ Cardinality(T) = IF 0 > t(N) - 1 THEN 0 ELSE t(N) - 1 - 0 + 1
        BY <3>1, FS_Interval
    <3> QED
        BY <2>2, <3>2
  <2>4. /\ \A x \in T : g[x] \in found /\ g[x].logIndex = x
        /\ \A l \in found : l.logIndex \in T
    BY <1>8, <1>9
  <2>5. g \in Injection(T, found) /\ g \in Surjection(T, found)
    <3>1. g \in [T -> found]
        BY <2>4
    <3> HIDE DEF T, g
    <3>2. \A l \in found : g[l.logIndex] = l
        BY <1>7, <2>4
    <3>3. \A x, y \in T : g[x] = g[y] => x = y
        BY <2>4
    <3>4. \A l \in found : \E x \in T : g[x] = l
        BY <2>4, <3>2
    <3> QED
        BY <3>1, <3>3, <3>4 DEF Injection, Surjection, IsInjective
  <2> HIDE DEF T, g
  <2>6. ExistsBijection(T, found)
    BY <2>5 DEF ExistsBijection, Bijection
  <2>7. Cardinality(found) = Cardinality(T)
    BY <2>3, <2>6, FS_Bijection
  <2> QED
    BY <2>3, <2>7
<1> QED
    BY <1>6, <1>10, <1>11


(* What a chain block executed: transactions of the store's bodies, none   *)
(* of them twice.                                                          *)
LEMMA ListingsHold ==
    ASSUME NEW hs, NEW dt, Dag(hs, dt), NEW bs, Bodied(hs, bs), NEW R, Replays(hs, dt, bs, R),
           NEW c \in DOMAIN hs
    PROVE  Own(R, c).executed \in Seq(Carried(hs, bs)) /\ Single(Own(R, c).executed)
<1>1. /\ \A b \in DOMAIN hs \ {Genesis} : R[b] = ExecuteChainBlock(dt, bs, R[dt[b].selected_parent], b)
      /\ Genesis \in DOMAIN hs => R[Genesis] = GenesisExecutor
    BY DEF Replays, ReplayStep
<1>2. CASE c = Genesis
  <2>1. Own(R, c).executed = <<>>
    BY <1>1, <1>2 DEF Own, GenesisExecutor
  <2>2. <<>> \in Seq(Carried(hs, bs)) /\ Single(<<>>)
    BY DEF Single
  <2> QED
    BY <2>1, <2>2
<1>3. CASE c # Genesis
  <2> DEFINE sp == dt[c].selected_parent
             x == R[sp]
             tagged == Deduplicated(Tagged(dt, bs, c))
             order == LayerAndSort(tagged)
             block == ExecuteSequentially(tagged, order, x.state)
             entry == [hash |-> c, executed |-> block.executed, state_root |-> block.state]
  <2>1. sp \in DOMAIN hs
    BY <1>3, PastSplits DEF StepsFrom
  <2>2. Ledger(dt, R, sp)
    BY <2>1, LedgersHold
  <2>3. Accountable(x.state) /\ x.height \in Nat
    BY <2>2 DEF Ledger
  <2>4. tagged \in Seq(Item)
    BY TaggedIsTyped, DeduplicatedIsTyped
  <2>5. Len(order) \in Nat
    <3> HIDE DEF tagged
    <3> QED
        BY <2>4, OrderHasLength
  <2>6. block.executed \in Seq(Carried(hs, bs))
    <3> HIDE DEF x
    <3> QED
        BY ExecutedIsCarried
  <2>7. R[c] = ExecuteChainBlock(dt, bs, x, c)
    BY <1>1, <1>3
  <2>8. R[c].height = x.height + 1 /\ R[c].results = Extend(x.results, x.height + 1, entry)
    BY <2>7 DEF ExecuteChainBlock
  <2> HIDE DEF tagged, order, x
  <2>9. Single(block.executed)
    BY <2>3, <2>5, BlockAdvances
  <2>10. entry.executed = block.executed
    OBVIOUS
  <2> HIDE DEF block, entry
  <2>11. Own(R, c) = entry
    BY <2>8 DEF Own, Extend
  <2> QED
    BY <2>6, <2>9, <2>10, <2>11
<1> QED
    BY <1>2, <1>3

(* The encodings that are kept: of all that is pooled, and of all that a   *)
(* block carries.                                                          *)
BytesKept ==
    /\ Pool!Pooled(pool) \subseteq tx_bytes
    /\ Carried(headers, bodies) \subseteq tx_bytes

LEMMA SubmissionKeepsBytes ==
    ASSUME NodeInv, BytesKept, NEW tx \in Tx, SubmitRaw(tx) \/ SubmitRefused(tx)
    PROVE  BytesKept'
<1>1. headers' = headers /\ bodies' = bodies
    BY DEF SubmitRaw, SubmitRefused, allVars, vars
<1>2. Carried(headers', bodies') = Carried(headers, bodies)
    BY <1>1
<1>3. PoolShape(pool)
    BY DEF NodeInv, Pending
<1>4. CASE SubmitRaw(tx)
  <2>1. pool' = Pool!Added(pool, tx, NextBaseFee) /\ tx_bytes' = tx_bytes \cup {tx}
    BY <1>4 DEF SubmitRaw
  <2>2. Pool!Pooled(pool') \subseteq Pool!Pooled(pool) \cup {tx}
    BY <1>3, <2>1, AddedPool
  <2> QED
    BY <1>2, <2>1, <2>2 DEF BytesKept
<1>5. CASE SubmitRefused(tx)
  <2>1. pool' = [pool EXCEPT !.sequence = @ + 1] /\ tx_bytes' = tx_bytes
    BY <1>5 DEF SubmitRefused
  <2>2. Pool!Pooled(pool') = Pool!Pooled(pool)
    BY <1>3, <2>1 DEF PoolShape, Pool!Pooled
  <2> QED
    BY <1>2, <2>1, <2>2 DEF BytesKept
<1> QED
    BY <1>4, <1>5

LEMMA BlockKeepsBytes ==
    ASSUME NodeInv, BytesKept, NEW b \in Hash, NEW ps, NEW w, NEW body,
           AddBlockAndAdvance(b, ps, w, body)
    PROVE  BytesKept'
<1>1. /\ headers' = Extend(headers, b, [parents |-> ps, work |-> w])
      /\ bodies' = Extend(bodies, b, body) /\ tx_bytes' = tx_bytes \cup ToSet(body)
    BY DEF AddBlockAndAdvance, AddBlock
<1>2. b \notin Present
    BY DEF AddBlockAndAdvance, AddBlock, Accepts
<1>3. Pool!Pooled(pool') \subseteq Pool!Pooled(pool)
  <2>1. PoolShape(pool)
    BY DEF NodeInv, Pending
  <2>2. pool' = pool \/ \E ex, executed : pool' = Settled(pool, ex, executed)
    BY DEF AddBlockAndAdvance, AdvanceBackend
  <2>3. ASSUME NEW ex, NEW executed, pool' = Settled(pool, ex, executed)
        PROVE  Pool!Pooled(pool') \subseteq Pool!Pooled(pool)
    <3> DEFINE r == Pool!Removed(pool, executed)
               nonceOf == [a \in Account |-> AccountOf(ex.state, a).nonce]
    <3>1. PoolShape(r) /\ Pool!Pooled(r) = Pool!Pooled(pool) \ executed
        BY <2>1, RemovedPool
    <3>2. pool' = Pool!Pruned(r, nonceOf)
        BY <2>3 DEF Settled
    <3> HIDE DEF r, nonceOf
    <3>3. Pool!Pooled(pool') \subseteq Pool!Pooled(r)
        BY <3>1, <3>2, PrunedPool
    <3> QED
        BY <3>1, <3>3
  <2> QED
    BY <2>2, <2>3
<1>4. Carried(headers', bodies') \subseteq Carried(headers, bodies) \cup ToSet(body)
  <2>1. DOMAIN headers' = DOMAIN headers \cup {b} /\ bodies'[b] = body
    BY <1>1 DEF Extend
  <2>2. \A x \in DOMAIN headers : bodies'[x] = bodies[x]
    BY <1>1, <1>2 DEF Extend, Present, NodeInv
  <2>3. \A x \in DOMAIN headers' : ToSet(bodies'[x]) \subseteq Carried(headers, bodies) \cup ToSet(body)
    BY <2>1, <2>2 DEF Carried
  <2> QED
    BY <2>3 DEF Carried
<1> QED
    BY <1>1, <1>3, <1>4 DEF BytesKept

LEMMA StepKeepsBytes ==
    ASSUME NodeInv, BytesKept, [BackendNext]_backendVars
    PROVE  BytesKept'
<1>1. CASE UNCHANGED backendVars
  <2>1. headers' = headers /\ bodies' = bodies /\ tx_bytes' = tx_bytes /\ pool' = pool
    BY <1>1 DEF backendVars
  <2> QED
    BY <2>1 DEF BytesKept
<1> QED
    BY <1>1, SubmissionKeepsBytes, BlockKeepsBytes DEF BackendNext

LEMMA BytesAtFirst == BackendInit => BytesKept
<1> SUFFICES ASSUME BackendInit PROVE BytesKept
    OBVIOUS
<1>1. pool = [by_hash |-> <<>>, by_sender |-> <<>>, sequence |-> 0] /\ tx_bytes = {}
    BY DEF BackendInit, Pool!EmptyPool
<1>2. DOMAIN headers = {Genesis} /\ bodies = [b \in {Genesis} |-> <<>>]
    BY DEF BackendInit, ExecInit, Init
<1>3. Pool!Pooled(pool) = {}
    BY <1>1 DEF Pool!Pooled
<1>4. Carried(headers, bodies) = {}
  <2>1. ToSet(<<>>) = {}
    BY DEF ToSet
  <2> QED
    BY <1>2, <2>1 DEF Carried
<1> QED
    BY <1>3, <1>4 DEF BytesKept


(* Height `h` of the executed chain is `c`'s, and holds what the replay of *)
(* `c` recorded for it.                                                    *)
Recorded(h, c) ==
    /\ c \in ChainIn(data, executor.tip) /\ c \in Present /\ Fresh[c].height = h
    /\ executor.results[h] = Own(Fresh, c) /\ executor.results[h].hash = c
    /\ c # Genesis <=> h # 0

ChainRecorded ==
    /\ executor.height \in Nat /\ DOMAIN executor.results = 0..executor.height
    /\ \A h \in 0..executor.height : \E c : Recorded(h, c)
    /\ \A c \in ChainIn(data, executor.tip) :
           Fresh[c].height \in 0..executor.height /\ Recorded(Fresh[c].height, c)
    /\ executor.results[executor.height].hash = executor.tip

LEMMA ChainIsRecorded ==
    ASSUME NodeInv, DagInv
    PROVE  ChainRecorded
<1> DEFINE b == executor.tip
           results == executor.results
           height == executor.height
<1>1. Ledger(data, Fresh, b) /\ Same(executor, Fresh[b]) /\ b \in Present
    BY NodeLedger
<1>2. ChainIn(data, b) \subseteq Present
  <2>1. Layered(headers, data) /\ b \in DOMAIN headers
    BY <1>1, StoreIsDag DEF Present, Dag, WellFormed
  <2>2. ChainIn(data, b) \subseteq {b} \cup PastIn(headers)[b] /\ PastIn(headers)[b] \subseteq DOMAIN headers
    BY <2>1, ChainIsInPast, PastIsClosed DEF Layered
  <2> QED
    BY <2>1, <2>2 DEF Present
<1> HIDE DEF Fresh
<1>3. results = Fresh[b].results /\ height = Fresh[b].height
    BY <1>1 DEF Same
<1>4. height \in Nat /\ DOMAIN results = 0..height /\ Own(Fresh, b).hash = b
    BY <1>1, <1>3 DEF Ledger
<1>5. /\ \A c \in ChainIn(data, b) :
             /\ Fresh[c].height \in 0..height
             /\ \A n \in 0..Fresh[c].height : results[n] = Fresh[c].results[n]
             /\ Own(Fresh, c).hash = c
             /\ c # Genesis <=> Fresh[c].height # 0
      /\ \A n \in 0..height : \E c \in ChainIn(data, b) : Fresh[c].height = n
    BY <1>1, <1>3 DEF Ledger
<1>6. results[height].hash = b
    BY <1>3, <1>4 DEF Own
<1> HIDE DEF results, height, b
<1>7. ASSUME NEW c \in ChainIn(data, b)
      PROVE  Fresh[c].height \in 0..height /\ Recorded(Fresh[c].height, c)
  <2>1. Fresh[c].height \in 0..Fresh[c].height
    BY <1>4, <1>5
  <2>2. results[Fresh[c].height] = Own(Fresh, c)
    BY <1>5, <2>1 DEF Own
  <2> QED
    BY <1>2, <1>5, <2>2 DEF Recorded, results, b
<1>8. ASSUME NEW h \in 0..height PROVE \E c : Recorded(h, c)
  <2>1. PICK c \in ChainIn(data, b) : Fresh[c].height = h
    BY <1>5
  <2> QED
    BY <1>7, <2>1
<1> QED
    BY <1>4, <1>6, <1>7, <1>8 DEF ChainRecorded, results, height, b

(* get_block_by_hash: a block of the chain is found at its height, and no  *)
(* other is.                                                               *)
LEMMA BlocksAreFound ==
    ASSUME ChainRecorded
    PROVE  /\ \A h \in 0..executor.height :
                  RenderBlock(h).found /\ BlockByHash(RenderBlock(h).hash) = RenderBlock(h)
           /\ \A b : b \in ChainIn(data, executor.tip) <=> BlockByHash(b).found
<1> DEFINE heights(b) == {h \in 0..executor.height :
                             h \in DOMAIN executor.results /\ executor.results[h].hash = b}
<1>1. \A b : BlockByHash(b) = IF heights(b) = {} THEN NoAnswer ELSE RenderBlock(Min(heights(b)))
  <2> TAKE b
  <2>1. CASE heights(b) = {}
    BY <2>1 DEF BlockByHash, BlockAnswer, HeightOf
  <2>2. CASE heights(b) # {}
    <3>1. Min(heights(b)) \in heights(b) /\ heights(b) \subseteq Nat
      <4>1. heights(b) \subseteq Nat
          BY DEF ChainRecorded
      <4> HIDE DEF heights
      <4>2. PICK n \in heights(b) : \A m \in heights(b) : ~ (m < n)
          BY <2>2, <4>1, LowestExists
      <4>3. \A m \in heights(b) : n <= m
          BY <4>1, <4>2
      <4> QED
          BY <4>1, <4>3 DEF Min
    <3>2. Min(heights(b)) # NoHeight
        BY <3>1 DEF NoHeight
    <3>3. HeightOf(b) = Min(heights(b))
        BY <2>2 DEF HeightOf
    <3> QED
        BY <2>2, <3>2, <3>3 DEF BlockByHash, BlockAnswer
  <2> QED
    BY <2>1, <2>2
<1>2. executor.height \in Nat /\ DOMAIN executor.results = 0..executor.height
    BY DEF ChainRecorded
<1>3. \A h \in 0..executor.height : RenderBlock(h).found /\ RenderBlock(h).hash = executor.results[h].hash
    BY <1>2 DEF RenderBlock
<1>4. ASSUME NEW c \in ChainIn(data, executor.tip)
      PROVE  /\ Fresh[c].height \in 0..executor.height
             /\ BlockByHash(c) = RenderBlock(Fresh[c].height)
  <2> DEFINE h == Fresh[c].height
  <2>1. h \in 0..executor.height /\ Recorded(h, c)
    BY DEF ChainRecorded
  <2> HIDE DEF h
  <2>2. ASSUME NEW k \in heights(c) PROVE k = h
    <3>1. k \in 0..executor.height /\ executor.results[k].hash = c
        BY <2>2
    <3>2. PICK d : Recorded(k, d)
        BY <3>1 DEF ChainRecorded
    <3> QED
        BY <3>1, <3>2 DEF Recorded, h
  <2>3. h \in heights(c)
    BY <1>2, <2>1 DEF Recorded
  <2>4. heights(c) = {h} /\ h \in Nat
    BY <1>2, <2>1, <2>2, <2>3
  <2> HIDE DEF heights
  <2>5. Min(heights(c)) = h
    BY <2>4 DEF Min
  <2> QED
    BY <1>1, <2>1, <2>4, <2>5 DEF h
<1>5. ASSUME NEW h \in 0..executor.height PROVE BlockByHash(RenderBlock(h).hash) = RenderBlock(h)
  <2>1. PICK c : Recorded(h, c)
    BY DEF ChainRecorded
  <2> QED
    BY <1>3, <1>4, <2>1 DEF Recorded
<1>6. ASSUME NEW b, BlockByHash(b).found PROVE b \in ChainIn(data, executor.tip)
  <2>1. heights(b) # {}
    BY <1>1, <1>6 DEF NoAnswer
  <2>2. PICK h \in 0..executor.height : executor.results[h].hash = b
    BY <2>1
  <2>3. PICK c : Recorded(h, c)
    BY DEF ChainRecorded
  <2> QED
    BY <2>2, <2>3 DEF Recorded
<1> HIDE DEF heights
<1>7. \A b \in ChainIn(data, executor.tip) : BlockByHash(b).found
    BY <1>3, <1>4
<1> QED
    BY <1>3, <1>5, <1>6, <1>7

(* eth_getBlockByNumber: the parent is the block below, and weighs less.   *)
LEMMA BlocksAreChained ==
    ASSUME NodeInv, DagInv, Unsaturated, NEW h \in 1..executor.height
    PROVE  /\ RenderBlock(h).parent = RenderBlock(h - 1).hash
           /\ RenderBlock(h).total_difficulty > RenderBlock(h - 1).total_difficulty
<1> DEFINE T == executor.tip
<1>1. ChainRecorded
    BY ChainIsRecorded
<1>2. /\ Dag(headers, data) /\ Bodied(headers, bodies) /\ T \in DOMAIN headers
      /\ Replays(headers, data, bodies, Fresh)
    BY StoreIsDag, ReplayRecursion DEF NodeInv, StandsAt, Fresh
<1> HIDE DEF Fresh
<1>3. executor.height \in Nat /\ h \in 0..executor.height /\ h # 0
    BY <1>1 DEF ChainRecorded
<1>4. PICK c : Recorded(h, c)
    BY <1>1, <1>3 DEF ChainRecorded
<1> DEFINE sp == data[c].selected_parent
<1>5. c \in DOMAIN headers \ {Genesis} /\ c \in ChainIn(data, T) /\ executor.results[h].hash = c
    BY <1>3, <1>4 DEF Recorded, Present
<1>6. StepsFrom(headers, data, c, sp)
    BY <1>2, <1>5, PastSplits
<1>7. sp \in DOMAIN headers /\ sp \in headers[c].parents /\ ChainIn(data, c) = {c} \cup ChainIn(data, sp)
    BY <1>6 DEF StepsFrom
<1>8. sp \in ChainIn(data, T)
  <2>1. Layered(headers, data)
    BY <1>2 DEF Dag, WellFormed
  <2>2. ChainIn(data, c) \subseteq ChainIn(data, T)
    BY <1>2, <1>5, <2>1, ChainIsInPast
  <2>3. sp \in ChainIn(data, sp)
    BY <1>7, <2>1, ChainIsInPast
  <2> HIDE DEF sp
  <2> QED
    BY <1>7, <2>2, <2>3
<1>9. Fresh[c].height = Fresh[sp].height + 1
  <2>1. Fresh[c] = ExecuteChainBlock(data, bodies, Fresh[sp], c)
    BY <1>2, <1>5 DEF Replays, ReplayStep
  <2> HIDE DEF sp
  <2> QED
    BY <2>1 DEF ExecuteChainBlock
<1>10. Fresh[sp].height \in 0..executor.height /\ Recorded(Fresh[sp].height, sp)
    BY <1>1, <1>8 DEF ChainRecorded
<1>11. Fresh[c].height = h
    BY <1>4 DEF Recorded
<1>12. Fresh[sp].height = h - 1
    BY <1>3, <1>9, <1>10, <1>11
<1>13. executor.results[h - 1].hash = sp /\ h - 1 \in 0..executor.height
    BY <1>10, <1>12 DEF Recorded
<1>14. data[sp].blue_work < data[c].blue_work
    BY <1>5, <1>7, ChildrenWeighMore DEF Present
<1>15. DOMAIN executor.results = 0..executor.height
    BY <1>1 DEF ChainRecorded
<1>16. /\ RenderBlock(h).parent = sp /\ RenderBlock(h).total_difficulty = data[c].blue_work
       /\ RenderBlock(h - 1).hash = sp /\ RenderBlock(h - 1).total_difficulty = data[sp].blue_work
    BY <1>3, <1>5, <1>13, <1>15 DEF RenderBlock, ParentHash
<1> HIDE DEF sp
<1> QED
    BY <1>14, <1>16


(* What a height of the executed chain lists: transactions, none of them   *)
(* twice, all of them kept in full.                                        *)
Listing(s) == s \in Seq(Tx \cap tx_bytes) /\ Single(s)

LEMMA ListingsAreKept ==
    ASSUME NodeInv, DagInv, BytesKept
    PROVE  /\ \A c \in Present : Listing(Own(Fresh, c).executed)
           /\ Did(Fresh, Genesis) = {}
<1>1. /\ Dag(headers, data) /\ Bodied(headers, bodies)
      /\ Replays(headers, data, bodies, Fresh)
    BY StoreIsDag, ReplayRecursion DEF NodeInv, Fresh
<1> HIDE DEF Fresh
<1>2. Carried(headers, bodies) \subseteq Tx \cap tx_bytes
  <2>1. \A x \in DOMAIN headers : ToSet(bodies[x]) \subseteq Tx
    <3> TAKE x \in DOMAIN headers
    <3>1. bodies[x] \in Seq(Tx)
        BY <1>1 DEF Bodied
    <3>2. \A i \in DOMAIN bodies[x] : bodies[x][i] \in Tx
        BY <3>1
    <3> QED
        BY <3>2 DEF ToSet
  <2> QED
    BY <2>1 DEF Carried, BytesKept
<1>3. ASSUME NEW c \in Present PROVE Listing(Own(Fresh, c).executed)
  <2> DEFINE e == Own(Fresh, c).executed
             C == Carried(headers, bodies)
  <2>1. e \in Seq(C) /\ Single(e)
    BY <1>1, <1>3, ListingsHold DEF Present
  <2> HIDE DEF e, C
  <2>2. e \in Seq(Tx \cap tx_bytes)
    BY <1>2, <2>1 DEF C
  <2> QED
    BY <2>1, <2>2 DEF Listing, e
<1>4. Did(Fresh, Genesis) = {}
  <2>1. Fresh[Genesis] = GenesisExecutor
    <3>1. Genesis \in DOMAIN headers
        BY <1>1 DEF Dag, Rooted
    <3> QED
        BY <1>1, <3>1 DEF Replays, ReplayStep
  <2>2. Own(Fresh, Genesis).executed = <<>>
    BY <2>1 DEF Own, GenesisExecutor
  <2>3. ToSet(<<>>) = {}
    BY DEF ToSet
  <2> QED
    BY <2>2, <2>3 DEF Did
<1> QED
    BY <1>3, <1>4

(* A listed transaction is indexed where it is listed.                     *)
LEMMA ListedIsIndexed ==
    ASSUME NodeInv, DagInv, BytesKept, NEW h, NEW c, Recorded(h, c),
           NEW i \in DOMAIN executor.results[h].executed
    PROVE  LET tx == executor.results[h].executed[i]
           IN  /\ tx \in DOMAIN tx_index
               /\ tx_index[tx].height = h /\ tx_index[tx].chain_block = c
               /\ tx_index[tx].index = i
<1> DEFINE e == executor.results[h].executed
           tx == e[i]
<1>1. /\ e = Own(Fresh, c).executed /\ c \in ChainIn(data, executor.tip) /\ c \in Present
      /\ Fresh[c].height = h
    BY DEF Recorded
<1>2. Listing(Own(Fresh, c).executed) /\ Did(Fresh, Genesis) = {}
    BY <1>1, ListingsAreKept
<1>3. Ledger(data, Fresh, executor.tip) /\ IndexOf(data, Fresh, tx_index, executor.tip)
    BY NodeLedger DEF NodeInv
<1> HIDE DEF Fresh
<1>4. tx \in Did(Fresh, c)
    BY <1>1 DEF Did, ToSet
<1>5. c \in ChainIn(data, executor.tip) \ {Genesis}
    BY <1>1, <1>2, <1>4
<1> HIDE DEF e
<1>6. tx \in DOMAIN tx_index
    BY <1>3, <1>4, <1>5 DEF IndexOf
<1>7. PICK d \in ChainIn(data, executor.tip) \ {Genesis} : Placed(Fresh, tx_index[tx], tx, d)
    BY <1>3, <1>6 DEF IndexOf
<1>8. tx \in Did(Fresh, d)
    BY <1>7 DEF Placed
<1>9. d = c
    BY <1>3, <1>4, <1>5, <1>7, <1>8 DEF Ledger
<1>10. /\ tx_index[tx].height = h /\ tx_index[tx].chain_block = c
       /\ tx_index[tx].index \in DOMAIN e /\ e[tx_index[tx].index] = e[i]
    BY <1>1, <1>7, <1>9 DEF Placed
<1>11. tx_index[tx].index = i
    BY <1>1, <1>2, <1>10 DEF Listing, Single, e
<1> QED
    BY <1>6, <1>10, <1>11 DEF e

(* Cumulative gas: what a receipt subtracts leaves its transaction's gas.  *)
LEMMA GasIsOwn ==
    ASSUME NEW e \in Seq(Tx), NEW i \in DOMAIN e
    PROVE  Cumulative(e, i) - Cumulative(e, i - 1) = e[i].gas
<1> DEFINE N == Len(e)
           a == [j \in 1..N |-> e[j].gas]
<1>1. N \in Nat /\ i \in 1..N /\ \A j \in 1..N : e[j] \in Tx
    OBVIOUS
<1>2. \A j \in 1..N : e[j].gas \in Nat
    BY <1>1, BackendAssumption
<1> HIDE DEF N
<1>3. Len(a) = N /\ \A j \in 1..N : a[j] = e[j].gas
    BY <1>1, LenProperties
<1>4. \A n : Cumulative(e, n) = RunningTotal(a, n)
    BY DEF Cumulative, N
<1> HIDE DEF a
<1>5. AddsUp(a, N)
    BY <1>1, <1>2, <1>3, TotalsAdd
<1>6. /\ RunningTotal(a, i) = RunningTotal(a, i - 1) + a[i]
      /\ RunningTotal(a, i - 1) \in Nat /\ a[i] \in Nat
  <2>1. i - 1 \in 0..N
    BY <1>1
  <2> QED
    BY <1>1, <1>2, <1>3, <1>5, <2>1 DEF AddsUp
<1>7. RunningTotal(a, i) - RunningTotal(a, i - 1) = a[i]
    BY <1>6
<1> QED
    BY <1>1, <1>3, <1>4, <1>7

(* get_logs, a height of the executed chain. *)
LEMMA LogsAreCounted ==
    ASSUME NEW h \in DOMAIN executor.results, NEW found, found = GetLogs(h, h), h \in Nat,
           executor.results[h].executed \in Seq(Tx)
    PROVE  /\ {l.logIndex : l \in found} = 0..(Cardinality(found) - 1)
           /\ \A l, m \in found : l.transaction < m.transaction => l.logIndex < m.logIndex
           /\ \A i \in DOMAIN executor.results[h].executed :
                  LET e == executor.results[h].executed
                  IN  {[l EXCEPT !.logIndex = @ + LogBase(e, i)] :
                          l \in {[number |-> h, transaction |-> i, position |-> n,
                                  logIndex |-> n - 1] : n \in 1..Logs[e[i]]}}
                          = {l \in found : l.transaction = i}
<1> DEFINE e == executor.results[h].executed
           N == Len(e)
           a == [j \in 1..N |-> Logs[e[j]]]
<1>1. N \in Nat /\ DOMAIN e = 1..N /\ \A j \in 1..N : e[j] \in Tx
    OBVIOUS
<1>2. \A j \in 1..N : Logs[e[j]] \in Nat
    BY <1>1, LogsAssumption
<1>3. (h..h) \cap DOMAIN executor.results = {h}
    OBVIOUS
<1>4. \A i : LogBase(e, i) = RunningTotal(a, i - 1)
    BY DEF LogBase
<1>5. found = UNION {UNION {{[number |-> k, transaction |-> i, position |-> n,
                              logIndex |-> LogBase(executor.results[k].executed, i) + n - 1] :
                                 n \in 1..Logs[executor.results[k].executed[i]]} :
                            i \in DOMAIN executor.results[k].executed} : k \in {h}}
    BY <1>3 DEF GetLogs
<1> DEFINE rec(i, n) == [number |-> h, transaction |-> i, position |-> n,
                         logIndex |-> LogBase(e, i) + n - 1]
<1>6. found = UNION {{rec(i, n) : n \in 1..Logs[e[i]]} : i \in DOMAIN e}
    BY <1>5
<1>7. \A i, n : rec(i, n).transaction = i
    OBVIOUS
<1>8. \A i \in DOMAIN e : \A n \in 1..Logs[e[i]] : rec(i, n) \in found
  <2> HIDE DEF rec
  <2> QED
    BY <1>6
<1>9. \A l \in found : \E i \in DOMAIN e : \E n \in 1..Logs[e[i]] : l = rec(i, n)
  <2> HIDE DEF rec
  <2> QED
    BY <1>6
<1> HIDE DEF N, e
<1>10. Len(a) = N /\ \A j \in 1..N : a[j] = Logs[e[j]]
    BY <1>1, LenProperties
<1> HIDE DEF a
<1>11. \A i \in 1..N : a[i] \in Nat
    BY <1>2, <1>10
<1>12. AddsUp(a, N)
    BY <1>1, <1>10, <1>11, TotalsAdd
<1>13. \A i, n : Log(h, a, i, n) = rec(i, n)
  <2> TAKE i, n
  <2>1. LogBase(e, i) = RunningTotal(a, i - 1)
    BY <1>4
  <2> QED
    BY <2>1 DEF Log
<1> HIDE DEF rec
<1>14. LogsOf(h, a, N, found)
  <2>1. ASSUME NEW i \in 1..N, NEW n \in 1..a[i]
        PROVE  Log(h, a, i, n) \in found
    <3>1. i \in DOMAIN e /\ n \in 1..Logs[e[i]]
        BY <1>1, <1>10
    <3> QED
        BY <1>8, <1>13, <3>1
  <2>2. ASSUME NEW l \in found
        PROVE  \E i \in 1..N : \E n \in 1..a[i] : l = Log(h, a, i, n)
    <3>1. PICK i \in DOMAIN e : \E n \in 1..Logs[e[i]] : l = rec(i, n)
        BY <1>9
    <3>2. PICK n \in 1..Logs[e[i]] : l = rec(i, n)
        BY <3>1
    <3>3. i \in 1..N /\ n \in 1..a[i]
        BY <1>1, <1>10
    <3> QED
        BY <1>13, <3>2, <3>3
  <2> QED
    BY <2>1, <2>2 DEF LogsOf
<1>15. ASSUME NEW i \in DOMAIN e
       PROVE  {[l EXCEPT !.logIndex = @ + LogBase(e, i)] :
                  l \in {[number |-> h, transaction |-> i, position |-> n,
                          logIndex |-> n - 1] : n \in 1..Logs[e[i]]}}
                  = {l \in found : l.transaction = i}
  <2> DEFINE base == LogBase(e, i)
             own(n) == [number |-> h, transaction |-> i, position |-> n, logIndex |-> n - 1]
             moved(l) == [l EXCEPT !.logIndex = @ + base]
  <2>1. base \in Nat
    <3>1. i \in 1..N /\ i - 1 \in 0..N
        BY <1>1
    <3>2. RunningTotal(a, i - 1) \in Nat
        BY <1>1, <1>11, <1>12, <3>1, TotalsRise DEF AddsUp
    <3> QED
        BY <1>4, <3>2
  <2> HIDE DEF base
  <2>2. \A n \in Nat : moved(own(n)) = rec(i, n)
    <3> TAKE n \in Nat
    <3>1. own(n).logIndex + base = base + n - 1
        BY <2>1
    <3>2. moved(own(n)) = [number |-> h, transaction |-> i, position |-> n,
                           logIndex |-> own(n).logIndex + base]
        OBVIOUS
    <3> QED
        BY <3>1, <3>2 DEF rec, base
  <2>3. {l \in found : l.transaction = i} = {rec(i, n) : n \in 1..Logs[e[i]]}
    <3>1. \A l \in found : l.transaction = i => \E n \in 1..Logs[e[i]] : l = rec(i, n)
      <4> TAKE l \in found
      <4>1. PICK k \in DOMAIN e : \E n \in 1..Logs[e[k]] : l = rec(k, n)
          BY <1>9
      <4> QED
          BY <1>7, <4>1
    <3> QED
        BY <1>7, <1>8, <3>1
  <2>4. \A n \in 1..Logs[e[i]] : n \in Nat
    BY <1>1, <1>2
  <2>5. {moved(l) : l \in {own(n) : n \in 1..Logs[e[i]]}} = {moved(own(n)) : n \in 1..Logs[e[i]]}
    OBVIOUS
  <2> HIDE DEF moved, own
  <2>6. {moved(own(n)) : n \in 1..Logs[e[i]]} = {rec(i, n) : n \in 1..Logs[e[i]]}
    BY <2>2, <2>4
  <2> QED
    BY <2>3, <2>5, <2>6 DEF moved, own, base
<1> QED
    BY <1>1, <1>11, <1>12, <1>14, <1>15, LogsCount DEF e


(* One height as it is served. *)
ServedAt(h) ==
    LET block == RenderBlock(h)
    IN  /\ block.found /\ BlockByHash(block.hash) = block
        /\ h > 0 => /\ block.parent = RenderBlock(h - 1).hash
                    /\ block.total_difficulty > RenderBlock(h - 1).total_difficulty
        /\ block.transactions = block.hashes
        /\ \A i \in DOMAIN block.transactions :
               LET tx == block.transactions[i]
               IN  /\ TransactionByHash(tx) = [found |-> TRUE, place |-> <<h, block.hash, i>>]
                   /\ Receipt(tx).number = h /\ Receipt(tx).hash = block.hash
                   /\ Receipt(tx).index = i /\ Receipt(tx).gas_used = tx.gas
                   /\ Receipt(tx).from = tx.sender
                   /\ {[l EXCEPT !.logIndex = @ + LogBase(block.hashes, i)] :
                          l \in Receipt(tx).logs}
                          = {l \in GetLogs(h, h) : l.transaction = i}

LEMMA HeightIsServed ==
    ASSUME NodeInv, DagInv, BytesKept, Unsaturated, NEW h \in 0..executor.height
    PROVE  /\ ServedAt(h)
           /\ LET found == GetLogs(h, h)
              IN  /\ {l.logIndex : l \in found} = 0..(Cardinality(found) - 1)
                  /\ \A l, m \in found : l.transaction < m.transaction => l.logIndex < m.logIndex
<1> DEFINE outcome == executor.results[h]
           e == outcome.executed
           block == RenderBlock(h)
<1>1. ChainRecorded
    BY ChainIsRecorded
<1>2. /\ executor.height \in Nat /\ h \in Nat /\ h \in DOMAIN executor.results
      /\ h > 0 => h \in 1..executor.height
    BY <1>1 DEF ChainRecorded
<1>3. PICK c : Recorded(h, c)
    BY <1>1 DEF ChainRecorded
<1>4. outcome = Own(Fresh, c) /\ outcome.hash = c /\ c \in Present
    BY <1>3 DEF Recorded
<1>5. e \in Seq(Tx \cap tx_bytes) /\ Single(e)
    BY <1>4, ListingsAreKept DEF Listing
<1>6. e \in Seq(Tx) /\ \A i \in DOMAIN e : e[i] \in Tx /\ e[i] \in tx_bytes
  <2> HIDE DEF e
  <2> QED
    BY <1>5
<1>7. \A i \in DOMAIN e : /\ e[i] \in DOMAIN tx_index
                          /\ tx_index[e[i]].height = h /\ tx_index[e[i]].chain_block = c
                          /\ tx_index[e[i]].index = i
    BY <1>3, ListedIsIndexed
<1>8. \A i \in DOMAIN e : Cumulative(e, i) - Cumulative(e, i - 1) = e[i].gas
    BY <1>6, GasIsOwn
<1>9. /\ block.found /\ block.hash = c /\ block.hashes = e
      /\ block.transactions = [i \in {i \in DOMAIN e : e[i] \in tx_bytes} |-> e[i]]
    BY <1>2, <1>4 DEF RenderBlock
<1>10. block.transactions = e
  <2>1. {i \in DOMAIN e : e[i] \in tx_bytes} = DOMAIN e
    BY <1>6
  <2> HIDE DEF e, block
  <2>2. e = [i \in DOMAIN e |-> e[i]]
    BY <1>6
  <2> QED
    BY <1>9, <2>1, <2>2
<1>11. ASSUME NEW i \in DOMAIN e
       PROVE  /\ TransactionByHash(e[i]) = [found |-> TRUE, place |-> <<h, c, i>>]
              /\ Receipt(e[i]).number = h /\ Receipt(e[i]).hash = c
              /\ Receipt(e[i]).index = i /\ Receipt(e[i]).gas_used = e[i].gas
              /\ Receipt(e[i]).from = e[i].sender
              /\ Receipt(e[i]).logs = {[number |-> h, transaction |-> i, position |-> n,
                                        logIndex |-> n - 1] : n \in 1..Logs[e[i]]}
  <2> DEFINE tx == e[i]
  <2>1. /\ tx \in DOMAIN tx_index /\ tx \in tx_bytes
        /\ tx_index[tx].height = h /\ tx_index[tx].chain_block = c /\ tx_index[tx].index = i
    BY <1>6, <1>7
  <2>2. executor.results[h].executed = e /\ executor.results[h].hash = c
    BY <1>4
  <2>3. Cumulative(e, i) - Cumulative(e, i - 1) = tx.gas
    BY <1>8
  <2>6. e[i] = tx
    OBVIOUS
  <2> HIDE DEF tx, e, outcome
  <2>4. TransactionByHash(tx) = [found |-> TRUE, place |-> <<h, c, i>>]
    BY <2>1 DEF TransactionByHash
  <2>5. /\ Receipt(tx).number = h /\ Receipt(tx).hash = c /\ Receipt(tx).index = i
        /\ Receipt(tx).gas_used = Cumulative(e, i) - Cumulative(e, i - 1)
        /\ Receipt(tx).from = tx.sender
        /\ Receipt(tx).logs = {[number |-> h, transaction |-> i, position |-> n,
                                logIndex |-> n - 1] : n \in 1..Logs[e[i]]}
    BY <2>1, <2>2, ReceiptIsWhole DEF ReceiptWith, SenderOf
  <2> QED
    BY <2>3, <2>4, <2>5, <2>6 DEF tx
<1>12. block.found /\ BlockByHash(block.hash) = block
    BY <1>1, BlocksAreFound
<1>13. h > 0 => /\ block.parent = RenderBlock(h - 1).hash
                /\ block.total_difficulty > RenderBlock(h - 1).total_difficulty
    BY <1>2, BlocksAreChained
<1>14. LET found == GetLogs(h, h)
       IN  /\ {l.logIndex : l \in found} = 0..(Cardinality(found) - 1)
           /\ \A l, m \in found : l.transaction < m.transaction => l.logIndex < m.logIndex
    BY <1>2, <1>6, LogsAreCounted
<1>15. ASSUME NEW i \in DOMAIN e
       PROVE  {[l EXCEPT !.logIndex = @ + LogBase(e, i)] :
                  l \in {[number |-> h, transaction |-> i, position |-> n,
                          logIndex |-> n - 1] : n \in 1..Logs[e[i]]}}
                  = {l \in GetLogs(h, h) : l.transaction = i}
    BY <1>2, <1>6, LogsAreCounted
<1>16. ServedAt(h)
  <2> HIDE DEF e, outcome, block
  <2>1. block.transactions = block.hashes
    BY <1>9, <1>10
  <2>2. ASSUME NEW i \in DOMAIN block.transactions
        PROVE  LET tx == block.transactions[i]
               IN  /\ TransactionByHash(tx) = [found |-> TRUE, place |-> <<h, block.hash, i>>]
                   /\ Receipt(tx).number = h /\ Receipt(tx).hash = block.hash
                   /\ Receipt(tx).index = i /\ Receipt(tx).gas_used = tx.gas
                   /\ Receipt(tx).from = tx.sender
                   /\ {[l EXCEPT !.logIndex = @ + LogBase(block.hashes, i)] :
                          l \in Receipt(tx).logs}
                          = {l \in GetLogs(h, h) : l.transaction = i}
    <3>1. i \in DOMAIN e /\ block.transactions[i] = e[i] /\ block.hash = c /\ block.hashes = e
        BY <1>9, <1>10
    <3>2. {[l EXCEPT !.logIndex = @ + LogBase(e, i)] : l \in Receipt(e[i]).logs}
              = {l \in GetLogs(h, h) : l.transaction = i}
        BY <1>11, <1>15, <3>1
    <3> QED
        BY <1>11, <3>1, <3>2
  <2> QED
    BY <1>12, <1>13, <2>1, <2>2 DEF ServedAt, block
<1> QED
    BY <1>14, <1>16

LEMMA ServedFits ==
    ASSUME NodeInv, DagInv, BytesKept, Unsaturated
    PROVE  ServedChainFits
<1>1. ChainRecorded /\ executor.tip = VirtualSelectedParent
    BY ChainIsRecorded DEF NodeInv
<1>2. RenderBlock(DagTips.executed_height).hash = DagTips.virtual_selected_parent
  <2>1. /\ executor.height \in DOMAIN executor.results
        /\ executor.results[executor.height].hash = VirtualSelectedParent
    BY <1>1 DEF ChainRecorded
  <2>2. DagTips.executed_height = executor.height
    BY DEF DagTips
  <2>3. DagTips.virtual_selected_parent = VirtualSelectedParent
    BY DEF DagTips
  <2> QED
    BY <2>1, <2>2, <2>3 DEF RenderBlock
<1>3. \A b \in Present : IsChainBlock(b) <=> BlockByHash(b).found
  <2>1. \A b : IsChainBlock(b) <=> b \in ChainIn(data, executor.tip)
    BY <1>1 DEF IsChainBlock, DagTips, Chain
  <2> QED
    BY <1>1, <2>1, BlocksAreFound
<1>4. \A h \in 0..executor.height : ServedAt(h)
    BY HeightIsServed
<1>5. \A tx \in DOMAIN tx_index \cup Pool!Pooled(pool) : TransactionByHash(tx).found
  <2>1. ASSUME NEW tx \in DOMAIN tx_index PROVE tx \in tx_bytes
    <3>1. PICK c \in ChainIn(data, executor.tip) : tx \in Did(Fresh, c)
        BY DEF NodeInv, IndexOf
    <3>2. c \in Present
        BY <1>1, <3>1 DEF ChainRecorded, Recorded
    <3>3. Own(Fresh, c).executed \in Seq(Tx \cap tx_bytes)
        BY <3>2, ListingsAreKept DEF Listing
    <3>4. \A i \in DOMAIN Own(Fresh, c).executed : Own(Fresh, c).executed[i] \in tx_bytes
        BY <3>3
    <3> HIDE DEF Fresh
    <3> QED
        BY <3>1, <3>4 DEF Did, ToSet
  <2>2. \A tx \in Pool!Pooled(pool) : tx \in tx_bytes
    BY DEF BytesKept
  <2>3. \A tx \in tx_bytes : TransactionByHash(tx).found
    BY DEF TransactionByHash
  <2> QED
    BY <2>1, <2>2, <2>3
<1>6. LogsAreNumbered
    BY HeightIsServed DEF LogsAreNumbered
<1> QED
    BY <1>2, <1>3, <1>4, <1>5, <1>6 DEF ServedChainFits, ServedAt


(* The JSON-RPC answers, for a node whose reorgs the journal holds and     *)
(* whose blue work has not run into its ceiling: the executed chain is the *)
(* one the DAG selects, each block names the one below it as its parent    *)
(* and is found by its hash, work rises, every transaction a block lists   *)
(* is found by hash and by receipt at the place where it is listed, with   *)
(* the sender and the gas that were its own; the logs of a block are       *)
(* numbered without a gap by getLogs, and by a receipt from zero, less by  *)
(* the logs of the transactions before it.                                 *)
THEOREM ServedChain ==
    BackendSpec /\ [][ReorgSucceeds]_backendVars => [](Unsaturated => ServedChainFits)
<1>1. NodeInv /\ BytesKept /\ [BackendNext]_backendVars => BytesKept'
    BY StepKeepsBytes
<1>2. BackendSpec /\ [][ReorgSucceeds]_backendVars => []BytesKept
    BY <1>1, BytesAtFirst, NodeInvariant, PTL DEF BackendSpec
<1>3. NodeInv /\ DagInv /\ BytesKept => (Unsaturated => ServedChainFits)
    BY ServedFits
<1> QED
    BY <1>2, <1>3, NodeInvariant, NodeIsOfADag, PTL

(* The same of the development node, with nothing assumed of reorgs: it    *)
(* never undoes a block.                                                   *)
THEOREM DevChainServed == DevSpec => [](Unsaturated => ServedChainFits)
<1>1. NodeInv /\ BytesKept /\ [DevNext]_devVars => BytesKept'
  <2> SUFFICES ASSUME NodeInv, BytesKept, [DevNext]_devVars PROVE BytesKept'
    OBVIOUS
  <2>1. CASE \E tx \in Tx : SubmitRaw(tx) \/ SubmitRefused(tx)
    BY <2>1, SubmissionKeepsBytes
  <2>2. CASE UNCHANGED backendVars
    BY <2>2, StepKeepsBytes
  <2>3. CASE \E b \in Hash, w \in Work : AddMined(b, w)
    BY <2>3, BlockKeepsBytes DEF AddMined
  <2> QED
    BY <2>1, <2>2, <2>3 DEF DevNext, TakeTemplate, GiveUp, devVars
<1>2. DevInit => BytesKept
    BY BytesAtFirst DEF DevInit
<1>3. DevSpec => []BytesKept
    BY <1>1, <1>2, MiningInvariant, PTL DEF DevSpec, Mining
<1>4. Mining /\ BytesKept => (Unsaturated => ServedChainFits)
    BY ServedFits DEF Mining
<1> QED
    BY <1>3, <1>4, MiningInvariant, PTL

-----------------------------------------------------------------------------
(* Calls under way.  What replaying a block gives does not change while    *)
(* the node goes on, whether the block stays on the chain or not.          *)
LEMMA ReplaysStay ==
    ASSUME NodeInv, DagInv, DagInv', [BackendNext]_backendVars
    PROVE  /\ Present \subseteq Present' /\ tx_bytes \subseteq tx_bytes'
           /\ \A c \in Present : Fresh'[c] = Fresh[c]
<1>1. CASE \/ UNCHANGED backendVars
           \/ \E tx \in Tx : SubmitRaw(tx) \/ SubmitRefused(tx)
  <2>1. headers' = headers /\ data' = data /\ bodies' = bodies /\ tx_bytes \subseteq tx_bytes'
    BY <1>1 DEF backendVars, SubmitRaw, SubmitRefused, allVars, vars
  <2>2. Fresh' = Fresh /\ Present' = Present
    BY <2>1 DEF Fresh, Present
  <2> HIDE DEF Fresh, Present
  <2> QED
    BY <2>1, <2>2
<1>2. CASE \E b \in Hash, ps \in ParentSets(Present), w \in Work, body \in Bodies :
               AddBlockAndAdvance(b, ps, w, body)
  <2>1. PICK b \in Hash, ps \in ParentSets(Present), w \in Work, body \in Bodies :
             AddBlockAndAdvance(b, ps, w, body)
    BY <1>2
  <2>2. /\ AddBlock(b, ps, w) /\ bodies' = Extend(bodies, b, body)
        /\ tx_bytes' = tx_bytes \cup ToSet(body) /\ body \in Seq(Tx)
    BY <2>1, ExecutorAssumption DEF AddBlockAndAdvance
  <2>3. DOMAIN bodies = Present /\ Bodied(headers, bodies)
    BY DEF NodeInv
  <2> HIDE DEF Fresh
  <2>4. /\ Present' = Present \cup {b}
        /\ Agree(headers, data, headers', data')
        /\ Bodied(headers', bodies') /\ Dag(headers, data) /\ Dag(headers', data')
        /\ Extends(headers, data, bodies, headers', data', bodies')
        /\ Replays(headers, data, bodies, Fresh) /\ Replays(headers', data', bodies', Fresh')
    BY <2>2, <2>3, StoreGrows
  <2>5. \A c \in DOMAIN headers : Fresh'[c] = Fresh[c]
    BY <2>3, <2>4, ReplayAgrees
  <2> QED
    BY <2>2, <2>4, <2>5 DEF Present
<1> QED
    BY <1>1, <1>2 DEF BackendNext

(* What has been read of a transaction: its place in some block, and what  *)
(* that block recorded.                                                    *)
Read(located, tx) ==
    /\ located.found /\ tx \in tx_bytes
    /\ \E c \in Present : /\ Placed(Fresh, located.at, tx, c)
                          /\ Own(Fresh, c).hash = c /\ located.outcome = Own(Fresh, c)

AskedInv ==
    /\ asked.call = "block" => asked.hash \in Present /\ asked.height = Fresh[asked.hash].height
    /\ asked.call \in {"located", "receipt"} => Read(asked.located, asked.tx)
    /\ asked.call = "receipt" => asked.from = asked.tx.sender

LEMMA ReadStays ==
    ASSUME NodeInv, DagInv, DagInv', [BackendNext]_backendVars, asked' = asked, AskedInv
    PROVE  AskedInv'
<1>1. /\ Present \subseteq Present' /\ tx_bytes \subseteq tx_bytes'
      /\ \A c \in Present : Fresh'[c] = Fresh[c]
    BY ReplaysStay
<1> HIDE DEF Fresh, Present
<1>2. \A c \in Present : Own(Fresh', c) = Own(Fresh, c) /\ Did(Fresh', c) = Did(Fresh, c)
    BY <1>1 DEF Own, Did
<1>3. \A at, tx : \A c \in Present : Placed(Fresh, at, tx, c) => Placed(Fresh', at, tx, c)
    BY <1>1, <1>2 DEF Placed
<1>4. ASSUME NEW located, NEW tx, Read(located, tx)
      PROVE  /\ located.found /\ tx \in tx_bytes'
             /\ \E c \in Present' : /\ Placed(Fresh', located.at, tx, c)
                                    /\ Own(Fresh', c).hash = c /\ located.outcome = Own(Fresh', c)
  <2>1. PICK c \in Present : /\ Placed(Fresh, located.at, tx, c)
                             /\ Own(Fresh, c).hash = c /\ located.outcome = Own(Fresh, c)
    BY <1>4 DEF Read
  <2>2. c \in Present' /\ Placed(Fresh', located.at, tx, c) /\ Own(Fresh', c) = Own(Fresh, c)
    BY <1>1, <1>2, <1>3, <2>1
  <2> QED
    BY <1>1, <1>4, <2>1, <2>2 DEF Read
<1>5. asked'.call = "block" => asked'.hash \in Present' /\ asked'.height = Fresh'[asked'.hash].height
    BY <1>1 DEF AskedInv
<1>6. asked'.call \in {"located", "receipt"} =>
          /\ asked'.located.found /\ asked'.tx \in tx_bytes'
          /\ \E c \in Present' : /\ Placed(Fresh', asked'.located.at, asked'.tx, c)
                                 /\ Own(Fresh', c).hash = c
                                 /\ asked'.located.outcome = Own(Fresh', c)
    BY <1>4 DEF AskedInv
<1> QED
    BY <1>5, <1>6 DEF AskedInv, Read

(* The first section of each call. *)
LEMMA BlockIsLocated ==
    ASSUME NodeInv, DagInv, NEW hash, HeightOf(hash) # NoHeight
    PROVE  hash \in Present /\ HeightOf(hash) = Fresh[hash].height
<1> DEFINE heights == {h \in 0..executor.height :
                          h \in DOMAIN executor.results /\ executor.results[h].hash = hash}
<1>1. ChainRecorded
    BY ChainIsRecorded
<1>2. heights # {} /\ HeightOf(hash) = Min(heights)
    BY DEF HeightOf
<1>3. heights \subseteq Nat
    BY <1>1 DEF ChainRecorded
<1>4. Min(heights) \in heights
  <2> HIDE DEF heights
  <2>1. PICK n \in heights : \A m \in heights : ~ (m < n)
    BY <1>2, <1>3, LowestExists
  <2>2. \A m \in heights : n <= m
    BY <1>3, <2>1
  <2> QED
    BY <2>2 DEF Min
<1>5. HeightOf(hash) \in 0..executor.height /\ executor.results[HeightOf(hash)].hash = hash
    BY <1>2, <1>4
<1>6. PICK c : Recorded(HeightOf(hash), c)
    BY <1>1, <1>5 DEF ChainRecorded
<1> QED
    BY <1>5, <1>6 DEF Recorded

LEMMA ReceiptIsLocated ==
    ASSUME NodeInv, DagInv, BytesKept, NEW tx, Located(tx).found
    PROVE  Read(Located(tx), tx)
<1>1. tx \in DOMAIN tx_index
    BY DEF Located, NoAnswer
<1>2. PICK c \in ChainIn(data, executor.tip) \ {Genesis} :
          /\ Placed(Fresh, tx_index[tx], tx, c) /\ Own(Fresh, c).hash = c
          /\ executor.results[tx_index[tx].height] = Own(Fresh, c)
    BY <1>1, IndexedIsListed
<1>3. /\ Located(tx).at = tx_index[tx]
      /\ Located(tx).outcome = executor.results[tx_index[tx].height]
    BY <1>1, ReceiptIsWhole
<1>4. c \in Present
    BY <1>2, ChainIsRecorded DEF ChainRecorded, Recorded
<1>5. tx \in tx_bytes
  <2>1. Own(Fresh, c).executed \in Seq(Tx \cap tx_bytes)
    BY <1>4, ListingsAreKept DEF Listing
  <2>2. \A i \in DOMAIN Own(Fresh, c).executed : Own(Fresh, c).executed[i] \in tx_bytes
    BY <2>1
  <2> HIDE DEF Fresh
  <2> QED
    BY <1>2, <2>2 DEF Placed, Did, ToSet
<1> HIDE DEF Fresh
<1> QED
    BY <1>2, <1>3, <1>4, <1>5 DEF Read

LEMMA CallsRead ==
    ASSUME NodeInv, DagInv, DagInv', BytesKept, AskedInv, [RpcNext]_rpcVars
    PROVE  AskedInv'
<1>1. CASE \/ BackendNext /\ UNCHANGED asked
           \/ UNCHANGED rpcVars
    BY <1>1, ReadStays DEF rpcVars
<1>2. CASE CallNext
  <2>1. UNCHANGED backendVars
    BY <1>2 DEF CallNext, AskBlock, AskReceipt, ReadSender, Answered
  <2>2. Fresh' = Fresh /\ Present' = Present /\ tx_bytes' = tx_bytes
    BY <2>1 DEF backendVars, Fresh, Present
  <2> HIDE DEF Fresh, Present
  <2>3. \A located, tx :
            Read(located, tx) =>
                /\ located.found /\ tx \in tx_bytes'
                /\ \E c \in Present' : /\ Placed(Fresh', located.at, tx, c)
                                       /\ Own(Fresh', c).hash = c
                                       /\ located.outcome = Own(Fresh', c)
    BY <2>2 DEF Read
  <2>4. ASSUME NEW hash, AskBlock(hash) PROVE AskedInv'
    <3>1. asked'.call = "block" /\ asked'.hash = hash /\ asked'.height = HeightOf(hash)
        BY <2>4 DEF AskBlock
    <3>2. hash \in Present /\ HeightOf(hash) = Fresh[hash].height
        BY <2>4, BlockIsLocated DEF AskBlock
    <3> QED
        BY <2>2, <3>1, <3>2 DEF AskedInv
  <2>5. ASSUME NEW tx, AskReceipt(tx) PROVE AskedInv'
    <3>1. asked'.call = "located" /\ asked'.tx = tx /\ asked'.located = Located(tx)
        BY <2>5 DEF AskReceipt
    <3>2. Read(Located(tx), tx)
        BY <2>5, ReceiptIsLocated DEF AskReceipt
    <3>3. Read(asked'.located, asked'.tx)
        BY <3>1, <3>2
    <3> QED
        BY <2>3, <3>1, <3>3 DEF AskedInv, Read
  <2>6. ASSUME ReadSender PROVE AskedInv'
    <3>1. /\ asked.call = "located" /\ asked'.call = "receipt" /\ asked'.tx = asked.tx
          /\ asked'.located = asked.located /\ asked'.from = SenderOf(asked.tx)
        BY <2>6 DEF ReadSender
    <3>2. Read(asked'.located, asked'.tx)
        BY <3>1 DEF AskedInv
    <3>3. asked'.from = asked'.tx.sender
        BY <3>1, <3>2 DEF SenderOf, Read
    <3> QED
        BY <2>3, <3>1, <3>2, <3>3 DEF AskedInv, Read
  <2>7. ASSUME Answered PROVE AskedInv'
    <3>1. asked'.call = "none"
        BY <2>7 DEF Answered, NoCall
    <3> QED
        BY <3>1 DEF AskedInv
  <2> QED
    BY <1>2, <2>4, <2>5, <2>6, <2>7 DEF CallNext
<1> QED
    BY <1>1, <1>2 DEF RpcNext

(* The last section. *)
LEMMA AnswersAreOfOneBlock ==
    ASSUME NodeInv, DagInv, BytesKept, AskedInv
    PROVE  TornOnlyByReorg
<1>1. ChainRecorded /\ executor.tip = VirtualSelectedParent
    BY ChainIsRecorded DEF NodeInv
<1>2. \A b : IsChainBlock(b) <=> b \in ChainIn(data, executor.tip)
    BY <1>1 DEF IsChainBlock, DagTips, Chain
<1>3. ASSUME asked.call = "block", IsChainBlock(asked.hash)
      PROVE  /\ BlockAnswer(asked.height).found /\ BlockAnswer(asked.height).hash = asked.hash
             /\ BlockAnswer(asked.height) = BlockByHash(asked.hash)
  <2> DEFINE h == asked.height
  <2>1. h \in 0..executor.height /\ Recorded(h, asked.hash)
    BY <1>1, <1>2, <1>3 DEF AskedInv, ChainRecorded
  <2>2. h \in Nat /\ h \in DOMAIN executor.results /\ executor.results[h].hash = asked.hash
    BY <1>1, <2>1 DEF ChainRecorded, Recorded
  <2>3. BlockAnswer(h) = RenderBlock(h)
    BY <2>2 DEF BlockAnswer, NoHeight
  <2>4. RenderBlock(h).hash = asked.hash
    BY <2>2 DEF RenderBlock
  <2> HIDE DEF h
  <2> QED
    BY <1>1, <2>1, <2>3, <2>4, BlocksAreFound DEF h
<1>4. ASSUME asked.call = "receipt"
      PROVE  LET answer == ReceiptAnswer(asked.located, asked.from)
                 fresh  == Replay(answer.hash)
                 listed == fresh.results[fresh.height].executed
             IN  /\ answer.found /\ answer.from = asked.tx.sender
                 /\ answer.number = fresh.height
                 /\ answer.index \in DOMAIN listed /\ listed[answer.index] = asked.tx
                 /\ IsChainBlock(answer.hash) => answer = Receipt(asked.tx)
  <2> DEFINE tx == asked.tx
             at == asked.located.at
             outcome == asked.located.outcome
             answer == ReceiptAnswer(asked.located, asked.from)
  <2>1. /\ asked.located.found /\ tx \in tx_bytes /\ asked.from = tx.sender
        /\ answer = ReceiptWith(at, outcome, tx.sender)
    BY <1>4 DEF AskedInv, Read, ReceiptAnswer
  <2>2. PICK c \in Present : /\ Placed(Fresh, at, tx, c)
                             /\ Own(Fresh, c).hash = c /\ outcome = Own(Fresh, c)
    BY <1>4 DEF AskedInv, Read
  <2>3. Replay(c) = Fresh[c]
    BY DEF Replay, Fresh, ReplayOf, Replays, ReplayStep, Present
  <2> HIDE DEF Fresh
  <2>4. /\ at.height = Fresh[c].height
        /\ at.index \in DOMAIN outcome.executed /\ outcome.executed[at.index] = tx
    BY <2>2 DEF Placed
  <2>5. /\ answer.found /\ answer.from = tx.sender /\ answer.number = at.height
        /\ answer.hash = c /\ answer.index = at.index
    BY <2>1, <2>2 DEF ReceiptWith
  <2>6. Fresh[c].results[Fresh[c].height] = outcome
    BY <2>2 DEF Own
  <2>7. ASSUME IsChainBlock(c) PROVE answer = Receipt(tx)
    <3>1. Recorded(at.height, c)
        BY <1>1, <1>2, <2>4, <2>7 DEF ChainRecorded
    <3>2. executor.results[at.height] = outcome
        BY <2>2, <3>1 DEF Recorded
    <3>3. /\ tx \in DOMAIN tx_index
          /\ tx_index[tx].height = at.height /\ tx_index[tx].index = at.index
        BY <2>4, <3>1, <3>2, ListedIsIndexed
    <3>4. Receipt(tx) = ReceiptWith(tx_index[tx], outcome, tx.sender)
        BY <2>1, <3>2, <3>3, ReceiptIsWhole DEF SenderOf
    <3>5. ReceiptWith(tx_index[tx], outcome, tx.sender) = ReceiptWith(at, outcome, tx.sender)
        BY <3>3 DEF ReceiptWith
    <3> QED
        BY <2>1, <3>4, <3>5
  <2> HIDE DEF answer, at, outcome
  <2> QED
    BY <2>3, <2>4, <2>5, <2>6, <2>7 DEF answer
<1> QED
    BY <1>3, <1>4 DEF TornOnlyByReorg

(* getBlockByHash and getTransactionReceipt read in several sections while *)
(* the node goes on.  However many blocks come in between, and however     *)
(* deep the reorgs the journal holds: a receipt is whole, its number and   *)
(* index those at which the block it names executes the transaction; and   *)
(* either call answers as it would have at once, as long as the block it   *)
(* found is on the chain or on it again.                                   *)
THEOREM AnswersHold == RpcSpec /\ [][ReorgSucceeds]_backendVars => []TornOnlyByReorg
<1>1. RpcSpec => BackendSpec
  <2>1. [RpcNext]_rpcVars => [BackendNext]_backendVars
    BY DEF RpcNext, CallNext, AskBlock, AskReceipt, ReadSender, Answered, rpcVars
  <2> QED
    BY <2>1, PTL DEF RpcSpec, BackendSpec
<1>2. NodeInv /\ BytesKept /\ [BackendNext]_backendVars => BytesKept'
    BY StepKeepsBytes
<1>3. BackendSpec /\ [][ReorgSucceeds]_backendVars => []BytesKept
    BY <1>2, BytesAtFirst, NodeInvariant, PTL DEF BackendSpec
<1>4. asked = NoCall => AskedInv
    BY DEF NoCall, AskedInv
<1>5. NodeInv /\ DagInv /\ DagInv' /\ BytesKept /\ AskedInv /\ [RpcNext]_rpcVars => AskedInv'
    BY CallsRead
<1>6. NodeInv /\ DagInv /\ BytesKept /\ AskedInv => TornOnlyByReorg
    BY AnswersAreOfOneBlock
<1> QED
    BY <1>1, <1>3, <1>4, <1>5, <1>6, NodeInvariant, NodeIsOfADag, PTL DEF RpcSpec
=============================================================================
