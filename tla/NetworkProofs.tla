---------------------------- MODULE NetworkProofs ----------------------------
(***************************************************************************)
(* What block synchronisation keeps true on every node, for any blocks,    *)
(* nodes, links and limits: the records of the orphan pool agree, what is  *)
(* in flight is owed, bodies come before blocks, and losing messages       *)
(* forgets nothing.                                                        *)
(*                                                                         *)
(* Each handler of DagSync is shown to leave a steady machine steady; the  *)
(* loops in them by induction on their turns.  The one thing to know of    *)
(* the other nodes is that no block is heard of before it has been found.  *)
(***************************************************************************)
EXTENDS Network, FiniteSetTheorems, WellFoundedInduction, TLAPS

-----------------------------------------------------------------------------
(* Induction over the naturals, as a fact about the set of those numbers   *)
(* for which something holds.                                              *)
LEMMA Counting ==
    ASSUME NEW S, 0 \in S, \A n \in Nat : n \in S => n + 1 \in S
    PROVE  Nat \subseteq S
<1>1. SUFFICES ASSUME Nat \ S # {} PROVE FALSE
    OBVIOUS
<1>2. IsWellFoundedOn(OpToRel(<, Nat), Nat)
    BY NatLessThanWellFounded
<1>3. PICK n \in Nat \ S : \A m \in Nat \ S : ~ (<<m, n>> \in OpToRel(<, Nat))
    BY <1>1, <1>2, WFMin, Nat \ S \subseteq Nat
<1>4. \A m \in Nat \ S : ~ (m < n)
    BY <1>3 DEF OpToRel
<1>5. n - 1 \in Nat
    OBVIOUS
<1> QED
    BY <1>4, <1>5

(* A list of the elements of S, each once. *)
Distinct(seq) == \A i, j \in 1..Len(seq) : seq[i] = seq[j] => i = j

Lists(seq, S) ==
    /\ seq \in Seq(S) /\ Distinct(seq)
    /\ ToSet(seq) = S /\ Len(seq) = Cardinality(S)

(* Finite sets of numbers can be listed in order: the least one first.     *)
Rising(seq, n) == \A i, j \in 1..n : i < j => seq[i] < seq[j]

Sortable(S) == \E seq \in [1..Cardinality(S) -> S] : Rising(seq, Cardinality(S))

LEMMA LeastFirst ==
    ASSUME NEW S \in SUBSET Nat, IsFiniteSet(S), NEW n \in Nat, Cardinality(S) = n + 1,
           \A T \in SUBSET Nat : IsFiniteSet(T) /\ Cardinality(T) = n => Sortable(T)
    PROVE  Sortable(S)
<1>1. S # {}
    BY FS_EmptySet
<1>2. IsWellFoundedOn(OpToRel(<, Nat), Nat)
    BY NatLessThanWellFounded
<1>3. PICK m \in S : \A x \in S : ~ (<<x, m>> \in OpToRel(<, Nat))
    BY <1>1, <1>2, WFMin
<1>4. \A x \in S : x # m => m < x
  <2> SUFFICES ASSUME NEW x \in S, x # m PROVE m < x
    OBVIOUS
  <2>1. m \in Nat /\ x \in Nat /\ ~ (x < m)
    BY <1>3 DEF OpToRel
  <2> QED
    BY <2>1
<1> DEFINE T == S \ {m}
<1>5. IsFiniteSet(T) /\ Cardinality(T) = n
  <2>1. IsFiniteSet(T) /\ Cardinality(T) = Cardinality(S) - 1
    BY <1>3, FS_RemoveElement
  <2> QED
    BY <2>1
<1>6. PICK q \in [1..n -> T] : Rising(q, n)
    BY <1>5 DEF Sortable
<1> DEFINE g == [i \in 1..(n + 1) |-> IF i = 1 THEN m ELSE q[i - 1]]
<1>7. \A i \in 1..(n + 1) : i # 1 => i - 1 \in 1..n /\ g[i] = q[i - 1]
    OBVIOUS
<1>8. g \in [1..(n + 1) -> S]
    BY <1>6, <1>7
<1>9. ASSUME NEW i \in 1..(n + 1), NEW j \in 1..(n + 1), i < j PROVE g[i] < g[j]
  <2>1. j # 1 /\ j - 1 \in 1..n /\ g[j] = q[j - 1] /\ q[j - 1] \in T
    BY <1>6, <1>7, <1>9
  <2>2. CASE i = 1
    BY <1>4, <2>1, <2>2
  <2>3. CASE i # 1
    <3>1. i - 1 \in 1..n /\ g[i] = q[i - 1] /\ i - 1 < j - 1
        BY <1>7, <1>9, <2>3
    <3> QED
        BY <1>6, <2>1, <3>1 DEF Rising
  <2> QED
    BY <2>2, <2>3
<1>10. Rising(g, n + 1)
    BY <1>9 DEF Rising
<1> QED
  <2> HIDE DEF g
  <2> QED
    BY <1>8, <1>10 DEF Sortable

LEMMA AscendingLists ==
    ASSUME NEW S \in SUBSET Nat, IsFiniteSet(S)
    PROVE  Lists(Ascending(S), S)
<1> DEFINE G == {n \in Nat : \A T \in SUBSET Nat :
                                IsFiniteSet(T) /\ Cardinality(T) = n => Sortable(T)}
<1>1. 0 \in G
  <2> SUFFICES ASSUME NEW T \in SUBSET Nat, IsFiniteSet(T), Cardinality(T) = 0
               PROVE  Sortable(T)
    OBVIOUS
  <2>1. [i \in 1..0 |-> 0] \in [1..0 -> T] /\ Rising([i \in 1..0 |-> 0], 0)
    BY DEF Rising
  <2> QED
    BY <2>1 DEF Sortable
<1>2. \A n \in Nat : n \in G => n + 1 \in G
    BY LeastFirst
<1>3. Nat \subseteq G
  <2> HIDE DEF G
  <2> QED
    BY <1>1, <1>2, Counting
<1> DEFINE N == Cardinality(S)
           seq == Ascending(S)
<1>4. N \in Nat
    BY FS_CardinalityType
<1>5. Sortable(S)
    BY <1>3, <1>4
<1>6. seq \in [1..N -> S] /\ Rising(seq, N)
    BY <1>5 DEF Sortable, Rising, Ascending
<1> HIDE DEF seq, N
<1>7. \A i, j \in 1..N : seq[i] = seq[j] => i = j
  <2> SUFFICES ASSUME NEW i \in 1..N, NEW j \in 1..N, seq[i] = seq[j], i # j PROVE FALSE
    OBVIOUS
  <2>1. seq[i] \in Nat
    BY <1>6
  <2>2. i < j \/ j < i
    BY <1>4
  <2> QED
    BY <1>6, <2>1, <2>2 DEF Rising
<1>8. seq \in Injection(1..N, S)
    BY <1>6, <1>7 DEF Injection, IsInjective
<1>9. seq \in Surjection(1..N, S)
  <2>1. Cardinality(1..N) = N
    BY <1>4, FS_Interval
  <2> QED
    BY <1>8, <2>1, FS_Injection DEF N
<1>10. seq \in Seq(S) /\ Len(seq) = N
    BY <1>4, <1>6
<1>11. ToSet(seq) = S
  <2>1. DOMAIN seq = 1..N /\ \A x \in S : \E i \in 1..N : seq[i] = x
    BY <1>6, <1>9 DEF Surjection
  <2> QED
    BY <1>6, <2>1 DEF ToSet
<1> QED
    BY <1>7, <1>10, <1>11 DEF Lists, Distinct, seq, N

(* What the recursion of Kept computes is a run of it. *)
KeptRun(seq, S, f) ==
    f = [n \in 0..Len(seq) |-> IF n = 0 THEN <<>> ELSE KeepNext(f[n - 1], seq[n], S)]

LEMMA KeptRuns ==
    ASSUME NEW seq, NEW S, Len(seq) \in Nat
    PROVE  \E f : KeptRun(seq, S, f) /\ Kept(seq, S) = f[Len(seq)]
<1> DEFINE N == Len(seq)
           x0 == <<>>
           To(k, f) == f = [n \in 0..k |-> IF n = 0 THEN x0 ELSE KeepNext(f[n - 1], seq[n], S)]
           G == {k \in Nat : \E f : To(k, f)}
<1>1. 0 \in G
  <2> DEFINE g == [n \in 0..0 |-> x0]
  <2>1. g = [n \in 0..0 |-> IF n = 0 THEN x0 ELSE KeepNext(g[n - 1], seq[n], S)]
    OBVIOUS
  <2> QED
    BY <2>1
<1>2. ASSUME NEW k \in Nat, k \in G PROVE k + 1 \in G
  <2>1. PICK f : To(k, f)
    BY <1>2
  <2> DEFINE g == [n \in 0..(k + 1) |-> IF n = 0 THEN x0 ELSE KeepNext(f[n - 1], seq[n], S)]
  <2>2. \A n \in 0..k : g[n] = f[n]
    BY <2>1
  <2>3. \A n \in 0..(k + 1) : n # 0 => n - 1 \in 0..k
    OBVIOUS
  <2>4. g = [n \in 0..(k + 1) |-> IF n = 0 THEN x0 ELSE KeepNext(g[n - 1], seq[n], S)]
    <3>1. \A n \in 0..(k + 1) : n # 0 => g[n - 1] = f[n - 1]
        BY <2>2, <2>3
    <3>2. g = [n \in 0..(k + 1) |-> IF n = 0 THEN x0 ELSE KeepNext(f[n - 1], seq[n], S)]
        OBVIOUS
    <3> HIDE DEF g
    <3> QED
        BY <3>1, <3>2
  <2>5. \E h : To(k + 1, h)
    <3>1. To(k + 1, g)
        BY <2>4
    <3> HIDE DEF g, To
    <3> QED
        BY <3>1
  <2> QED
    BY <2>5
<1>3. \E f : KeptRun(seq, S, f)
  <2>1. Nat \subseteq G
    <3> HIDE DEF G
    <3> QED
        BY <1>1, <1>2, Counting
  <2>2. \E f : To(N, f)
    BY <2>1
  <2> QED
    BY <2>2 DEF KeptRun
<1> DEFINE Run(f) == KeptRun(seq, S, f)
           chosen == CHOOSE f : Run(f)
<1>4. Run(chosen)
  <2> HIDE DEF Run
  <2>1. \E f : Run(f)
    BY <1>3 DEF Run
  <2> QED
    BY <2>1
<1>5. Kept(seq, S) = chosen[Len(seq)]
    BY DEF Kept, KeptRun
<1> QED
    BY <1>4, <1>5

(* A run of Kept keeps what it has seen of S, in its order.                *)
Keeping(seq, S, n, kept) ==
    /\ kept \in Seq(ToSet(seq) \cap S) /\ Len(kept) <= n
    /\ \A i \in 1..n : seq[i] \in S => \E j \in 1..Len(kept) : kept[j] = seq[i]
    /\ \A j \in 1..Len(kept) : \E i \in 1..n : kept[j] = seq[i]
    /\ Distinct(seq) => Distinct(kept)

LEMMA KeepNextKeeps ==
    ASSUME NEW T, NEW seq \in Seq(T), NEW S, NEW n \in Nat, n + 1 \in 1..Len(seq),
           NEW kept, Keeping(seq, S, n, kept)
    PROVE  Keeping(seq, S, n + 1, KeepNext(kept, seq[n + 1], S))
<1> DEFINE e == seq[n + 1]
           new == KeepNext(kept, e, S)
<1>1. /\ kept \in Seq(ToSet(seq) \cap S) /\ Len(kept) \in Nat /\ Len(kept) <= n
      /\ \A i \in 1..n : seq[i] \in S => \E j \in 1..Len(kept) : kept[j] = seq[i]
      /\ \A j \in 1..Len(kept) : \E i \in 1..n : kept[j] = seq[i]
      /\ Distinct(seq) => Distinct(kept)
    BY DEF Keeping
<1>2. CASE e \notin S
  <2>1. new = kept
    BY <1>2 DEF KeepNext
  <2>2. \A i \in 1..(n + 1) : i \in 1..n \/ i = n + 1
    OBVIOUS
  <2>3. \A i \in 1..n : i \in 1..(n + 1)
    OBVIOUS
  <2>4. \A i \in 1..(n + 1) : seq[i] \in S => \E j \in 1..Len(kept) : kept[j] = seq[i]
    BY <1>1, <1>2, <2>2 DEF e
  <2>5. \A j \in 1..Len(kept) : \E i \in 1..(n + 1) : kept[j] = seq[i]
    BY <1>1, <2>3
  <2> QED
    BY <1>1, <2>1, <2>4, <2>5 DEF Keeping
<1>3. CASE e \in S
  <2> DEFINE L == Len(kept)
  <2>1. new = Append(kept, e) /\ e \in ToSet(seq) \cap S
    <3>1. DOMAIN seq = 1..Len(seq)
        OBVIOUS
    <3> QED
        BY <1>3, <3>1 DEF KeepNext, ToSet
  <2>2. /\ new \in Seq(ToSet(seq) \cap S) /\ Len(new) = L + 1
        /\ new[L + 1] = e /\ \A j \in 1..L : new[j] = kept[j]
    <3> HIDE DEF e, new
    <3> QED
        BY <1>1, <2>1
  <2>3. /\ \A i \in 1..(n + 1) : i \in 1..n \/ i = n + 1
        /\ \A i \in 1..n : i \in 1..(n + 1)
        /\ \A j \in 1..(L + 1) : j \in 1..L \/ j = L + 1
        /\ \A j \in 1..L : j \in 1..(L + 1)
        /\ L + 1 \in 1..(L + 1) /\ n + 1 \in 1..(n + 1) /\ L + 1 <= n + 1
    BY <1>1
  <2> HIDE DEF new, L
  <2>4. \A i \in 1..(n + 1) : seq[i] \in S => \E j \in 1..Len(new) : new[j] = seq[i]
    BY <1>1, <2>2, <2>3 DEF e, L
  <2>5. ASSUME NEW j \in 1..Len(new) PROVE \E i \in 1..(n + 1) : new[j] = seq[i]
    <3>1. CASE j \in 1..L
      <4>1. PICK i \in 1..n : kept[j] = seq[i]
          BY <1>1, <3>1 DEF L
      <4> QED
          BY <2>2, <2>3, <3>1, <4>1
    <3>2. CASE j = L + 1
        BY <2>2, <2>3, <3>2 DEF e
    <3> QED
        BY <2>2, <2>3, <3>1, <3>2
  <2>6. ASSUME Distinct(seq) PROVE Distinct(new)
    <3> SUFFICES ASSUME NEW i \in 1..(L + 1), NEW j \in 1..(L + 1), new[i] = new[j]
                 PROVE  i = j
        BY <2>2 DEF Distinct
    <3>1. ASSUME NEW k \in 1..L PROVE new[k] # e
      <4>1. PICK m \in 1..n : kept[k] = seq[m]
          BY <1>1, <3>1 DEF L
      <4>2. m \in 1..Len(seq) /\ m # n + 1
          OBVIOUS
      <4> QED
          BY <2>2, <2>6, <4>1, <4>2, <3>1 DEF Distinct, e
    <3>2. CASE i \in 1..L /\ j \in 1..L
        BY <1>1, <2>2, <2>6, <3>2 DEF Distinct, L
    <3>3. CASE i = L + 1 \/ j = L + 1
        BY <2>2, <2>3, <3>1, <3>3
    <3> QED
        BY <2>3, <3>2, <3>3
  <2> QED
    BY <2>2, <2>3, <2>4, <2>5, <2>6 DEF Keeping, new
<1> QED
    BY <1>2, <1>3

LEMMA KeptKeeps ==
    ASSUME NEW T, NEW seq \in Seq(T), NEW S
    PROVE  /\ Kept(seq, S) \in Seq(T) /\ Kept(seq, S) \in Seq(ToSet(seq) \cap S)
           /\ ToSet(Kept(seq, S)) = ToSet(seq) \cap S
           /\ Len(Kept(seq, S)) <= Len(seq)
           /\ Distinct(seq) => Distinct(Kept(seq, S))
<1> DEFINE N == Len(seq)
<1>1. N \in Nat /\ DOMAIN seq = 1..N
    OBVIOUS
<1>2. PICK f : KeptRun(seq, S, f) /\ Kept(seq, S) = f[N]
    BY <1>1, KeptRuns
<1> DEFINE G == {n \in Nat : n <= N => Keeping(seq, S, n, f[n])}
<1>3. 0 \in G
  <2>1. f[0] = <<>>
    BY <1>1, <1>2 DEF KeptRun
  <2>2. <<>> \in Seq(ToSet(seq) \cap S) /\ Len(<<>>) = 0
    OBVIOUS
  <2>3. Keeping(seq, S, 0, <<>>)
    BY <2>2 DEF Keeping, Distinct
  <2> QED
    BY <2>1, <2>3
<1>4. ASSUME NEW n \in Nat, n \in G PROVE n + 1 \in G
  <2> SUFFICES ASSUME n + 1 <= N PROVE Keeping(seq, S, n + 1, f[n + 1])
    OBVIOUS
  <2>1. n + 1 \in 1..N /\ n + 1 \in 0..N /\ n + 1 # 0 /\ (n + 1) - 1 = n /\ n <= N
    BY <1>1
  <2>2. f[n + 1] = KeepNext(f[n], seq[n + 1], S)
    BY <1>2, <2>1 DEF KeptRun
  <2>3. Keeping(seq, S, n, f[n])
    BY <1>4, <2>1
  <2> QED
    BY <2>1, <2>2, <2>3, KeepNextKeeps
<1>5. Nat \subseteq G
  <2> HIDE DEF G
  <2> QED
    BY <1>3, <1>4, Counting
<1>6. Keeping(seq, S, N, Kept(seq, S))
    BY <1>1, <1>2, <1>5
<1> DEFINE kept == Kept(seq, S)
<1> HIDE DEF kept
<1>7. kept \in Seq(ToSet(seq) \cap S) /\ Len(kept) <= N /\ (Distinct(seq) => Distinct(kept))
    BY <1>6 DEF Keeping, kept
<1>8. DOMAIN kept = 1..Len(kept) /\ \A j \in 1..Len(kept) : kept[j] \in ToSet(seq) \cap S
    BY <1>7
<1>9. ToSet(kept) = ToSet(seq) \cap S
  <2>1. \A i \in 1..N : seq[i] \in S => \E j \in 1..Len(kept) : kept[j] = seq[i]
    BY <1>6 DEF Keeping, kept
  <2> QED
    BY <1>1, <1>8, <2>1 DEF ToSet
<1>10. kept \in Seq(T)
  <2>1. ToSet(seq) \subseteq T
    BY <1>1 DEF ToSet
  <2> QED
    BY <1>7, <1>8, <2>1
<1> QED
    BY <1>7, <1>9, <1>10 DEF kept

(* The entries of a sequence, one by one. *)
LEMMA EntriesOf ==
    ASSUME NEW T, NEW seq \in Seq(T)
    PROVE  /\ Len(seq) \in Nat /\ DOMAIN seq = 1..Len(seq)
           /\ ToSet(seq) = {seq[i] : i \in 1..Len(seq)}
           /\ ToSet(seq) \subseteq T
           /\ \A i \in 1..Len(seq) : seq[i] \in T
    BY DEF ToSet

LEMMA TakeTakes ==
    ASSUME NEW T, NEW seq \in Seq(T), NEW n \in Nat
    PROVE  /\ Take(seq, n) \in Seq(T) /\ Len(Take(seq, n)) <= n
           /\ ToSet(Take(seq, n)) \subseteq ToSet(seq)
           /\ Len(seq) <= n => Take(seq, n) = seq
<1> DEFINE m == IF Len(seq) < n THEN Len(seq) ELSE n
           taken == SubSeq(seq, 1, m)
<1>1. Len(seq) \in Nat /\ m \in Nat /\ m <= n /\ m <= Len(seq) /\ (Len(seq) <= n => m = Len(seq))
    OBVIOUS
<1>2. Take(seq, n) = taken
    BY DEF Take
<1> HIDE DEF m
<1>3. taken \in Seq(T) /\ Len(taken) = m /\ \A i \in 1..m : taken[i] = seq[i]
    BY <1>1
<1>4. ToSet(taken) \subseteq ToSet(seq)
  <2>1. ToSet(taken) = {taken[i] : i \in 1..m}
    BY <1>3, EntriesOf
  <2>2. \A i \in 1..m : i \in 1..Len(seq)
    BY <1>1
  <2> QED
    BY <1>3, <2>1, <2>2, EntriesOf
<1>5. ASSUME Len(seq) <= n PROVE taken = seq
    BY <1>1, <1>3, <1>5
<1> QED
    BY <1>1, <1>2, <1>3, <1>4, <1>5

-----------------------------------------------------------------------------
(* A machine at rest, which has heard of the hashes in H only.             *)
Fields == {"dag", "peers", "orphans", "orphan_order", "waiting_on", "requested", "bodies",
           "retry_cursor"}

Closed(H) == H \subseteq Block /\ Genesis \in H /\ \A b \in H : Parents[b] \subseteq H

Peers(s) == DOMAIN s.peers \subseteq Node /\ \A p \in DOMAIN s.peers : DOMAIN s.peers[p] = {"ready", "known"}

Requests(s, H) ==
    /\ DOMAIN s.requested \subseteq H
    /\ \A h \in DOMAIN s.requested : s.requested[h] \in [peer : Node, ticked : BOOLEAN]

Machine(s, H) ==
    /\ DOMAIN s = Fields
    /\ s.dag \subseteq H /\ Genesis \in s.dag /\ \A b \in s.dag : Parents[b] \subseteq s.dag
    /\ Peers(s) /\ Requests(s, H)
    /\ s.retry_cursor \in Nat

(* The orphan pool while blocks in Q are yet to be looked at as parents    *)
(* and orphans in C as children.                                           *)
Waiting(s, Q) ==
    \A p \in Block :
        /\ p \notin s.dag => s.waiting_on[p] = {o \in DOMAIN s.orphans : p \in Parents[o]}
        /\ p \in s.dag /\ p \notin Q => s.waiting_on[p] = {}

Noticed(s, Q, C) ==
    \A o \in DOMAIN s.orphans :
        Parents[o] \subseteq s.dag => o \in C \/ \E p \in Q : o \in s.waiting_on[p]

Pool(s, H, Q, C) ==
    /\ DOMAIN s.orphans \subseteq H /\ \A o \in DOMAIN s.orphans : o \notin s.dag
    /\ Cardinality(DOMAIN s.orphans) <= MaxOrphans
    /\ Lists(s.orphan_order, DOMAIN s.orphans)
    /\ s.waiting_on \in [Block -> SUBSET H]
    /\ Waiting(s, Q) /\ Noticed(s, Q, C)

Owed(s) ==
    \A h \in DOMAIN s.requested : h \notin Held(s) /\ s.requested[h].peer \in Ready(s)

Embodied(s) == Held(s) \ {Genesis} \subseteq s.bodies

Resolving(s, H, Q, C) == Machine(s, H) /\ Pool(s, H, Q, C) /\ Owed(s) /\ Embodied(s)

Steady(s, H) == Resolving(s, H, {}, {})

(* What a machine has or has asked for, and what no handler loses of it;   *)
(* only a tick and the end of a connection drop requests.                  *)
Minded(s) == Held(s) \cup DOMAIN s.requested \cup s.bodies

Keeps(s, t) ==
    /\ s.dag \subseteq t.dag /\ Ready(s) \subseteq Ready(t)
    /\ DOMAIN t.peers = DOMAIN s.peers

Minds(s, t) == Minded(s) \subseteq Minded(t)

MindsOrphans(s, t) ==
    \A o \in DOMAIN t.orphans : o \in DOMAIN s.orphans \/ Parents[o] \subseteq Minded(t)

(* Messages, and the actions a handler returns. *)
Message(H) ==
    [type : {"Version", "Tips", "InvBlocks", "GetBlocks", "Blocks"}, hashes : Seq(H)]
    \cup [type : {"Verack", "GetTips"}]

Action(H) == [peer : Node, message : Message(H)]

Result(s, r, H) ==
    Steady(r.sync, H) /\ r.out \in Seq(Action(H)) /\ Keeps(s, r.sync)

-----------------------------------------------------------------------------
LEMMA SteadyHashes ==
    ASSUME NEW H, Closed(H), NEW S \in SUBSET H
    PROVE  S \in SUBSET Nat /\ IsFiniteSet(S) /\ Lists(Ascending(S), S)
<1>1. S \in SUBSET Nat
    BY DagSyncAssumption DEF Closed
<1>2. IsFiniteSet(S)
    BY DagSyncAssumption, FS_Subset DEF Closed
<1> QED
    BY <1>1, <1>2, AscendingLists

LEMMA NodeLists ==
    ASSUME NEW S \in SUBSET Node
    PROVE  S \in SUBSET Nat /\ IsFiniteSet(S) /\ Lists(Ascending(S), S)
<1>1. S \in SUBSET Nat /\ IsFiniteSet(S)
    BY NetworkAssumption, FS_Subset
<1> QED
    BY <1>1, AscendingLists

LEMMA ToEachSends ==
    ASSUME NEW S \in SUBSET Node, NEW H, NEW m \in Message(H)
    PROVE  ToEach(S, m) \in Seq(Action(H))
<1> DEFINE order == Ascending(S)
<1>1. order \in Seq(S)
    BY NodeLists DEF Lists
<1> HIDE DEF order
<1>2. Len(order) \in Nat /\ \A i \in 1..Len(order) : [peer |-> order[i], message |-> m] \in Action(H)
    BY <1>1 DEF Action
<1> DEFINE sent == [i \in 1..Len(order) |-> [peer |-> order[i], message |-> m]]
<1>3. sent \in Seq(Action(H))
    BY <1>2
<1> QED
    BY <1>3 DEF ToEach, order

LEMMA SendSends ==
    ASSUME NEW peer \in Node, NEW H, NEW m \in Message(H)
    PROVE  Send(peer, m) \in Seq(Action(H))
<1>1. [peer |-> peer, message |-> m] \in Action(H)
    BY DEF Action
<1> QED
    BY <1>1 DEF Send

LEMMA TipsAreHeard ==
    ASSUME NEW H, Closed(H), NEW s, Machine(s, H)
    PROVE  Tips(s) \in Seq(H) /\ Version(s) \in Message(H)
<1> DEFINE S == {b \in s.dag : \A c \in s.dag : b \notin Parents[c]}
           seq == Ascending(S)
<1>1. S \in SUBSET H
    BY DEF Machine
<1>2. seq \in Seq(H)
  <2>1. seq \in Seq(S)
    BY <1>1, SteadyHashes DEF Lists
  <2> HIDE DEF S, seq
  <2> QED
    BY <1>1, <2>1
<1>3. Reverse(seq) \in Seq(H)
  <2> HIDE DEF seq
  <2>1. \A i \in 1..Len(seq) : (Len(seq) - i) + 1 \in 1..Len(seq)
    BY <1>2
  <2> QED
    BY <1>2, <2>1 DEF Reverse
<1>4. Tips(s) \in Seq(H)
    BY <1>3 DEF Tips
<1> QED
    BY <1>4 DEF Version, Message

(* A handler that only writes what it knows of peers, or that one is ready,*)
(* leaves the rest as it was.                                              *)
PeersOnly(s, t) ==
    /\ DOMAIN t = Fields /\ \A f \in Fields \ {"peers"} : t[f] = s[f]
    /\ DOMAIN t.peers = DOMAIN s.peers
    /\ \A p \in DOMAIN t.peers : DOMAIN t.peers[p] = {"ready", "known"}
    /\ Ready(s) \subseteq Ready(t)

LEMMA PeersOnlyKeeps ==
    ASSUME NEW H, NEW Q, NEW C, NEW s, Resolving(s, H, Q, C), NEW t, PeersOnly(s, t)
    PROVE  /\ Resolving(t, H, Q, C) /\ Keeps(s, t)
           /\ Minded(t) = Minded(s) /\ Held(t) = Held(s)
<1>1. /\ t.dag = s.dag /\ t.orphans = s.orphans /\ t.orphan_order = s.orphan_order
      /\ t.waiting_on = s.waiting_on /\ t.requested = s.requested /\ t.bodies = s.bodies
      /\ t.retry_cursor = s.retry_cursor
    BY DEF PeersOnly, Fields
<1>2. Machine(t, H)
    BY <1>1 DEF Machine, Resolving, PeersOnly, Peers, Requests
<1>3. Pool(t, H, Q, C)
    BY <1>1 DEF Pool, Resolving, Waiting, Noticed
<1>4. Held(t) = Held(s) /\ Minded(t) = Minded(s)
    BY <1>1 DEF Held, Minded
<1>5. Owed(t) /\ Embodied(t)
    BY <1>1, <1>4 DEF Owed, Embodied, Resolving, PeersOnly
<1> QED
    BY <1>1, <1>2, <1>3, <1>4, <1>5 DEF Resolving, Keeps, PeersOnly

LEMMA NoteKnownIsPeersOnly ==
    ASSUME NEW H, NEW s, Machine(s, H), NEW peer \in DOMAIN s.peers, NEW hashes
    PROVE  PeersOnly(s, NoteKnown(s, peer, hashes)) /\ Ready(NoteKnown(s, peer, hashes)) = Ready(s)
<1> DEFINE t == NoteKnown(s, peer, hashes)
<1>1. DOMAIN t = Fields /\ \A f \in Fields \ {"peers"} : t[f] = s[f]
    BY DEF Machine, Fields, NoteKnown
<1>2. /\ DOMAIN t.peers = DOMAIN s.peers
      /\ \A p \in DOMAIN s.peers \ {peer} : t.peers[p] = s.peers[p]
      /\ t.peers[peer] = [s.peers[peer] EXCEPT !.known = @ \cup hashes]
    BY DEF Machine, Fields, NoteKnown
<1>3. /\ DOMAIN t.peers[peer] = {"ready", "known"}
      /\ t.peers[peer].ready = s.peers[peer].ready
    BY <1>2 DEF Machine, Peers
<1> HIDE DEF t
<1>4. \A p \in DOMAIN t.peers : DOMAIN t.peers[p] = {"ready", "known"} /\ t.peers[p].ready = s.peers[p].ready
    BY <1>2, <1>3 DEF Machine, Peers
<1>5. Ready(t) = Ready(s)
    BY <1>2, <1>4 DEF Ready
<1> QED
    BY <1>1, <1>2, <1>4, <1>5 DEF PeersOnly, t

LEMMA AnnounceTells ==
    ASSUME NEW H, NEW s, Machine(s, H), NEW hash \in H, NEW exclude
    PROVE  /\ PeersOnly(s, Announce(s, hash, exclude).sync)
           /\ Announce(s, hash, exclude).out \in Seq(Action(H))
<1> DEFINE targets == {p \in Ready(s) \ exclude : hash \notin s.peers[p].known}
           t == Announce(s, hash, exclude).sync
<1>1. targets \in SUBSET Node
    BY DEF Ready, Machine, Peers
<1>2. [type |-> "InvBlocks", hashes |-> <<hash>>] \in Message(H)
    BY DEF Message
<1>3. Announce(s, hash, exclude).out \in Seq(Action(H))
  <2>1. Announce(s, hash, exclude).out = ToEach(targets, [type |-> "InvBlocks", hashes |-> <<hash>>])
    BY DEF Announce
  <2> HIDE DEF targets
  <2> QED
    BY <1>1, <1>2, <2>1, ToEachSends
<1>4. DOMAIN t = Fields /\ \A f \in Fields \ {"peers"} : t[f] = s[f]
    BY DEF Machine, Fields, Announce
<1>5. /\ DOMAIN t.peers = DOMAIN s.peers
      /\ \A p \in DOMAIN s.peers : t.peers[p] = IF p \in targets
                                               THEN [s.peers[p] EXCEPT !.known = @ \cup {hash}]
                                               ELSE s.peers[p]
  <2> DEFINE P == [p \in DOMAIN s.peers |-> IF p \in targets
                                            THEN [s.peers[p] EXCEPT !.known = @ \cup {hash}]
                                            ELSE s.peers[p]]
  <2>1. t = [s EXCEPT !.peers = P]
    BY DEF Announce
  <2>2. t.peers = P
    <3> HIDE DEF P, t
    <3> QED
        BY <2>1 DEF Machine, Fields
  <2> QED
    BY <2>2
<1> HIDE DEF t, targets
<1>6. \A p \in DOMAIN t.peers : DOMAIN t.peers[p] = {"ready", "known"} /\ t.peers[p].ready = s.peers[p].ready
    BY <1>5 DEF Machine, Peers
<1>7. Ready(t) = Ready(s)
    BY <1>5, <1>6 DEF Ready
<1> QED
    BY <1>3, <1>4, <1>5, <1>6, <1>7 DEF PeersOnly, t

-----------------------------------------------------------------------------
(* request_from asks a ready peer for what is not held, and adds that to   *)
(* what is in flight.                                                      *)
RequestsOnly(s, t) ==
    /\ DOMAIN t = Fields /\ \A f \in Fields \ {"requested"} : t[f] = s[f]
    /\ DOMAIN s.requested \subseteq DOMAIN t.requested

Asked(s, r, H, hashes) ==
    /\ Result(s, r, H) /\ RequestsOnly(s, r.sync)
    /\ Len(hashes) <= MaxInvEntries => ToSet(hashes) \subseteq DOMAIN r.sync.requested

LEMMA RequestsOnlyKeeps ==
    ASSUME NEW s, NEW t, RequestsOnly(s, t)
    PROVE  /\ Held(t) = Held(s) /\ Ready(t) = Ready(s) /\ t.orphans = s.orphans
           /\ t.bodies = s.bodies /\ t.dag = s.dag /\ t.peers = s.peers
           /\ Keeps(s, t) /\ Minds(s, t) /\ MindsOrphans(s, t)
<1>1. /\ t.dag = s.dag /\ t.peers = s.peers /\ t.orphans = s.orphans /\ t.bodies = s.bodies
    BY DEF RequestsOnly, Fields
<1>2. DOMAIN s.requested \subseteq DOMAIN t.requested
    BY DEF RequestsOnly
<1> QED
    BY <1>1, <1>2 DEF Held, Ready, Keeps, Minds, Minded, MindsOrphans

LEMMA RequestFromAsks ==
    ASSUME NEW H, Closed(H), NEW s, Steady(s, H), NEW peer \in Ready(s),
           NEW hashes \in Seq(H), ToSet(hashes) \cap Held(s) = {}
    PROVE  Asked(s, RequestFrom(s, peer, hashes), H, hashes)
<1> DEFINE fresh == Kept(hashes, ToSet(hashes) \ DOMAIN s.requested)
           wanted == Take(fresh, MaxInvEntries)
           r == RequestFrom(s, peer, hashes)
<1>1. MaxInvEntries \in Nat
    BY DagSyncAssumption
<1>2. /\ fresh \in Seq(H) /\ ToSet(fresh) = ToSet(hashes) \ DOMAIN s.requested
      /\ Len(fresh) <= Len(hashes)
  <2>1. /\ fresh \in Seq(H) /\ Len(fresh) <= Len(hashes)
        /\ ToSet(fresh) = ToSet(hashes) \cap (ToSet(hashes) \ DOMAIN s.requested)
    BY KeptKeeps
  <2> HIDE DEF fresh
  <2> QED
    BY <2>1
<1>3. /\ wanted \in Seq(H) /\ ToSet(wanted) \subseteq ToSet(hashes) \ DOMAIN s.requested
      /\ Len(fresh) <= MaxInvEntries => wanted = fresh
  <2> HIDE DEF fresh
  <2> QED
    BY <1>1, <1>2, TakeTakes
<1> HIDE DEF fresh, wanted
<1>4. ToSet(wanted) \subseteq H
    BY <1>3, EntriesOf
<1>5. ASSUME Len(hashes) <= MaxInvEntries
      PROVE  ToSet(hashes) \subseteq ToSet(wanted) \cup DOMAIN s.requested
  <2>1. Len(fresh) \in Nat /\ Len(hashes) \in Nat
    BY <1>2
  <2>2. Len(fresh) <= MaxInvEntries
    BY <1>1, <1>2, <1>5, <2>1
  <2> QED
    BY <1>2, <1>3, <2>2
<1>6. peer \in Node /\ DOMAIN s = Fields
    BY DEF Steady, Resolving, Machine, Peers, Ready
<1>7. CASE wanted = <<>>
  <2>1. r.sync = s /\ r.out = <<>>
    BY <1>7 DEF RequestFrom, Done, wanted, fresh
  <2>2. ToSet(wanted) = {}
    BY <1>7 DEF ToSet
  <2>3. RequestsOnly(s, s) /\ Keeps(s, s)
    BY <1>6 DEF RequestsOnly, Keeps
  <2>4. <<>> \in Seq(Action(H))
    OBVIOUS
  <2> HIDE DEF r
  <2> QED
    BY <1>5, <2>1, <2>2, <2>3, <2>4 DEF Asked, Result, r
<1>8. CASE wanted # <<>>
  <2> DEFINE t == r.sync
             asked == [h \in ToSet(wanted) |-> [peer |-> peer, ticked |-> FALSE]]
  <2>1. t = [s EXCEPT !.requested = Over(asked, @)] /\ r.out = Send(peer, [type |-> "GetBlocks", hashes |-> wanted])
    BY <1>8 DEF RequestFrom, wanted, fresh
  <2>2. DOMAIN t = Fields /\ \A f \in Fields \ {"requested"} : t[f] = s[f]
    BY <1>6, <2>1 DEF Fields
  <2>3. t.requested = Over(asked, s.requested)
    BY <1>6, <2>1 DEF Fields
  <2>4. /\ DOMAIN t.requested = ToSet(wanted) \cup DOMAIN s.requested
        /\ \A h \in ToSet(wanted) : t.requested[h] = [peer |-> peer, ticked |-> FALSE]
        /\ \A h \in DOMAIN s.requested \ ToSet(wanted) : t.requested[h] = s.requested[h]
    BY <2>3 DEF Over
  <2>5. r.out \in Seq(Action(H))
    <3>1. [type |-> "GetBlocks", hashes |-> wanted] \in Message(H)
        BY <1>3 DEF Message
    <3> QED
        BY <1>6, <2>1, <3>1, SendSends
  <2> HIDE DEF r, t, asked
  <2>6. RequestsOnly(s, t)
    BY <2>2, <2>4 DEF RequestsOnly
  <2>7. /\ Held(t) = Held(s) /\ Ready(t) = Ready(s) /\ t.orphans = s.orphans
        /\ t.bodies = s.bodies /\ t.dag = s.dag /\ t.peers = s.peers /\ Keeps(s, t)
    BY <2>6, RequestsOnlyKeeps
  <2>8. Requests(t, H)
    <3>1. Requests(s, H)
        BY DEF Steady, Resolving, Machine
    <3> QED
      <4>1. [peer |-> peer, ticked |-> FALSE] \in [peer : Node, ticked : BOOLEAN]
          BY <1>6
      <4>2. \A h \in DOMAIN s.requested : s.requested[h] \in [peer : Node, ticked : BOOLEAN]
          BY <3>1 DEF Requests
      <4>3. \A h \in DOMAIN t.requested : t.requested[h] \in [peer : Node, ticked : BOOLEAN]
          BY <2>4, <4>1, <4>2
      <4> QED
          BY <1>4, <2>4, <3>1, <4>3 DEF Requests
  <2>9. Machine(t, H)
    <3>1. t.retry_cursor = s.retry_cursor
        BY <2>2 DEF Fields
    <3> QED
        BY <2>2, <2>7, <2>8, <3>1 DEF Steady, Resolving, Machine, Peers
  <2>10. Pool(t, H, {}, {})
    <3>1. t.orphan_order = s.orphan_order /\ t.waiting_on = s.waiting_on
        BY <2>2 DEF Fields
    <3> QED
        BY <2>7, <3>1 DEF Steady, Resolving, Pool, Waiting, Noticed
  <2>11. Owed(t)
    <3> SUFFICES ASSUME NEW h \in DOMAIN t.requested
                 PROVE  h \notin Held(t) /\ t.requested[h].peer \in Ready(t)
        BY DEF Owed
    <3>1. CASE h \in ToSet(wanted)
        BY <1>3, <2>4, <2>7, <3>1
    <3>2. CASE h \in DOMAIN s.requested \ ToSet(wanted)
        BY <2>4, <2>7, <3>2 DEF Owed, Steady, Resolving
    <3> QED
        BY <2>4, <3>1, <3>2
  <2>12. Embodied(t)
    BY <2>7 DEF Embodied, Steady, Resolving
  <2>13. Result(s, r, H)
    BY <2>5, <2>7, <2>9, <2>10, <2>11, <2>12 DEF Result, Steady, Resolving, t
  <2>14. Len(hashes) <= MaxInvEntries => ToSet(hashes) \subseteq DOMAIN t.requested
    BY <1>5, <2>4
  <2> QED
    BY <2>6, <2>13, <2>14 DEF Asked, t, r
<1> QED
    BY <1>7, <1>8

(* request_unknown leaves out what is held.                                *)
LEMMA RequestUnknownAsks ==
    ASSUME NEW H, Closed(H), NEW s, Steady(s, H), NEW peer \in Ready(s), NEW hashes \in Seq(H)
    PROVE  /\ Result(s, RequestUnknown(s, peer, hashes), H)
           /\ RequestsOnly(s, RequestUnknown(s, peer, hashes).sync)
<1> DEFINE unknown == Kept(hashes, ToSet(hashes) \ Held(s))
<1>1. unknown \in Seq(H) /\ ToSet(unknown) \cap Held(s) = {}
  <2>1. /\ unknown \in Seq(H)
        /\ ToSet(unknown) = ToSet(hashes) \cap (ToSet(hashes) \ Held(s))
    BY KeptKeeps
  <2> HIDE DEF unknown
  <2> QED
    BY <2>1
<1> HIDE DEF unknown
<1>2. Asked(s, RequestFrom(s, peer, unknown), H, unknown)
    BY <1>1, RequestFromAsks
<1> QED
    BY <1>2 DEF RequestUnknown, Asked, unknown

-----------------------------------------------------------------------------
(* Lists of what a sequence without repetition has, of its tail, with one  *)
(* more at the end, and of what is kept of it.                             *)
LEMMA DistinctLists ==
    ASSUME NEW T, NEW seq \in Seq(T), Distinct(seq), NEW S, ToSet(seq) = S
    PROVE  IsFiniteSet(S) /\ Lists(seq, S)
<1> DEFINE L == Len(seq)
<1>1. L \in Nat /\ DOMAIN seq = 1..L /\ S = {seq[i] : i \in 1..L}
    BY EntriesOf
<1>2. IsFiniteSet(1..L) /\ Cardinality(1..L) = L
    BY <1>1, FS_Interval
<1>3. seq \in [1..L -> S]
    BY <1>1
<1>4. seq \in Bijection(1..L, S)
  <2>1. \A i, j \in 1..L : seq[i] = seq[j] => i = j
    BY DEF Distinct
  <2>2. \A x \in S : \E i \in 1..L : seq[i] = x
    BY <1>1
  <2> HIDE DEF L
  <2> QED
    BY <1>3, <2>1, <2>2 DEF Bijection, Injection, IsInjective, Surjection
<1>5. IsFiniteSet(S) /\ Cardinality(S) = L
  <2> HIDE DEF L
  <2>1. ExistsBijection(1..L, S)
    BY <1>4 DEF ExistsBijection
  <2> QED
    BY <1>2, <2>1, FS_Bijection
<1>6. seq \in Seq(S)
    BY <1>1, <1>3
<1> QED
    BY <1>5, <1>6 DEF Lists

LEMMA TailLists ==
    ASSUME NEW S, NEW seq, Lists(seq, S), seq # <<>>
    PROVE  Head(seq) \in S /\ IsFiniteSet(S \ {Head(seq)}) /\ Lists(Tail(seq), S \ {Head(seq)})
<1> DEFINE L == Len(seq)
           rest == Tail(seq)
<1>1. /\ seq \in Seq(S) /\ L \in Nat /\ L # 0 /\ DOMAIN seq = 1..L /\ S = {seq[i] : i \in 1..L}
      /\ \A i, j \in 1..L : seq[i] = seq[j] => i = j
  <2>1. seq \in Seq(S) /\ ToSet(seq) = S
    BY DEF Lists
  <2> QED
    BY <2>1, EntriesOf DEF Lists, Distinct
<1>2. Head(seq) = seq[1] /\ 1 \in 1..L
    BY <1>1
<1>3. rest \in Seq(S) /\ Len(rest) = L - 1 /\ \A i \in 1..(L - 1) : rest[i] = seq[i + 1]
    BY <1>1
<1> HIDE DEF L, rest
<1>4. \A i \in 1..(L - 1) : i + 1 \in 1..L /\ i + 1 # 1
    BY <1>1
<1>5. \A i \in 1..L : i # 1 => i - 1 \in 1..(L - 1) /\ (i - 1) + 1 = i
    BY <1>1
<1>6. Distinct(rest)
  <2> SUFFICES ASSUME NEW i \in 1..(L - 1), NEW j \in 1..(L - 1), rest[i] = rest[j]
               PROVE  i = j
    BY <1>3 DEF Distinct
  <2>1. i + 1 = j + 1
    BY <1>1, <1>3, <1>4
  <2> QED
    BY <1>1, <2>1
<1>7. ToSet(rest) = S \ {Head(seq)}
  <2>1. ToSet(rest) = {rest[i] : i \in 1..(L - 1)}
    BY <1>3, EntriesOf
  <2>2. ASSUME NEW i \in 1..(L - 1) PROVE rest[i] \in S \ {Head(seq)}
    <3>1. rest[i] = seq[i + 1] /\ seq[i + 1] # seq[1]
        BY <1>1, <1>2, <1>3, <1>4
    <3> QED
        BY <1>1, <1>2, <1>4, <3>1
  <2>3. ASSUME NEW x \in S \ {Head(seq)} PROVE \E i \in 1..(L - 1) : rest[i] = x
    <3>1. PICK i \in 1..L : seq[i] = x
        BY <1>1
    <3>2. i # 1
        BY <1>2, <3>1
    <3> QED
        BY <1>3, <1>5, <3>1, <3>2
  <2> QED
    BY <2>1, <2>2, <2>3
<1>8. Head(seq) \in S
    BY <1>1, <1>2
<1> QED
    BY <1>3, <1>6, <1>7, <1>8, DistinctLists DEF rest

LEMMA AppendLists ==
    ASSUME NEW S, NEW seq, Lists(seq, S), NEW x, x \notin S
    PROVE  IsFiniteSet(S \cup {x}) /\ Lists(Append(seq, x), S \cup {x})
<1> DEFINE L == Len(seq)
           more == Append(seq, x)
           T == S \cup {x}
<1>1. /\ seq \in Seq(S) /\ L \in Nat /\ DOMAIN seq = 1..L /\ S = {seq[i] : i \in 1..L}
      /\ \A i, j \in 1..L : seq[i] = seq[j] => i = j
  <2>1. seq \in Seq(S) /\ ToSet(seq) = S
    BY DEF Lists
  <2> QED
    BY <2>1, EntriesOf DEF Lists, Distinct
<1>2. more \in Seq(T) /\ Len(more) = L + 1 /\ more[L + 1] = x /\ \A i \in 1..L : more[i] = seq[i]
  <2>1. seq \in Seq(T) /\ x \in T
    BY <1>1
  <2> HIDE DEF T
  <2> QED
    BY <2>1
<1> HIDE DEF L, more
<1>3. \A i \in 1..(L + 1) : i \in 1..L \/ i = L + 1
    BY <1>1
<1>4. L + 1 \in 1..(L + 1) /\ \A i \in 1..L : i \in 1..(L + 1) /\ seq[i] # x
    BY <1>1
<1>5. Distinct(more)
    BY <1>1, <1>2, <1>3, <1>4 DEF Distinct
<1>6. ToSet(more) = T
  <2>1. ToSet(more) = {more[i] : i \in 1..(L + 1)}
    BY <1>2, EntriesOf
  <2>2. \A i \in 1..(L + 1) : more[i] \in T
    BY <1>1, <1>2, <1>3
  <2>3. \A y \in T : \E i \in 1..(L + 1) : more[i] = y
    BY <1>1, <1>2, <1>4
  <2> HIDE DEF T
  <2> QED
    BY <2>1, <2>2, <2>3
<1> HIDE DEF T
<1>7. IsFiniteSet(T) /\ Lists(more, T)
    BY <1>2, <1>5, <1>6, DistinctLists
<1> QED
    BY <1>7 DEF more, T

LEMMA KeptLists ==
    ASSUME NEW S, NEW seq, Lists(seq, S), NEW A
    PROVE  IsFiniteSet(S \cap A) /\ Lists(Kept(seq, A), S \cap A)
<1> DEFINE kept == Kept(seq, A)
<1>1. seq \in Seq(S) /\ Distinct(seq) /\ ToSet(seq) = S
    BY DEF Lists
<1>2. kept \in Seq(S) /\ Distinct(kept) /\ ToSet(kept) = S \cap A
    BY <1>1, KeptKeeps
<1> HIDE DEF kept
<1>3. IsFiniteSet(S \cap A) /\ Lists(kept, S \cap A)
    BY <1>2, DistinctLists
<1> QED
    BY <1>3 DEF kept

-----------------------------------------------------------------------------
(* The rest of a machine that only loses orphans.                          *)
Shrunk(s, t) ==
    /\ DOMAIN t = Fields
    /\ \A f \in {"dag", "peers", "requested", "bodies", "retry_cursor"} : t[f] = s[f]
    /\ DOMAIN t.orphans \subseteq DOMAIN s.orphans

LEMMA ShrunkKeeps ==
    ASSUME NEW H, NEW s, Steady(s, H), NEW t, Shrunk(s, t)
    PROVE  Machine(t, H) /\ Owed(t) /\ Embodied(t) /\ Keeps(s, t)
<1>1. /\ t.dag = s.dag /\ t.peers = s.peers /\ t.requested = s.requested
      /\ t.bodies = s.bodies /\ t.retry_cursor = s.retry_cursor
    BY DEF Shrunk
<1>2. Held(t) \subseteq Held(s) /\ Ready(t) = Ready(s)
    BY <1>1 DEF Held, Ready, Shrunk
<1>3. Machine(t, H)
    BY <1>1 DEF Machine, Shrunk, Steady, Resolving, Peers, Requests
<1>4. Owed(t) /\ Embodied(t)
    BY <1>1, <1>2 DEF Owed, Embodied, Steady, Resolving
<1> QED
    BY <1>1, <1>2, <1>3, <1>4 DEF Keeps

(* The oldest orphan leaves, and what it waited for forgets it.            *)
LEMMA EvictKeeps ==
    ASSUME NEW H, NEW s, Steady(s, H), s.orphan_order # <<>>
    PROVE  LET t == Evict(s, Head(s.orphan_order))
           IN  /\ Steady(t, H) /\ Shrunk(s, t)
               /\ Cardinality(DOMAIN t.orphans) = Cardinality(DOMAIN s.orphans) - 1
<1> DEFINE oldest == Head(s.orphan_order)
           t == Evict(s, oldest)
           O == DOMAIN s.orphans
<1>1. /\ Lists(s.orphan_order, O) /\ s.waiting_on \in [Block -> SUBSET H] /\ DOMAIN s = Fields
      /\ O \subseteq H /\ Cardinality(O) <= MaxOrphans
      /\ \A o \in O : o \notin s.dag
    BY DEF Steady, Resolving, Pool, Machine
<1>2. oldest \in O /\ IsFiniteSet(O \ {oldest}) /\ Lists(Tail(s.orphan_order), O \ {oldest})
    BY <1>1, TailLists
<1> HIDE DEF oldest
<1>3. /\ t.orphans = Without(s.orphans, {oldest})
      /\ t.orphan_order = Tail(s.orphan_order)
      /\ t.waiting_on = [p \in Block |-> s.waiting_on[p] \ {oldest}]
      /\ DOMAIN t = Fields
      /\ \A f \in {"dag", "peers", "requested", "bodies", "retry_cursor"} : t[f] = s[f]
    BY <1>1 DEF Evict, Fields
<1> HIDE DEF t
<1>4. /\ DOMAIN t.orphans = O \ {oldest}
      /\ t.dag = s.dag
    BY <1>3 DEF Without, Restrict
<1>5. Shrunk(s, t)
    BY <1>3, <1>4 DEF Shrunk
<1>6. Cardinality(O \ {oldest}) = Cardinality(O) - 1 /\ Cardinality(O) \in Nat
  <2>1. IsFiniteSet(O)
    <3>1. O = (O \ {oldest}) \cup {oldest}
        BY <1>2
    <3> QED
        BY <1>2, <3>1, FS_AddElement
  <2> QED
    BY <1>2, <2>1, FS_RemoveElement, FS_CardinalityType
<1>7. Waiting(t, {})
  <2> SUFFICES ASSUME NEW p \in Block
               PROVE  /\ p \notin s.dag => t.waiting_on[p] = {o \in O \ {oldest} : p \in Parents[o]}
                      /\ p \in s.dag => t.waiting_on[p] = {}
    BY <1>4 DEF Waiting
  <2>1. /\ p \notin s.dag => s.waiting_on[p] = {o \in O : p \in Parents[o]}
        /\ p \in s.dag => s.waiting_on[p] = {}
    BY DEF Steady, Resolving, Pool, Waiting
  <2> QED
    BY <1>3, <2>1
<1>8. Noticed(t, {}, {})
    BY <1>4 DEF Noticed, Steady, Resolving, Pool
<1>9. Pool(t, H, {}, {})
  <2>1. t.waiting_on \in [Block -> SUBSET H]
    BY <1>1, <1>3
  <2>2. Cardinality(DOMAIN t.orphans) <= MaxOrphans
    BY <1>1, <1>4, <1>6, DagSyncAssumption
  <2> QED
    BY <1>1, <1>2, <1>3, <1>4, <1>7, <1>8, <2>1, <2>2 DEF Pool
<1>10. Steady(t, H)
    BY <1>5, <1>9, ShrunkKeeps DEF Steady, Resolving
<1> QED
    BY <1>4, <1>5, <1>6, <1>10 DEF t, oldest

(* The eviction loop runs until there is room for one more.                *)
RoomRun(s, hash, from, f) ==
    f = [n \in 0..Len(s.orphan_order) |-> IF n = 0 THEN s ELSE MakeRoom(f[n - 1])]

LEMMA RoomRuns ==
    ASSUME NEW s, NEW hash, NEW from, Len(s.orphan_order) \in Nat
    PROVE  \E f : RoomRun(s, hash, from, f) /\ StoreOrphan(s, hash, from) =
                [f[Len(s.orphan_order)] EXCEPT
                    !.waiting_on = [p \in Block |->
                        IF p \in Parents[hash] \ s.dag THEN @[p] \cup {hash} ELSE @[p]],
                    !.orphans = Over([h \in {hash} |-> from], @),
                    !.orphan_order = Append(@, hash)]
<1> DEFINE N == Len(s.orphan_order)
           x0 == s
           To(k, f) == f = [n \in 0..k |-> IF n = 0 THEN x0 ELSE MakeRoom(f[n - 1])]
           G == {k \in Nat : \E f : To(k, f)}
<1>1. 0 \in G
  <2> DEFINE g == [n \in 0..0 |-> x0]
  <2>1. g = [n \in 0..0 |-> IF n = 0 THEN x0 ELSE MakeRoom(g[n - 1])]
    OBVIOUS
  <2> QED
    BY <2>1
<1>2. ASSUME NEW k \in Nat, k \in G PROVE k + 1 \in G
  <2>1. PICK f : To(k, f)
    BY <1>2
  <2> DEFINE g == [n \in 0..(k + 1) |-> IF n = 0 THEN x0 ELSE MakeRoom(f[n - 1])]
  <2>2. \A n \in 0..k : g[n] = f[n]
    BY <2>1
  <2>3. \A n \in 0..(k + 1) : n # 0 => n - 1 \in 0..k
    OBVIOUS
  <2>4. g = [n \in 0..(k + 1) |-> IF n = 0 THEN x0 ELSE MakeRoom(g[n - 1])]
    <3>1. \A n \in 0..(k + 1) : n # 0 => g[n - 1] = f[n - 1]
        BY <2>2, <2>3
    <3>2. g = [n \in 0..(k + 1) |-> IF n = 0 THEN x0 ELSE MakeRoom(f[n - 1])]
        OBVIOUS
    <3> HIDE DEF g
    <3> QED
        BY <3>1, <3>2
  <2>5. \E h : To(k + 1, h)
    <3>1. To(k + 1, g)
        BY <2>4
    <3> HIDE DEF g, To
    <3> QED
        BY <3>1
  <2> QED
    BY <2>5
<1>3. \E f : RoomRun(s, hash, from, f)
  <2>1. Nat \subseteq G
    <3> HIDE DEF G
    <3> QED
        BY <1>1, <1>2, Counting
  <2>2. \E f : To(N, f)
    BY <2>1
  <2> QED
    BY <2>2 DEF RoomRun
<1> DEFINE Run(f) == RoomRun(s, hash, from, f)
           chosen == CHOOSE f : Run(f)
<1>4. Run(chosen)
  <2> HIDE DEF Run
  <2>1. \E f : Run(f)
    BY <1>3 DEF Run
  <2> QED
    BY <2>1
<1>5. StoreOrphan(s, hash, from) =
                [chosen[Len(s.orphan_order)] EXCEPT
                    !.waiting_on = [p \in Block |->
                        IF p \in Parents[hash] \ s.dag THEN @[p] \cup {hash} ELSE @[p]],
                    !.orphans = Over([h \in {hash} |-> from], @),
                    !.orphan_order = Append(@, hash)]
    BY DEF StoreOrphan, RoomRun
<1> QED
    BY <1>4, <1>5

RoomAfter(s, H, n, t) ==
    /\ Steady(t, H) /\ Shrunk(s, t)
    /\ \/ Cardinality(DOMAIN t.orphans) < MaxOrphans
       \/ Cardinality(DOMAIN t.orphans) + n <= Cardinality(DOMAIN s.orphans)

LEMMA PoolIsFinite ==
    ASSUME NEW H, NEW Q, NEW C, NEW s, Pool(s, H, Q, C)
    PROVE  /\ IsFiniteSet(DOMAIN s.orphans) /\ Cardinality(DOMAIN s.orphans) \in Nat
           /\ Len(s.orphan_order) = Cardinality(DOMAIN s.orphans)
           /\ (s.orphan_order = <<>>) = (Cardinality(DOMAIN s.orphans) = 0)
<1> DEFINE O == DOMAIN s.orphans
           seq == s.orphan_order
<1>1. seq \in Seq(O) /\ Distinct(seq) /\ ToSet(seq) = O /\ Len(seq) = Cardinality(O)
    BY DEF Pool, Lists
<1> HIDE DEF O, seq
<1>2. IsFiniteSet(O)
    BY <1>1, DistinctLists
<1>3. Cardinality(O) \in Nat /\ (seq = <<>>) = (Cardinality(O) = 0)
    BY <1>1
<1> QED
    BY <1>1, <1>2, <1>3 DEF O, seq

LEMMA RoomGrows ==
    ASSUME NEW H, NEW s, Steady(s, H), NEW n \in Nat, NEW t, RoomAfter(s, H, n, t)
    PROVE  RoomAfter(s, H, n + 1, MakeRoom(t))
<1> DEFINE c == Cardinality(DOMAIN t.orphans)
           d == Cardinality(DOMAIN s.orphans)
<1>1. c \in Nat /\ (t.orphan_order = <<>>) = (c = 0) /\ d \in Nat /\ MaxOrphans \in Nat \ {0}
    BY PoolIsFinite, DagSyncAssumption DEF RoomAfter, Steady, Resolving
<1>2. Steady(t, H) /\ Shrunk(s, t) /\ (c < MaxOrphans \/ c + n <= d)
    BY DEF RoomAfter
<1> DEFINE Fits == c >= MaxOrphans
<1>3. CASE ~ Fits
  <2>1. MakeRoom(t) = t /\ c < MaxOrphans
    BY <1>1, <1>3 DEF MakeRoom
  <2> QED
    BY <1>2, <2>1 DEF RoomAfter
<1>4. CASE Fits
  <2> DEFINE u == Evict(t, Head(t.orphan_order))
             e == Cardinality(DOMAIN u.orphans)
  <2>1. MakeRoom(t) = u
    BY <1>4 DEF MakeRoom
  <2>2. t.orphan_order # <<>>
    BY <1>1, <1>4
  <2>3. Steady(u, H) /\ Shrunk(t, u) /\ e = c - 1
    BY <1>2, <2>2, EvictKeeps
  <2> HIDE DEF u
  <2>4. Shrunk(s, u)
    BY <1>2, <2>3 DEF Shrunk
  <2>5. e < MaxOrphans \/ e + (n + 1) <= d
    <3> HIDE DEF c, d, e
    <3> QED
        BY <1>1, <1>2, <1>4, <2>3
  <2> QED
    BY <2>1, <2>3, <2>4, <2>5 DEF RoomAfter
<1> QED
    BY <1>3, <1>4

(* store_orphan: a block that lacks parents enters the pool.               *)
Stored(s, t, hash) ==
    /\ DOMAIN t = Fields
    /\ \A f \in {"dag", "peers", "requested", "bodies", "retry_cursor"} : t[f] = s[f]
    /\ DOMAIN t.orphans \subseteq DOMAIN s.orphans \cup {hash}

LEMMA StoreOrphanKeeps ==
    ASSUME NEW H, Closed(H), NEW s, Steady(s, H), NEW hash \in H, NEW from,
           hash \notin Held(s), ~ Parents[hash] \subseteq s.dag,
           hash \in s.bodies, hash \notin DOMAIN s.requested
    PROVE  LET t == StoreOrphan(s, hash, from)
           IN  Steady(t, H) /\ Stored(s, t, hash)
<1> DEFINE N == Len(s.orphan_order)
           t == StoreOrphan(s, hash, from)
<1>1. /\ N \in Nat /\ N = Cardinality(DOMAIN s.orphans)
      /\ MaxOrphans \in Nat \ {0} /\ hash \in Block /\ Parents[hash] \subseteq Block
    BY PoolIsFinite, DagSyncAssumption DEF Steady, Resolving, Closed
<1>2. PICK f : /\ RoomRun(s, hash, from, f)
               /\ t = [f[N] EXCEPT
                        !.waiting_on = [p \in Block |->
                            IF p \in Parents[hash] \ s.dag THEN @[p] \cup {hash} ELSE @[p]],
                        !.orphans = Over([h \in {hash} |-> from], @),
                        !.orphan_order = Append(@, hash)]
    BY <1>1, RoomRuns
<1> DEFINE G == {n \in Nat : n <= N => RoomAfter(s, H, n, f[n])}
<1>3. 0 \in G
  <2>1. f[0] = s
    BY <1>1, <1>2 DEF RoomRun
  <2>2. Steady(s, H) /\ Shrunk(s, s)
    BY DEF Shrunk, Steady, Resolving, Machine
  <2>3. Cardinality(DOMAIN s.orphans) + 0 <= Cardinality(DOMAIN s.orphans)
    BY <1>1
  <2> QED
    BY <2>1, <2>2, <2>3 DEF RoomAfter
<1>4. ASSUME NEW n \in Nat, n \in G PROVE n + 1 \in G
  <2> SUFFICES ASSUME n + 1 <= N PROVE RoomAfter(s, H, n + 1, f[n + 1])
    OBVIOUS
  <2>1. n + 1 \in 0..N /\ n + 1 # 0 /\ (n + 1) - 1 = n /\ n <= N
    BY <1>1
  <2>2. f[n + 1] = MakeRoom(f[n])
    BY <1>2, <2>1 DEF RoomRun
  <2> QED
    BY <1>4, <2>1, <2>2, RoomGrows
<1>5. Nat \subseteq G
  <2> HIDE DEF G
  <2> QED
    BY <1>3, <1>4, Counting
<1> DEFINE r == f[N]
           O == DOMAIN r.orphans
<1>6. RoomAfter(s, H, N, r)
    BY <1>1, <1>5
<1>7. Steady(r, H) /\ Shrunk(s, r)
    BY <1>6 DEF RoomAfter
<1> HIDE DEF t, r, N
<1>8. /\ DOMAIN t = Fields
      /\ \A g \in {"dag", "peers", "requested", "bodies", "retry_cursor"} : t[g] = r[g]
      /\ t.waiting_on = [p \in Block |->
                IF p \in Parents[hash] \ s.dag THEN r.waiting_on[p] \cup {hash} ELSE r.waiting_on[p]]
      /\ t.orphans = Over([h \in {hash} |-> from], r.orphans)
      /\ t.orphan_order = Append(r.orphan_order, hash)
  <2>1. DOMAIN r = Fields
    BY <1>7 DEF Shrunk
  <2> QED
    BY <1>2, <2>1 DEF Fields, r
<1>9. DOMAIN t.orphans = O \cup {hash}
    BY <1>8 DEF Over
<1>10. /\ r.dag = s.dag /\ r.bodies = s.bodies /\ r.requested = s.requested /\ r.peers = s.peers
       /\ r.retry_cursor = s.retry_cursor /\ O \subseteq DOMAIN s.orphans
       /\ t.dag = s.dag /\ t.bodies = s.bodies /\ t.requested = s.requested /\ t.peers = s.peers
       /\ t.retry_cursor = s.retry_cursor
    BY <1>7, <1>8 DEF Shrunk
<1>11. hash \notin O /\ hash \notin s.dag
    BY <1>10 DEF Held
<1>12. Pool(r, H, {}, {}) /\ Machine(r, H) /\ Owed(r) /\ Embodied(r)
    BY <1>7 DEF Steady, Resolving
<1>13. Stored(s, t, hash)
    BY <1>8, <1>9, <1>10 DEF Stored
<1>14. IsFiniteSet(O \cup {hash}) /\ Lists(t.orphan_order, O \cup {hash})
    BY <1>8, <1>11, <1>12, AppendLists DEF Pool
<1>15. Cardinality(O \cup {hash}) <= MaxOrphans
  <2>1. IsFiniteSet(O) /\ Cardinality(O) \in Nat
    BY <1>12, PoolIsFinite
  <2>2. Cardinality(O \cup {hash}) = Cardinality(O) + 1
    BY <1>11, <2>1, FS_AddElement
  <2>3. Cardinality(O) < MaxOrphans \/ Cardinality(O) + N <= N
    BY <1>1, <1>6 DEF RoomAfter
  <2>4. Cardinality(O) < MaxOrphans
    BY <1>1, <2>1, <2>3
  <2> HIDE DEF O
  <2> QED
    BY <1>1, <2>1, <2>2, <2>4
<1>16. t.waiting_on \in [Block -> SUBSET H]
  <2>1. r.waiting_on \in [Block -> SUBSET H]
    BY <1>12 DEF Pool
  <2> QED
    BY <1>8, <2>1
<1>17. Waiting(t, {})
  <2> SUFFICES ASSUME NEW p \in Block
               PROVE  /\ p \notin s.dag => t.waiting_on[p] = {o \in O \cup {hash} : p \in Parents[o]}
                      /\ p \in s.dag => t.waiting_on[p] = {}
    BY <1>9, <1>10 DEF Waiting
  <2>1. /\ p \notin s.dag => r.waiting_on[p] = {o \in O : p \in Parents[o]}
        /\ p \in s.dag => r.waiting_on[p] = {}
    BY <1>10, <1>12 DEF Pool, Waiting
  <2>2. t.waiting_on[p] = IF p \in Parents[hash] \ s.dag THEN r.waiting_on[p] \cup {hash}
                                                         ELSE r.waiting_on[p]
    BY <1>8
  <2>3. CASE p \in s.dag
    BY <2>1, <2>2, <2>3
  <2>4. CASE p \notin s.dag /\ p \in Parents[hash]
    BY <2>1, <2>2, <2>4
  <2>5. CASE p \notin s.dag /\ p \notin Parents[hash]
    BY <2>1, <2>2, <2>5
  <2> QED
    BY <2>3, <2>4, <2>5
<1>18. Noticed(t, {}, {})
  <2>1. \A o \in O : ~ Parents[o] \subseteq s.dag
    BY <1>10, <1>12 DEF Noticed, Pool
  <2> QED
    BY <1>9, <1>10, <2>1 DEF Noticed
<1>19. Pool(t, H, {}, {})
  <2>1. O \subseteq H /\ \A o \in O : o \notin s.dag
    BY <1>10, <1>12 DEF Pool
  <2> QED
    BY <1>9, <1>10, <1>11, <1>14, <1>15, <1>16, <1>17, <1>18, <2>1 DEF Pool
<1>20. Machine(t, H)
    BY <1>8, <1>10, <1>12 DEF Machine, Peers, Requests
<1>21. Owed(t)
  <2>1. Held(t) \subseteq Held(s) \cup {hash} /\ Ready(t) = Ready(s)
    BY <1>9, <1>10 DEF Held, Ready
  <2> QED
    BY <1>10, <2>1 DEF Owed, Steady, Resolving
<1>22. Embodied(t)
  <2>1. Held(t) = Held(r) \cup {hash}
    BY <1>9, <1>10 DEF Held
  <2> QED
    BY <1>10, <1>12, <2>1 DEF Embodied
<1> QED
    BY <1>13, <1>19, <1>20, <1>21, <1>22 DEF Steady, Resolving, t

-----------------------------------------------------------------------------
(* resolve_orphans_of at work: some blocks are still to be looked at as    *)
(* parents, and orphans in C as children.                                  *)
Adopted(s, t) ==
    /\ Keeps(s, t) /\ Held(t) = Held(s)
    /\ t.requested = s.requested /\ t.bodies = s.bodies
    /\ DOMAIN t.orphans \subseteq DOMAIN s.orphans

Working(s, acc, H, C) ==
    /\ DOMAIN acc = {"sync", "out", "queue"}
    /\ acc.queue \in Seq(acc.sync.dag) /\ acc.out \in Seq(Action(H))
    /\ Resolving(acc.sync, H, ToSet(acc.queue), C)
    /\ Adopted(s, acc.sync)

Size(acc) == Len(acc.queue) + Cardinality(DOMAIN acc.sync.orphans)

But(C, D, child) == C \subseteq D \cup {child}

(* A child whose parents are all there joins. *)
JoinedChild(s, child) ==
    [s EXCEPT !.orphans = Without(@, {child}),
              !.orphan_order = Kept(@, ToSet(@) \ {child}),
              !.dag = @ \cup {child}]

LEMMA JoinedChildKeeps ==
    ASSUME NEW H, Closed(H), NEW Q, NEW C, NEW s, Resolving(s, H, Q, C),
           NEW child \in DOMAIN s.orphans, Parents[child] \subseteq s.dag,
           NEW D, But(C, D, child)
    PROVE  /\ Resolving(JoinedChild(s, child), H, Q \cup {child}, D)
           /\ Adopted(s, JoinedChild(s, child)) /\ child \in JoinedChild(s, child).dag
           /\ Cardinality(DOMAIN JoinedChild(s, child).orphans) = Cardinality(DOMAIN s.orphans) - 1
<1> DEFINE t == JoinedChild(s, child)
           O == DOMAIN s.orphans
<1>1. Machine(s, H) /\ Pool(s, H, Q, C) /\ Owed(s) /\ Embodied(s)
    BY DEF Resolving
<1>2. /\ DOMAIN s = Fields /\ Lists(s.orphan_order, O) /\ O \subseteq H
      /\ \A o \in O : o \notin s.dag
      /\ Cardinality(O) <= MaxOrphans /\ MaxOrphans \in Nat
    BY <1>1, DagSyncAssumption DEF Machine, Pool
<1>3. /\ DOMAIN t = Fields
      /\ t.orphans = Without(s.orphans, {child})
      /\ t.orphan_order = Kept(s.orphan_order, ToSet(s.orphan_order) \ {child})
      /\ t.dag = s.dag \cup {child}
      /\ \A f \in {"peers", "waiting_on", "requested", "bodies", "retry_cursor"} : t[f] = s[f]
    BY <1>2 DEF JoinedChild, Fields
<1> HIDE DEF t
<1>4. DOMAIN t.orphans = O \ {child}
    BY <1>3 DEF Without, Restrict
<1>5. IsFiniteSet(O \ {child}) /\ Lists(t.orphan_order, O \ {child})
  <2>1. ToSet(s.orphan_order) = O
    BY <1>2 DEF Lists
  <2>2. O \cap (O \ {child}) = O \ {child}
    OBVIOUS
  <2>3. /\ IsFiniteSet(O \cap (O \ {child}))
        /\ Lists(Kept(s.orphan_order, O \ {child}), O \cap (O \ {child}))
    BY <1>2, KeptLists
  <2> QED
    BY <1>3, <2>1, <2>2, <2>3
<1>6. /\ t.peers = s.peers /\ t.waiting_on = s.waiting_on /\ t.requested = s.requested
      /\ t.bodies = s.bodies /\ t.retry_cursor = s.retry_cursor
    BY <1>3
<1>7. Cardinality(O \ {child}) = Cardinality(O) - 1 /\ Cardinality(O) \in Nat
    BY <1>1, PoolIsFinite, FS_RemoveElement
<1>8. Held(t) = Held(s) /\ Ready(t) = Ready(s)
    BY <1>3, <1>4, <1>6 DEF Held, Ready
<1>9. Adopted(s, t)
    BY <1>3, <1>4, <1>6, <1>8 DEF Adopted, Keeps
<1>10. Machine(t, H)
  <2>1. child \in H
    BY <1>2
  <2> QED
    BY <1>1, <1>3, <1>6, <2>1 DEF Machine, Peers, Requests
<1>11. Waiting(t, Q \cup {child})
  <2> SUFFICES ASSUME NEW p \in Block
               PROVE  /\ p \notin t.dag => t.waiting_on[p] = {o \in O \ {child} : p \in Parents[o]}
                      /\ p \in t.dag /\ p \notin Q \cup {child} => t.waiting_on[p] = {}
    BY <1>4 DEF Waiting
  <2>1. /\ p \notin s.dag => s.waiting_on[p] = {o \in O : p \in Parents[o]}
        /\ p \in s.dag /\ p \notin Q => s.waiting_on[p] = {}
    BY <1>1 DEF Pool, Waiting
  <2>2. p \notin s.dag => p \notin Parents[child]
    OBVIOUS
  <2> QED
    BY <1>3, <1>6, <2>1, <2>2
<1>12. Noticed(t, Q \cup {child}, D)
  <2> SUFFICES ASSUME NEW o \in O \ {child}, Parents[o] \subseteq s.dag \cup {child}
               PROVE  o \in D \/ \E p \in Q \cup {child} : o \in s.waiting_on[p]
    BY <1>3, <1>4, <1>6 DEF Noticed
  <2>1. CASE child \in Parents[o]
    <3>1. child \notin s.dag /\ child \in Block
        BY <1>2 DEF Closed
    <3>2. s.waiting_on[child] = {q \in O : child \in Parents[q]}
        BY <1>1, <3>1 DEF Pool, Waiting
    <3> QED
        BY <2>1, <3>2
  <2>2. CASE child \notin Parents[o]
    <3>1. Parents[o] \subseteq s.dag
        BY <2>2
    <3>2. o \in C \/ \E p \in Q : o \in s.waiting_on[p]
        BY <1>1, <3>1 DEF Pool, Noticed
    <3> QED
        BY <3>2 DEF But
  <2> QED
    BY <2>1, <2>2
<1>13. Pool(t, H, Q \cup {child}, D)
  <2>1. Cardinality(DOMAIN t.orphans) <= MaxOrphans
    BY <1>2, <1>4, <1>7
  <2>2. DOMAIN t.orphans \subseteq H /\ \A o \in DOMAIN t.orphans : o \notin t.dag
    BY <1>2, <1>3, <1>4
  <2>3. t.waiting_on \in [Block -> SUBSET H]
    BY <1>1, <1>6 DEF Pool
  <2> QED
    BY <1>4, <1>5, <1>11, <1>12, <2>1, <2>2, <2>3 DEF Pool
<1>14. Owed(t) /\ Embodied(t)
    BY <1>1, <1>6, <1>8 DEF Owed, Embodied
<1> QED
    BY <1>3, <1>4, <1>7, <1>9, <1>10, <1>13, <1>14 DEF Resolving, t

LEMMA ResolveChildKeeps ==
    ASSUME NEW H, Closed(H), NEW s, NEW C, NEW acc, Working(s, acc, H, C),
           NEW child, NEW D, But(C, D, child)
    PROVE  /\ Working(s, ResolveChild(acc, child), H, D)
           /\ Size(ResolveChild(acc, child)) = Size(acc)
<1> DEFINE x == acc.sync
           Q == ToSet(acc.queue)
           Joins == child \in DOMAIN x.orphans /\ Parents[child] \subseteq x.dag
<1>1. Resolving(x, H, Q, C) /\ Adopted(s, x) /\ acc.queue \in Seq(x.dag) /\ acc.out \in Seq(Action(H))
    BY DEF Working
<1>0. x = acc.sync /\ Q = ToSet(acc.queue)
    OBVIOUS
<1> HIDE DEF x, Q
<1>2. CASE ~ Joins
  <2>1. ResolveChild(acc, child) = acc
    BY <1>2 DEF ResolveChild, x
  <2>2. Noticed(x, Q, D)
    BY <1>1, <1>2 DEF Resolving, Pool, Noticed, But
  <2>3. Resolving(x, H, Q, D)
    BY <1>1, <2>2 DEF Resolving, Pool
  <2> QED
    BY <1>0, <2>1, <2>3 DEF Working
<1>3. CASE Joins
  <2> DEFINE t == JoinedChild(x, child)
             told == Announce(t, child, {x.orphans[child]})
             u == told.sync
             r == ResolveChild(acc, child)
  <2>1. /\ r = [sync |-> u, out |-> acc.out \o told.out, queue |-> Append(acc.queue, child)]
    BY <1>3 DEF ResolveChild, JoinedChild, x
  <2> HIDE DEF r
  <2>2. /\ Resolving(t, H, Q \cup {child}, D) /\ Adopted(x, t) /\ child \in t.dag
        /\ Cardinality(DOMAIN t.orphans) = Cardinality(DOMAIN x.orphans) - 1
    <3>1. child \in DOMAIN x.orphans /\ Parents[child] \subseteq x.dag
        BY <1>3
    <3> HIDE DEF Joins
    <3> QED
        BY <1>1, <3>1, JoinedChildKeeps
  <2> HIDE DEF t
  <2>3. child \in H
    BY <1>1, <1>3 DEF Resolving, Pool
  <2>4. PeersOnly(t, u) /\ told.out \in Seq(Action(H))
    BY <2>2, <2>3, AnnounceTells DEF Resolving
  <2> HIDE DEF told
  <2>5. Resolving(u, H, Q \cup {child}, D) /\ Keeps(t, u) /\ Held(u) = Held(t)
    BY <2>2, <2>4, PeersOnlyKeeps
  <2>6. u.dag = t.dag /\ u.orphans = t.orphans /\ u.requested = t.requested /\ u.bodies = t.bodies
    BY <2>4 DEF PeersOnly, Fields
  <2> HIDE DEF u
  <2>7. Adopted(s, u)
    BY <1>1, <2>2, <2>5, <2>6 DEF Adopted, Keeps
  <2>8. x.dag \subseteq u.dag /\ child \in u.dag
    BY <2>2, <2>6 DEF Adopted, Keeps
  <2> DEFINE queue == Append(acc.queue, child)
             L == Len(acc.queue)
  <2>9. queue \in Seq(u.dag) /\ Len(queue) = L + 1 /\ L \in Nat
    <3> DEFINE q == acc.queue
               V == u.dag
    <3>1. q \in Seq(V) /\ child \in V
        BY <1>1, <2>8
    <3> HIDE DEF q, V
    <3>2. Append(q, child) \in Seq(V) /\ Len(Append(q, child)) = Len(q) + 1 /\ Len(q) \in Nat
        BY <3>1
    <3> QED
        BY <3>2 DEF q, V
  <2>10. ToSet(queue) = Q \cup {child}
    <3>1. Q = {acc.queue[i] : i \in 1..L}
        BY <1>0, <1>1, EntriesOf
    <3>2. queue[L + 1] = child /\ \A i \in 1..L : queue[i] = acc.queue[i]
        BY <1>1
    <3>3. ToSet(queue) = {queue[i] : i \in 1..(L + 1)}
        BY <2>9, EntriesOf
    <3>4. \A i \in 1..(L + 1) : i \in 1..L \/ i = L + 1
        BY <2>9
    <3>5. L + 1 \in 1..(L + 1) /\ \A i \in 1..L : i \in 1..(L + 1)
        BY <2>9
    <3> HIDE DEF queue, L, Q
    <3> QED
        BY <3>1, <3>2, <3>3, <3>4, <3>5
  <2>11. acc.out \o told.out \in Seq(Action(H))
    BY <1>1, <2>4
  <2>12. Working(s, r, H, D)
    <3>1. /\ DOMAIN r = {"sync", "out", "queue"}
          /\ r.sync = u /\ r.queue = queue /\ r.out = acc.out \o told.out
        BY <2>1
    <3> HIDE DEF queue
    <3>2. Resolving(u, H, ToSet(queue), D)
        BY <2>5, <2>10
    <3> QED
        BY <2>7, <2>9, <2>11, <3>1, <3>2 DEF Working
  <2>13. Size(r) = Size(acc)
    <3> DEFINE c == Cardinality(DOMAIN x.orphans)
    <3>1. Size(r) = (L + 1) + (c - 1)
        BY <2>1, <2>2, <2>6, <2>9 DEF Size
    <3>3. Size(acc) = L + c
        BY <1>0 DEF Size
    <3>2. c \in Nat
        BY <1>1, PoolIsFinite DEF Resolving
    <3> HIDE DEF L, c
    <3> QED
        BY <2>9, <3>1, <3>2, <3>3
  <2> QED
    BY <2>12, <2>13 DEF r
<1> QED
    BY <1>2, <1>3

(* A parent is looked at: its children are, one after another.             *)
StartParent(acc, parent) == [acc EXCEPT !.queue = Tail(@), !.sync.waiting_on[parent] = {}]

LEMMA StartParentKeeps ==
    ASSUME NEW H, Closed(H), NEW s, NEW acc, Working(s, acc, H, {}), acc.queue # <<>>,
           NEW parent, parent = Head(acc.queue)
    PROVE  /\ acc.sync.waiting_on[parent] \in SUBSET H
           /\ Working(s, StartParent(acc, parent), H, acc.sync.waiting_on[parent])
           /\ Size(StartParent(acc, parent)) = Size(acc) - 1
<1> DEFINE x == acc.sync
           queue == acc.queue
           Q == ToSet(queue)
           r == StartParent(acc, parent)
           t == r.sync
           C == x.waiting_on[parent]
           L == Len(queue)
<1>1. /\ Resolving(x, H, Q, {}) /\ Adopted(s, x) /\ queue \in Seq(x.dag)
      /\ acc.out \in Seq(Action(H)) /\ queue # <<>> /\ parent = Head(queue)
      /\ DOMAIN acc = {"sync", "out", "queue"}
    BY DEF Working
<1>2. Machine(x, H) /\ Pool(x, H, Q, {}) /\ Owed(x) /\ Embodied(x)
    BY <1>1 DEF Resolving
<1>3. /\ DOMAIN x = Fields /\ x.dag \subseteq H /\ H \subseteq Block
      /\ x.waiting_on \in [Block -> SUBSET H]
    BY <1>2 DEF Machine, Pool, Closed
<1>4. /\ r.queue = Tail(queue) /\ r.out = acc.out /\ DOMAIN r = {"sync", "out", "queue"}
      /\ r.sync = [x EXCEPT !.waiting_on[parent] = {}]
    BY <1>1 DEF StartParent
<1> HIDE DEF r, x
<1>5. /\ DOMAIN t = Fields /\ \A f \in Fields \ {"waiting_on"} : t[f] = x[f]
      /\ t.waiting_on = [x.waiting_on EXCEPT ![parent] = {}]
    BY <1>3, <1>4 DEF Fields
<1> HIDE DEF t
<1>6. /\ t.dag = x.dag /\ t.peers = x.peers /\ t.orphans = x.orphans
      /\ t.orphan_order = x.orphan_order /\ t.requested = x.requested /\ t.bodies = x.bodies
      /\ t.retry_cursor = x.retry_cursor
    BY <1>5 DEF Fields
<1> HIDE DEF queue, Q
<1>7. /\ L \in Nat /\ L # 0 /\ DOMAIN queue = 1..L /\ Q = {queue[i] : i \in 1..L}
      /\ Head(queue) = queue[1] /\ \A i \in 1..L : queue[i] \in x.dag
  <2> DEFINE S == x.dag
  <2>1. queue \in Seq(S) /\ queue # <<>>
    BY <1>1
  <2> HIDE DEF S
  <2>2. L \in Nat /\ L # 0 /\ DOMAIN queue = 1..L /\ \A i \in 1..L : queue[i] \in S
    BY <2>1
  <2>3. Head(queue) = queue[1]
    BY <2>1
  <2>4. ToSet(queue) = {queue[i] : i \in 1..Len(queue)}
    BY <2>1, EntriesOf
  <2> QED
    BY <2>2, <2>3, <2>4 DEF S, Q
<1>8. parent \in x.dag /\ parent \in Block
    BY <1>1, <1>3, <1>7
<1> DEFINE rest == Tail(queue)
           Q2 == ToSet(rest)
<1>9. /\ rest \in Seq(x.dag) /\ Len(rest) = L - 1
      /\ \A i \in 1..(L - 1) : rest[i] = queue[i + 1]
  <2> DEFINE S == x.dag
  <2>1. queue \in Seq(S) /\ queue # <<>>
    BY <1>1
  <2> HIDE DEF S
  <2>2. rest \in Seq(S) /\ Len(rest) = L - 1 /\ \A i \in 1..(L - 1) : rest[i] = queue[i + 1]
    BY <2>1
  <2> QED
    BY <2>2 DEF S
<1> HIDE DEF rest, L
<1>10. Q \subseteq Q2 \cup {parent}
  <2> SUFFICES ASSUME NEW i \in 1..L, queue[i] # parent PROVE queue[i] \in Q2
    BY <1>7
  <2>1. i # 1 /\ i - 1 \in 1..(L - 1) /\ (i - 1) + 1 = i
    BY <1>1, <1>7
  <2>2. rest[i - 1] = queue[i]
    BY <1>9, <2>1
  <2>3. Q2 = {rest[k] : k \in 1..(L - 1)}
    BY <1>9, EntriesOf
  <2> HIDE DEF Q2
  <2> QED
    BY <2>1, <2>2, <2>3
<1> HIDE DEF Q2
<1>11. C \in SUBSET H
    BY <1>3, <1>8
<1>12. Held(t) = Held(x) /\ Ready(t) = Ready(x) /\ Adopted(x, t)
    BY <1>6 DEF Held, Ready, Adopted, Keeps
<1>13. Machine(t, H)
    BY <1>2, <1>5, <1>6 DEF Machine, Peers, Requests
<1>14. \A p \in Block : t.waiting_on[p] = IF p = parent THEN {} ELSE x.waiting_on[p]
    BY <1>3, <1>5
<1>15. Waiting(t, Q2)
  <2> SUFFICES ASSUME NEW p \in Block
               PROVE  /\ p \notin x.dag => t.waiting_on[p] = {o \in DOMAIN x.orphans : p \in Parents[o]}
                      /\ p \in x.dag /\ p \notin Q2 => t.waiting_on[p] = {}
    BY <1>6 DEF Waiting
  <2>1. /\ p \notin x.dag => x.waiting_on[p] = {o \in DOMAIN x.orphans : p \in Parents[o]}
        /\ p \in x.dag /\ p \notin Q => x.waiting_on[p] = {}
    BY <1>2 DEF Pool, Waiting
  <2>2. CASE p = parent
    BY <1>8, <1>14, <2>2
  <2>3. CASE p # parent
    BY <1>10, <1>14, <2>1, <2>3
  <2> QED
    BY <2>2, <2>3
<1>16. Noticed(t, Q2, C)
  <2> SUFFICES ASSUME NEW o \in DOMAIN x.orphans, Parents[o] \subseteq x.dag
               PROVE  o \in C \/ \E p \in Q2 : o \in t.waiting_on[p]
    BY <1>6 DEF Noticed
  <2>1. PICK p \in Q : o \in x.waiting_on[p]
    BY <1>2 DEF Pool, Noticed
  <2>2. p \in Block
    BY <1>3, <1>7
  <2>3. CASE p = parent
    BY <2>1, <2>3
  <2>4. CASE p # parent
    BY <1>10, <1>14, <2>1, <2>2, <2>4
  <2> QED
    BY <2>3, <2>4
<1>17. Pool(t, H, Q2, C)
  <2>1. t.waiting_on \in [Block -> SUBSET H]
    BY <1>3, <1>5
  <2> QED
    BY <1>2, <1>6, <1>15, <1>16, <2>1 DEF Pool
<1>18. Owed(t) /\ Embodied(t)
    BY <1>2, <1>6, <1>12 DEF Owed, Embodied
<1>19. Resolving(t, H, Q2, C)
    BY <1>13, <1>17, <1>18 DEF Resolving
<1>20. Adopted(s, t)
    BY <1>1, <1>12 DEF Adopted, Keeps
<1>21. Working(s, r, H, C)
  <2>1. r.sync = t /\ r.queue = rest
    BY <1>4 DEF t, rest
  <2>2. rest \in Seq(t.dag)
    BY <1>6, <1>9
  <2> HIDE DEF C
  <2> QED
    BY <1>1, <1>4, <1>19, <1>20, <2>1, <2>2 DEF Working, Q2
<1>22. Size(r) = Size(acc) - 1
  <2> DEFINE c == Cardinality(DOMAIN x.orphans)
  <2>1. Size(r) = (L - 1) + c
    BY <1>4, <1>6, <1>9 DEF Size, t, rest
  <2>2. Size(acc) = L + c
    BY DEF Size, L, queue, x
  <2>3. c \in Nat
    BY <1>2, PoolIsFinite
  <2> HIDE DEF c
  <2> QED
    BY <1>7, <2>1, <2>2, <2>3
<1> QED
    BY <1>11, <1>21, <1>22 DEF r, x

OfParent(acc, parent, children) ==
    /\ acc.queue # <<>> /\ parent = Head(acc.queue)
    /\ children = Ascending(acc.sync.waiting_on[parent])

ParentRun(acc, parent, children, f) ==
    f = [n \in 0..Len(children) |-> IF n = 0 THEN StartParent(acc, parent) ELSE ResolveChild(f[n - 1], children[n])]

LEMMA ParentRuns ==
    ASSUME NEW acc, NEW parent, NEW children, OfParent(acc, parent, children), Len(children) \in Nat
    PROVE  \E f : ParentRun(acc, parent, children, f) /\ ResolveParent(acc) = f[Len(children)]
<1> DEFINE N == Len(children)
           x0 == StartParent(acc, parent)
           To(k, f) == f = [n \in 0..k |-> IF n = 0 THEN x0 ELSE ResolveChild(f[n - 1], children[n])]
           G == {k \in Nat : \E f : To(k, f)}
<1>1. 0 \in G
  <2> DEFINE g == [n \in 0..0 |-> x0]
  <2>1. g = [n \in 0..0 |-> IF n = 0 THEN x0 ELSE ResolveChild(g[n - 1], children[n])]
    OBVIOUS
  <2> QED
    BY <2>1
<1>2. ASSUME NEW k \in Nat, k \in G PROVE k + 1 \in G
  <2>1. PICK f : To(k, f)
    BY <1>2
  <2> DEFINE g == [n \in 0..(k + 1) |-> IF n = 0 THEN x0 ELSE ResolveChild(f[n - 1], children[n])]
  <2>2. \A n \in 0..k : g[n] = f[n]
    BY <2>1
  <2>3. \A n \in 0..(k + 1) : n # 0 => n - 1 \in 0..k
    OBVIOUS
  <2>4. g = [n \in 0..(k + 1) |-> IF n = 0 THEN x0 ELSE ResolveChild(g[n - 1], children[n])]
    <3>1. \A n \in 0..(k + 1) : n # 0 => g[n - 1] = f[n - 1]
        BY <2>2, <2>3
    <3>2. g = [n \in 0..(k + 1) |-> IF n = 0 THEN x0 ELSE ResolveChild(f[n - 1], children[n])]
        OBVIOUS
    <3> HIDE DEF g
    <3> QED
        BY <3>1, <3>2
  <2>5. \E h : To(k + 1, h)
    <3>1. To(k + 1, g)
        BY <2>4
    <3> HIDE DEF g, To
    <3> QED
        BY <3>1
  <2> QED
    BY <2>5
<1>3. \E f : ParentRun(acc, parent, children, f)
  <2>1. Nat \subseteq G
    <3> HIDE DEF G
    <3> QED
        BY <1>1, <1>2, Counting
  <2>2. \E f : To(N, f)
    BY <2>1
  <2> QED
    BY <2>2 DEF ParentRun
<1> DEFINE Run(f) == ParentRun(acc, parent, children, f)
           chosen == CHOOSE f : Run(f)
<1>4. Run(chosen)
  <2> HIDE DEF Run
  <2>1. \E f : Run(f)
    BY <1>3 DEF Run
  <2> QED
    BY <2>1
<1>5. ResolveParent(acc) = chosen[Len(children)]
    BY DEF ResolveParent, StartParent, OfParent, ParentRun
<1> QED
    BY <1>4, <1>5

LEMMA ResolveParentKeeps ==
    ASSUME NEW H, Closed(H), NEW s, NEW acc, Working(s, acc, H, {}), acc.queue # <<>>
    PROVE  /\ Working(s, ResolveParent(acc), H, {})
           /\ Size(ResolveParent(acc)) = Size(acc) - 1
<1> DEFINE parent == Head(acc.queue)
           C == acc.sync.waiting_on[parent]
           children == Ascending(C)
           N == Len(children)
<1>1. /\ C \in SUBSET H /\ Working(s, StartParent(acc, parent), H, C)
      /\ Size(StartParent(acc, parent)) = Size(acc) - 1
    BY StartParentKeeps
<1>2. Lists(children, C)
    BY <1>1, SteadyHashes
<1>3. children \in Seq(C) /\ N \in Nat /\ C = {children[i] : i \in 1..N}
  <2> HIDE DEF children, C
  <2>1. children \in Seq(C) /\ ToSet(children) = C
    BY <1>2 DEF Lists
  <2> QED
    BY <2>1, EntriesOf
<1>4. PICK f : ParentRun(acc, parent, children, f) /\ ResolveParent(acc) = f[N]
  <2>1. OfParent(acc, parent, children)
    BY DEF OfParent
  <2> HIDE DEF parent, children
  <2> QED
    BY <1>3, <2>1, ParentRuns
<1> HIDE DEF parent, C, children, N
<1> DEFINE Left(n) == {children[i] : i \in (n + 1)..N}
           After(n) == Working(s, f[n], H, Left(n)) /\ Size(f[n]) = Size(acc) - 1
           G == {n \in Nat : n <= N => After(n)}
<1>5. 0 \in G
  <2>1. f[0] = StartParent(acc, parent)
    BY <1>3, <1>4 DEF ParentRun, N
  <2>2. Left(0) = C
    BY <1>3
  <2> HIDE DEF Left
  <2> QED
    BY <1>1, <2>1, <2>2
<1>6. ASSUME NEW n \in Nat, n \in G PROVE n + 1 \in G
  <2> SUFFICES ASSUME n + 1 <= N PROVE After(n + 1)
    OBVIOUS
  <2>1. n + 1 \in 0..N /\ n + 1 # 0 /\ (n + 1) - 1 = n /\ n <= N
    BY <1>3
  <2>2. f[n + 1] = ResolveChild(f[n], children[n + 1])
    BY <1>4, <2>1 DEF ParentRun, N
  <2>3. After(n)
    BY <1>6, <2>1
  <2>4. But(Left(n), Left(n + 1), children[n + 1])
    <3>1. \A i \in (n + 1)..N : i = n + 1 \/ i \in ((n + 1) + 1)..N
        BY <1>3
    <3> QED
        BY <3>1 DEF But
  <2> HIDE DEF Left
  <2>5. Working(s, f[n], H, Left(n)) /\ Size(f[n]) = Size(acc) - 1
    BY <2>3
  <2> DEFINE old == f[n]
             child == children[n + 1]
             A == Left(n)
             D == Left(n + 1)
  <2>6. Working(s, old, H, A) /\ But(A, D, child)
    BY <2>4, <2>5
  <2> HIDE DEF old, child, A, D
  <2>7. Working(s, ResolveChild(old, child), H, D) /\ Size(ResolveChild(old, child)) = Size(old)
    BY <2>6, ResolveChildKeeps
  <2> QED
    BY <2>2, <2>5, <2>7 DEF old, child, A, D
<1>7. Nat \subseteq G
  <2> HIDE DEF G
  <2> QED
    BY <1>5, <1>6, Counting
<1>8. After(N)
  <2> HIDE DEF After
  <2> QED
    BY <1>3, <1>7
<1>9. Left(N) = {}
    BY <1>3
<1> HIDE DEF Left
<1> QED
    BY <1>4, <1>8, <1>9

(* All of it: each turn looks at a parent, and there are as many turns as  *)
(* blocks that can be one.                                                 *)
OrphansRun(s, hash, f) ==
    f = [n \in 0..Cardinality(DOMAIN s.orphans) + 1 |-> IF n = 0 THEN [sync |-> s, out |-> <<>>, queue |-> <<hash>>] ELSE ResolveParent(f[n - 1])]

LEMMA OrphansRuns ==
    ASSUME NEW s, NEW hash, Cardinality(DOMAIN s.orphans) + 1 \in Nat
    PROVE  \E f : OrphansRun(s, hash, f) /\ ResolveOrphansOf(s, hash) =
                [sync |-> f[Cardinality(DOMAIN s.orphans) + 1].sync,
                 out  |-> f[Cardinality(DOMAIN s.orphans) + 1].out]
<1> DEFINE N == Cardinality(DOMAIN s.orphans) + 1
           x0 == [sync |-> s, out |-> <<>>, queue |-> <<hash>>]
           To(k, f) == f = [n \in 0..k |-> IF n = 0 THEN x0 ELSE ResolveParent(f[n - 1])]
           G == {k \in Nat : \E f : To(k, f)}
<1>1. 0 \in G
  <2> DEFINE g == [n \in 0..0 |-> x0]
  <2>1. g = [n \in 0..0 |-> IF n = 0 THEN x0 ELSE ResolveParent(g[n - 1])]
    OBVIOUS
  <2> QED
    BY <2>1
<1>2. ASSUME NEW k \in Nat, k \in G PROVE k + 1 \in G
  <2>1. PICK f : To(k, f)
    BY <1>2
  <2> DEFINE g == [n \in 0..(k + 1) |-> IF n = 0 THEN x0 ELSE ResolveParent(f[n - 1])]
  <2>2. \A n \in 0..k : g[n] = f[n]
    BY <2>1
  <2>3. \A n \in 0..(k + 1) : n # 0 => n - 1 \in 0..k
    OBVIOUS
  <2>4. g = [n \in 0..(k + 1) |-> IF n = 0 THEN x0 ELSE ResolveParent(g[n - 1])]
    <3>1. \A n \in 0..(k + 1) : n # 0 => g[n - 1] = f[n - 1]
        BY <2>2, <2>3
    <3>2. g = [n \in 0..(k + 1) |-> IF n = 0 THEN x0 ELSE ResolveParent(f[n - 1])]
        OBVIOUS
    <3> HIDE DEF g
    <3> QED
        BY <3>1, <3>2
  <2>5. \E h : To(k + 1, h)
    <3>1. To(k + 1, g)
        BY <2>4
    <3> HIDE DEF g, To
    <3> QED
        BY <3>1
  <2> QED
    BY <2>5
<1>3. \E f : OrphansRun(s, hash, f)
  <2>1. Nat \subseteq G
    <3> HIDE DEF G
    <3> QED
        BY <1>1, <1>2, Counting
  <2>2. \E f : To(N, f)
    BY <2>1
  <2> QED
    BY <2>2 DEF OrphansRun
<1> DEFINE Run(f) == OrphansRun(s, hash, f)
           chosen == CHOOSE f : Run(f)
<1>4. Run(chosen)
  <2> HIDE DEF Run
  <2>1. \E f : Run(f)
    BY <1>3 DEF Run
  <2> QED
    BY <2>1
<1>5. ResolveOrphansOf(s, hash) =
                [sync |-> chosen[Cardinality(DOMAIN s.orphans) + 1].sync,
                 out  |-> chosen[Cardinality(DOMAIN s.orphans) + 1].out]
    BY DEF ResolveOrphansOf, OrphansRun
<1> QED
    BY <1>4, <1>5

TurnsLeft(acc, n, turns) == acc.queue = <<>> \/ Size(acc) + n <= turns

LEMMA NextTurn ==
    ASSUME NEW H, Closed(H), NEW s, NEW acc, Working(s, acc, H, {}),
           NEW n \in Nat, NEW turns \in Nat, TurnsLeft(acc, n, turns)
    PROVE  /\ Working(s, ResolveParent(acc), H, {})
           /\ TurnsLeft(ResolveParent(acc), n + 1, turns)
<1>1. CASE acc.queue = <<>>
  <2>1. ResolveParent(acc) = acc
    BY <1>1 DEF ResolveParent
  <2> QED
    BY <1>1, <2>1 DEF TurnsLeft
<1>2. CASE acc.queue # <<>>
  <2>1. Working(s, ResolveParent(acc), H, {}) /\ Size(ResolveParent(acc)) = Size(acc) - 1
    BY <1>2, ResolveParentKeeps
  <2>2. Size(acc) \in Nat
    <3>1. Len(acc.queue) \in Nat
        BY EntriesOf DEF Working
    <3>2. Cardinality(DOMAIN acc.sync.orphans) \in Nat
        BY PoolIsFinite DEF Working, Resolving
    <3> QED
        BY <3>1, <3>2 DEF Size
  <2>3. Size(acc) + n <= turns
    BY <1>2 DEF TurnsLeft
  <2>4. Size(ResolveParent(acc)) + (n + 1) <= turns
    BY <2>1, <2>2, <2>3
  <2> QED
    BY <2>1, <2>4 DEF TurnsLeft
<1> QED
    BY <1>1, <1>2

LEMMA ResolveOrphansOfKeeps ==
    ASSUME NEW H, Closed(H), NEW s, NEW hash \in s.dag, Resolving(s, H, {hash}, {})
    PROVE  LET r == ResolveOrphansOf(s, hash)
           IN  Steady(r.sync, H) /\ r.out \in Seq(Action(H)) /\ Adopted(s, r.sync)
<1> DEFINE card == Cardinality(DOMAIN s.orphans)
           turns == card + 1
           start == [sync |-> s, out |-> <<>>, queue |-> <<hash>>]
           r == ResolveOrphansOf(s, hash)
<1>1. card \in Nat /\ turns \in Nat
    BY PoolIsFinite DEF Resolving
<1>2. PICK f : /\ OrphansRun(s, hash, f)
               /\ r = [sync |-> f[turns].sync, out |-> f[turns].out]
    BY <1>1, OrphansRuns
<1>3. Working(s, start, H, {}) /\ TurnsLeft(start, 0, turns)
  <2>1. start.sync = s /\ start.out = <<>> /\ start.queue = <<hash>> /\ DOMAIN start = {"sync", "out", "queue"}
    OBVIOUS
  <2>2. <<hash>> \in Seq(s.dag) /\ Len(<<hash>>) = 1 /\ ToSet(<<hash>>) = {hash}
    <3> DEFINE D == s.dag
    <3>0. hash \in D
        OBVIOUS
    <3> HIDE DEF D
    <3>1. <<hash>> \in Seq(D)
        BY <3>0
    <3>2. Len(<<hash>>) = 1 /\ <<hash>>[1] = hash
        OBVIOUS
    <3>3. ToSet(<<hash>>) = {<<hash>>[i] : i \in 1..Len(<<hash>>)}
        BY <3>1, EntriesOf
    <3>4. \A i \in 1..Len(<<hash>>) : <<hash>>[i] = hash
        BY <3>2
    <3>5. 1 \in 1..Len(<<hash>>)
        BY <3>2
    <3> DEFINE q == <<hash>>
    <3> HIDE DEF q
    <3> QED
        BY <3>1, <3>2, <3>3, <3>4, <3>5 DEF q, D
  <2>3. <<>> \in Seq(Action(H))
    OBVIOUS
  <2>4. Adopted(s, s)
    BY DEF Adopted, Keeps
  <2>5. Size(start) = 1 + card
    BY <2>1, <2>2 DEF Size
  <2> HIDE DEF start
  <2>6. Working(s, start, H, {})
    BY <2>1, <2>2, <2>3, <2>4 DEF Working
  <2> HIDE DEF card
  <2>7. Size(start) + 0 <= turns
    BY <1>1, <2>5
  <2> QED
    BY <2>6, <2>7 DEF TurnsLeft
<1> HIDE DEF start, turns, card, r
<1> DEFINE After(n) == Working(s, f[n], H, {}) /\ TurnsLeft(f[n], n, turns)
           G == {n \in Nat : n <= turns => After(n)}
<1>4. 0 \in G
  <2>1. f[0] = start
    BY <1>1, <1>2 DEF OrphansRun, start, turns, card
  <2> QED
    BY <1>3, <2>1
<1>5. ASSUME NEW n \in Nat, n \in G PROVE n + 1 \in G
  <2> SUFFICES ASSUME n + 1 <= turns PROVE After(n + 1)
    OBVIOUS
  <2>1. n + 1 \in 0..turns /\ n + 1 # 0 /\ (n + 1) - 1 = n /\ n <= turns
    BY <1>1
  <2>2. f[n + 1] = ResolveParent(f[n])
    BY <1>2, <2>1 DEF OrphansRun, turns, card
  <2>3. After(n)
    BY <1>5, <2>1
  <2> QED
    BY <1>1, <2>2, <2>3, NextTurn
<1>6. Nat \subseteq G
  <2> HIDE DEF G
  <2> QED
    BY <1>4, <1>5, Counting
<1>7. After(turns)
  <2> HIDE DEF After
  <2> QED
    BY <1>1, <1>6
<1> DEFINE last == f[turns]
<1>8. Working(s, last, H, {}) /\ TurnsLeft(last, turns, turns)
    BY <1>7
<1>9. r.sync = last.sync /\ r.out = last.out
    BY <1>2
<1> HIDE DEF last
<1>10. last.queue = <<>>
  <2>1. Len(last.queue) \in Nat /\ (Len(last.queue) = 0 => last.queue = <<>>)
    <3> DEFINE q == last.queue
               S == last.sync.dag
    <3>1. q \in Seq(S)
        BY <1>8 DEF Working
    <3> HIDE DEF q, S
    <3>2. Len(q) \in Nat /\ (Len(q) = 0 => q = <<>>)
        BY <3>1
    <3> QED
        BY <3>2 DEF q
  <2>2. Cardinality(DOMAIN last.sync.orphans) \in Nat
    BY <1>8, PoolIsFinite DEF Working, Resolving
  <2> DEFINE a == Len(last.queue)
             b == Cardinality(DOMAIN last.sync.orphans)
  <2>3. last.queue = <<>> \/ (a + b) + turns <= turns
    BY <1>8 DEF TurnsLeft, Size
  <2> HIDE DEF a, b
  <2>4. last.queue = <<>> \/ a = 0
    BY <1>1, <2>1, <2>2, <2>3 DEF a, b
  <2> QED
    BY <2>1, <2>4 DEF a
<1>11. ToSet(last.queue) = {}
    BY <1>10 DEF ToSet
<1>12. Steady(last.sync, H)
    BY <1>8, <1>11 DEF Working, Steady
<1> QED
    BY <1>8, <1>9, <1>12 DEF Working, r

-----------------------------------------------------------------------------
(* A block whose parents are all there joins, and what waited for it.      *)
LEMMA JoinedKeeps ==
    ASSUME NEW H, Closed(H), NEW s, Steady(s, H), NEW hash \in H, NEW exclude,
           hash \notin Held(s), hash \notin DOMAIN s.requested, hash \in s.bodies,
           Parents[hash] \subseteq s.dag
    PROVE  LET r == Joined(s, hash, exclude)
           IN  /\ Result(s, r, H)
               /\ Held(r.sync) = Held(s) \cup {hash}
               /\ r.sync.requested = s.requested /\ r.sync.bodies = s.bodies
               /\ DOMAIN r.sync.orphans \subseteq DOMAIN s.orphans
<1> DEFINE t == [s EXCEPT !.dag = @ \cup {hash}]
           told == Announce(t, hash, exclude)
           u == told.sync
           rest == ResolveOrphansOf(u, hash)
           r == Joined(s, hash, exclude)
           v == rest.sync
<1>1. Machine(s, H) /\ Pool(s, H, {}, {}) /\ Owed(s) /\ Embodied(s)
    BY DEF Steady, Resolving
<1>2. /\ DOMAIN s = Fields
      /\ hash \notin s.dag /\ hash \notin DOMAIN s.orphans /\ hash \in Block
    BY <1>1 DEF Machine, Held, Closed
<1>3. r.sync = v /\ r.out = told.out \o rest.out
    BY DEF Joined, Both
<1>4. /\ DOMAIN t = Fields /\ t.dag = s.dag \cup {hash}
      /\ \A f \in Fields \ {"dag"} : t[f] = s[f]
    BY <1>2 DEF Fields
<1> HIDE DEF t, r
<1>5. /\ t.peers = s.peers /\ t.orphans = s.orphans /\ t.orphan_order = s.orphan_order
      /\ t.waiting_on = s.waiting_on /\ t.requested = s.requested /\ t.bodies = s.bodies
      /\ t.retry_cursor = s.retry_cursor
    BY <1>4 DEF Fields
<1>6. Held(t) = Held(s) \cup {hash} /\ Ready(t) = Ready(s)
    BY <1>4, <1>5 DEF Held, Ready
<1>7. Machine(t, H)
    BY <1>1, <1>4, <1>5 DEF Machine, Peers, Requests
<1>8. Waiting(t, {hash})
    BY <1>1, <1>4, <1>5 DEF Waiting, Pool
<1>9. Noticed(t, {hash}, {})
  <2> SUFFICES ASSUME NEW o \in DOMAIN s.orphans, Parents[o] \subseteq s.dag \cup {hash}
               PROVE  o \in s.waiting_on[hash]
    BY <1>4, <1>5 DEF Noticed
  <2>1. ~ Parents[o] \subseteq s.dag
    BY <1>1 DEF Pool, Noticed
  <2>2. hash \in Parents[o]
    BY <2>1
  <2>3. s.waiting_on[hash] = {q \in DOMAIN s.orphans : hash \in Parents[q]}
    BY <1>1, <1>2 DEF Pool, Waiting
  <2> QED
    BY <2>2, <2>3
<1>10. Pool(t, H, {hash}, {})
  <2>1. \A o \in DOMAIN t.orphans : o \notin t.dag
    BY <1>1, <1>2, <1>4, <1>5 DEF Pool
  <2> QED
    BY <1>1, <1>5, <1>8, <1>9, <2>1 DEF Pool
<1>11. Owed(t) /\ Embodied(t)
    BY <1>1, <1>5, <1>6 DEF Owed, Embodied
<1>12. Resolving(t, H, {hash}, {})
    BY <1>7, <1>10, <1>11 DEF Resolving
<1>13. PeersOnly(t, u) /\ told.out \in Seq(Action(H))
    BY <1>7, AnnounceTells
<1> HIDE DEF told
<1>14. Resolving(u, H, {hash}, {}) /\ Keeps(t, u) /\ Held(u) = Held(t)
    BY <1>12, <1>13, PeersOnlyKeeps
<1>15. u.dag = t.dag /\ u.orphans = t.orphans /\ u.requested = t.requested /\ u.bodies = t.bodies
    BY <1>13 DEF PeersOnly, Fields
<1> HIDE DEF u
<1>16. hash \in u.dag
    BY <1>4, <1>15
<1>17. Steady(v, H) /\ rest.out \in Seq(Action(H)) /\ Adopted(u, v)
    BY <1>14, <1>16, ResolveOrphansOfKeeps
<1> HIDE DEF rest
<1>18. told.out \o rest.out \in Seq(Action(H))
    BY <1>13, <1>17
<1> HIDE DEF v
<1>19. Keeps(s, v)
    BY <1>4, <1>5, <1>6, <1>14, <1>17 DEF Keeps, Adopted
<1>20. Result(s, r, H)
    BY <1>3, <1>17, <1>18, <1>19 DEF Result
<1>21. /\ Held(v) = Held(s) \cup {hash} /\ v.requested = s.requested /\ v.bodies = s.bodies
       /\ DOMAIN v.orphans \subseteq DOMAIN s.orphans
    BY <1>5, <1>6, <1>14, <1>15, <1>17 DEF Adopted
<1> QED
    BY <1>3, <1>20, <1>21 DEF r

-----------------------------------------------------------------------------
(* What every handler of a message does: the machine stays steady, nothing *)
(* it has or has asked for is lost from mind, and a new orphan's parents   *)
(* are had or asked for, as long as one request can name them all.         *)
FewParents == \A b \in Block : Cardinality(Parents[b]) <= MaxInvEntries

Mindful(s, r, H) ==
    Result(s, r, H) /\ Minds(s, r.sync) /\ (FewParents => MindsOrphans(s, r.sync))

LEMMA DoneIsMindful ==
    ASSUME NEW H, NEW s, Steady(s, H)
    PROVE  Mindful(s, Done(s), H)
<1>1. Done(s).sync = s /\ Done(s).out = <<>>
    BY DEF Done
<1>2. <<>> \in Seq(Action(H))
    OBVIOUS
<1> QED
    BY <1>1, <1>2 DEF Mindful, Result, Keeps, Minds, MindsOrphans

LEMMA BothAreMindful ==
    ASSUME NEW H, NEW s, NEW first, Mindful(s, first, H),
           NEW second, Mindful(first.sync, second, H)
    PROVE  Mindful(s, Both(first, second), H)
<1> DEFINE t == first.sync
           u == second.sync
           r == Both(first, second)
<1>1. r.sync = u /\ r.out = first.out \o second.out
    BY DEF Both
<1>2. r.out \in Seq(Action(H))
    BY <1>1 DEF Mindful, Result
<1>3. Keeps(s, t) /\ Keeps(t, u) /\ Minds(s, t) /\ Minds(t, u) /\ Steady(u, H)
    BY DEF Mindful, Result
<1>4. FewParents => MindsOrphans(s, t) /\ MindsOrphans(t, u)
    BY DEF Mindful
<1> HIDE DEF t, u, r
<1>5. Keeps(s, u) /\ Minds(s, u)
    BY <1>3 DEF Keeps, Minds
<1>6. FewParents => MindsOrphans(s, u)
    BY <1>3, <1>4 DEF MindsOrphans, Minds
<1> QED
    BY <1>1, <1>2, <1>3, <1>5, <1>6 DEF Mindful, Result, r

(* A handler that only asks for more, or only notes what a peer knows. *)
LEMMA RequestsAreMindful ==
    ASSUME NEW H, NEW s, NEW r, Result(s, r, H), RequestsOnly(s, r.sync)
    PROVE  Mindful(s, r, H)
BY RequestsOnlyKeeps DEF Mindful

LEMMA PeersOnlyIsMindful ==
    ASSUME NEW H, NEW s, Steady(s, H), NEW r, PeersOnly(s, r.sync), r.out \in Seq(Action(H))
    PROVE  Mindful(s, r, H)
<1>1. Steady(r.sync, H) /\ Keeps(s, r.sync) /\ Minded(r.sync) = Minded(s)
    BY PeersOnlyKeeps DEF Steady
<1>2. r.sync.orphans = s.orphans
    BY DEF PeersOnly, Fields
<1> QED
    BY <1>1, <1>2 DEF Mindful, Result, Minds, MindsOrphans

(* admit: the block joins, or waits and its missing parents are asked for. *)
LEMMA AdmitIsMindful ==
    ASSUME NEW H, Closed(H), NEW s, Steady(s, H), NEW hash \in H, NEW from \in Ready(s),
           hash \notin Held(s), hash \notin DOMAIN s.requested, hash \in s.bodies
    PROVE  Mindful(s, Admit(s, hash, from), H)
<1> DEFINE r == Admit(s, hash, from)
           Complete == Parents[hash] \subseteq s.dag
<1>1. /\ Embodied(s) /\ Genesis \in s.dag /\ hash \in Block /\ Parents[hash] \subseteq H
      /\ hash \notin Parents[hash]
  <2>1. hash \in Block /\ Parents[hash] \subseteq H
    BY DEF Closed
  <2>2. hash \notin Parents[hash]
    BY <2>1, DagSyncAssumption
  <2> QED
    BY <2>1, <2>2 DEF Steady, Resolving, Machine
<1>2. CASE Complete
  <2>1. r = Joined(s, hash, {from})
    BY <1>2 DEF Admit
  <2>2. /\ Result(s, r, H) /\ Held(r.sync) = Held(s) \cup {hash}
        /\ r.sync.requested = s.requested /\ r.sync.bodies = s.bodies
        /\ DOMAIN r.sync.orphans \subseteq DOMAIN s.orphans
    <3>1. Parents[hash] \subseteq s.dag
        BY <1>2
    <3> HIDE DEF r, Complete
    <3> QED
        BY <2>1, <3>1, JoinedKeeps
  <2> HIDE DEF r
  <2>3. Minds(s, r.sync) /\ MindsOrphans(s, r.sync)
    BY <2>2 DEF Minds, Minded, MindsOrphans
  <2> QED
    BY <2>2, <2>3 DEF Mindful, r
<1>3. CASE ~ Complete
  <2> DEFINE t == StoreOrphan(s, hash, from)
             S == Parents[hash] \ Held(s)
             missing == Ascending(S)
             u == r.sync
  <2>1. r = RequestFrom(t, from, missing)
    BY <1>3 DEF Admit
  <2>2. Steady(t, H) /\ Stored(s, t, hash)
    <3>1. ~ Parents[hash] \subseteq s.dag
        BY <1>3
    <3> HIDE DEF r, u, missing, S, Complete
    <3> QED
        BY <3>1, StoreOrphanKeeps
  <2> HIDE DEF r, t
  <2>3. /\ t.dag = s.dag /\ t.peers = s.peers /\ t.requested = s.requested /\ t.bodies = s.bodies
        /\ DOMAIN t.orphans \subseteq DOMAIN s.orphans \cup {hash}
    BY <2>2 DEF Stored
  <2>4. S \in SUBSET H /\ S \cap Held(t) = {}
    BY <1>1, <2>3 DEF Held
  <2>5. missing \in Seq(H) /\ ToSet(missing) = S /\ Len(missing) = Cardinality(S)
    <3> HIDE DEF S
    <3>1. Lists(missing, S)
        BY <2>4, SteadyHashes
    <3> HIDE DEF missing
    <3>2. missing \in Seq(S) /\ ToSet(missing) = S /\ Len(missing) = Cardinality(S)
        BY <3>1 DEF Lists
    <3> QED
        BY <2>4, <3>2
  <2>6. from \in Ready(t) /\ Ready(t) = Ready(s)
    BY <2>3 DEF Ready
  <2> HIDE DEF missing
  <2>7. Asked(t, r, H, missing)
    <3>1. ToSet(missing) \cap Held(t) = {}
        BY <2>4, <2>5
    <3> HIDE DEF S
    <3> QED
        BY <2>1, <2>2, <2>5, <2>6, <3>1, RequestFromAsks
  <2>8. /\ Result(t, r, H) /\ RequestsOnly(t, u)
        /\ Len(missing) <= MaxInvEntries => S \subseteq DOMAIN u.requested
    <3> HIDE DEF S
    <3> QED
        BY <2>5, <2>7 DEF Asked
  <2> HIDE DEF u
  <2>9. /\ Held(u) = Held(t) /\ Ready(u) = Ready(t) /\ u.orphans = t.orphans
        /\ u.bodies = t.bodies /\ u.dag = t.dag /\ u.peers = t.peers /\ Keeps(t, u)
    BY <2>8, RequestsOnlyKeeps
  <2>10. DOMAIN s.requested \subseteq DOMAIN u.requested
    BY <2>3, <2>8 DEF RequestsOnly
  <2>11. Keeps(s, u)
    BY <2>3, <2>6, <2>9 DEF Keeps
  <2>12. Result(s, r, H)
    BY <2>8, <2>11 DEF Result, u
  <2>13. Minds(s, u)
    <3>1. Held(s) \subseteq u.bodies \cup Held(u)
        BY <1>1, <2>3, <2>9 DEF Embodied, Held
    <3> QED
        BY <2>3, <2>9, <2>10, <3>1 DEF Minds, Minded
  <2>14. ASSUME FewParents PROVE MindsOrphans(s, u)
    <3>1. Len(missing) <= MaxInvEntries
      <4>1. Cardinality(Parents[hash]) <= MaxInvEntries /\ MaxInvEntries \in Nat
          BY <1>1, <2>14, DagSyncAssumption DEF FewParents
      <4>2. IsFiniteSet(Parents[hash]) /\ S \subseteq Parents[hash]
          BY <1>1, SteadyHashes
      <4> HIDE DEF S
      <4>3. Cardinality(S) <= Cardinality(Parents[hash])
          BY <4>2, FS_Subset
      <4>4. Cardinality(S) \in Nat /\ Cardinality(Parents[hash]) \in Nat
          BY <4>2, FS_Subset, FS_CardinalityType
      <4> QED
          BY <2>5, <4>1, <4>3, <4>4
    <3>2. S \subseteq DOMAIN u.requested
        BY <2>8, <3>1
    <3>3. Parents[hash] \subseteq Minded(u)
        BY <2>13, <3>2 DEF Minds, Minded
    <3> QED
        BY <2>3, <2>9, <3>3 DEF MindsOrphans
  <2> QED
    BY <2>12, <2>13, <2>14 DEF Mindful, u, r
<1> QED
    BY <1>2, <1>3

(* A block that comes is no longer in flight, and its body is here.        *)
LEMMA OnBlockIsMindful ==
    ASSUME NEW H, Closed(H), NEW s, Steady(s, H), NEW peer \in Ready(s), NEW hash \in H
    PROVE  Mindful(s, OnBlock(s, peer, hash), H)
<1> DEFINE t == [s EXCEPT !.requested = Without(@, {hash})]
           u == NoteKnown(t, peer, {hash})
           v == [u EXCEPT !.bodies = @ \cup {hash}]
           r == OnBlock(s, peer, hash)
<1>1. Machine(s, H) /\ Pool(s, H, {}, {}) /\ Owed(s) /\ Embodied(s) /\ DOMAIN s = Fields
    BY DEF Steady, Resolving, Machine
<1>2. /\ DOMAIN t = Fields /\ \A f \in Fields \ {"requested"} : t[f] = s[f]
      /\ t.requested = Without(s.requested, {hash})
    BY <1>1 DEF Fields
<1>3. r = IF hash \in Held(s) THEN Done(u) ELSE Admit(v, hash, peer)
    BY DEF OnBlock
<1> HIDE DEF t, r
<1>4. /\ DOMAIN t.requested = DOMAIN s.requested \ {hash}
      /\ \A h \in DOMAIN t.requested : t.requested[h] = s.requested[h]
    BY <1>2 DEF Without, Restrict
<1>5. /\ t.dag = s.dag /\ t.peers = s.peers /\ t.orphans = s.orphans
      /\ t.orphan_order = s.orphan_order /\ t.waiting_on = s.waiting_on
      /\ t.bodies = s.bodies /\ t.retry_cursor = s.retry_cursor
    BY <1>2 DEF Fields
<1>6. Held(t) = Held(s) /\ Ready(t) = Ready(s)
    BY <1>5 DEF Held, Ready
<1>7. Machine(t, H)
    BY <1>1, <1>2, <1>4, <1>5 DEF Machine, Peers, Requests
<1>8. Pool(t, H, {}, {}) /\ Owed(t) /\ Embodied(t)
    BY <1>1, <1>4, <1>5, <1>6 DEF Pool, Waiting, Noticed, Owed, Embodied
<1>9. Steady(t, H)
    BY <1>7, <1>8 DEF Steady, Resolving
<1>10. PeersOnly(t, u)
  <2>1. peer \in DOMAIN t.peers
    BY <1>5 DEF Ready
  <2> QED
    BY <1>7, <2>1, NoteKnownIsPeersOnly
<1> HIDE DEF u
<1>11. Steady(u, H) /\ Keeps(t, u) /\ Minded(u) = Minded(t) /\ Held(u) = Held(t)
    BY <1>9, <1>10, PeersOnlyKeeps DEF Steady
<1>12. /\ u.requested = t.requested /\ u.orphans = t.orphans /\ u.bodies = t.bodies
       /\ u.dag = t.dag /\ Ready(t) \subseteq Ready(u) /\ DOMAIN u.peers = DOMAIN s.peers
       /\ DOMAIN u = Fields
    BY <1>5, <1>10 DEF PeersOnly, Fields
<1>13. Keeps(s, u) /\ Minded(s) \subseteq Minded(u) \cup {hash}
    BY <1>4, <1>5, <1>6, <1>11, <1>12 DEF Keeps, Minded
<1>14. CASE hash \in Held(s)
  <2>1. r = Done(u)
    BY <1>3, <1>14
  <2>2. Mindful(u, Done(u), H)
    BY <1>11, DoneIsMindful
  <2>3. r.sync = u /\ Result(u, r, H)
    BY <2>1, <2>2 DEF Done, Mindful
  <2>4. hash \in Minded(u)
    BY <1>6, <1>11, <1>14 DEF Minded
  <2>5. Minds(s, u) /\ MindsOrphans(s, u)
    BY <1>5, <1>12, <1>13, <2>4 DEF Minds, MindsOrphans
  <2> QED
    BY <1>13, <2>3, <2>5 DEF Mindful, Result, r
<1>15. CASE hash \notin Held(s)
  <2>1. /\ DOMAIN v = Fields /\ v.bodies = u.bodies \cup {hash}
        /\ \A f \in Fields \ {"bodies"} : v[f] = u[f]
    BY <1>12 DEF Fields
  <2>2. r = Admit(v, hash, peer)
    BY <1>3, <1>15
  <2> HIDE DEF v
  <2>3. /\ v.dag = u.dag /\ v.peers = u.peers /\ v.orphans = u.orphans
        /\ v.orphan_order = u.orphan_order /\ v.waiting_on = u.waiting_on
        /\ v.requested = u.requested /\ v.retry_cursor = u.retry_cursor
    BY <2>1 DEF Fields
  <2>4. Held(v) = Held(u) /\ Ready(v) = Ready(u)
    BY <2>3 DEF Held, Ready
  <2>5. Machine(u, H) /\ Pool(u, H, {}, {}) /\ Owed(u) /\ Embodied(u)
    BY <1>11 DEF Steady, Resolving
  <2>6. Machine(v, H) /\ Pool(v, H, {}, {})
    BY <2>1, <2>3, <2>5 DEF Machine, Peers, Requests, Pool, Waiting, Noticed
  <2>7. Owed(v) /\ Embodied(v)
    BY <2>1, <2>3, <2>4, <2>5 DEF Owed, Embodied
  <2>8. Steady(v, H)
    BY <2>6, <2>7 DEF Steady, Resolving
  <2>9. Mindful(v, r, H)
    <3>1. /\ peer \in Ready(v) /\ hash \notin Held(v) /\ hash \notin DOMAIN v.requested
          /\ hash \in v.bodies
        BY <1>4, <1>6, <1>11, <1>12, <1>15, <2>1, <2>3, <2>4
    <3> QED
        BY <2>2, <2>8, <3>1, AdmitIsMindful
  <2>10. Keeps(s, v) /\ Minds(s, v) /\ DOMAIN v.orphans = DOMAIN s.orphans
    BY <1>5, <1>12, <1>13, <2>1, <2>3, <2>4 DEF Keeps, Minds, Minded
  <2> DEFINE w == r.sync
  <2>11. Result(v, r, H) /\ Minds(v, w) /\ (FewParents => MindsOrphans(v, w))
    BY <2>9 DEF Mindful
  <2>12. Keeps(s, w)
    BY <2>10, <2>11 DEF Result, Keeps
  <2>13. Minds(s, w)
    BY <2>10, <2>11 DEF Minds
  <2>14. FewParents => MindsOrphans(s, w)
    BY <2>10, <2>11 DEF MindsOrphans
  <2> QED
    BY <2>11, <2>12, <2>13, <2>14 DEF Mindful, Result, r
<1> QED
    BY <1>14, <1>15

-----------------------------------------------------------------------------
(* on_blocks: one block after another.                                     *)
BlocksRun(s, peer, hashes, f) ==
    f = [n \in 0..Len(hashes) |-> IF n = 0 THEN Done(s) ELSE OnNextBlock(f[n - 1], peer, hashes[n])]

LEMMA BlocksRuns ==
    ASSUME NEW s, NEW peer, NEW hashes, Len(hashes) \in Nat
    PROVE  \E f : BlocksRun(s, peer, hashes, f) /\ OnBlocks(s, peer, hashes) = f[Len(hashes)]
<1> DEFINE N == Len(hashes)
           x0 == Done(s)
           To(k, f) == f = [n \in 0..k |-> IF n = 0 THEN x0 ELSE OnNextBlock(f[n - 1], peer, hashes[n])]
           G == {k \in Nat : \E f : To(k, f)}
<1>1. 0 \in G
  <2> DEFINE g == [n \in 0..0 |-> x0]
  <2>1. g = [n \in 0..0 |-> IF n = 0 THEN x0 ELSE OnNextBlock(g[n - 1], peer, hashes[n])]
    OBVIOUS
  <2> QED
    BY <2>1
<1>2. ASSUME NEW k \in Nat, k \in G PROVE k + 1 \in G
  <2>1. PICK f : To(k, f)
    BY <1>2
  <2> DEFINE g == [n \in 0..(k + 1) |-> IF n = 0 THEN x0 ELSE OnNextBlock(f[n - 1], peer, hashes[n])]
  <2>2. \A n \in 0..k : g[n] = f[n]
    BY <2>1
  <2>3. \A n \in 0..(k + 1) : n # 0 => n - 1 \in 0..k
    OBVIOUS
  <2>4. g = [n \in 0..(k + 1) |-> IF n = 0 THEN x0 ELSE OnNextBlock(g[n - 1], peer, hashes[n])]
    <3>1. \A n \in 0..(k + 1) : n # 0 => g[n - 1] = f[n - 1]
        BY <2>2, <2>3
    <3>2. g = [n \in 0..(k + 1) |-> IF n = 0 THEN x0 ELSE OnNextBlock(f[n - 1], peer, hashes[n])]
        OBVIOUS
    <3> HIDE DEF g
    <3> QED
        BY <3>1, <3>2
  <2>5. \E h : To(k + 1, h)
    <3>1. To(k + 1, g)
        BY <2>4
    <3> HIDE DEF g, To
    <3> QED
        BY <3>1
  <2> QED
    BY <2>5
<1>3. \E f : BlocksRun(s, peer, hashes, f)
  <2>1. Nat \subseteq G
    <3> HIDE DEF G
    <3> QED
        BY <1>1, <1>2, Counting
  <2>2. \E f : To(N, f)
    BY <2>1
  <2> QED
    BY <2>2 DEF BlocksRun
<1> DEFINE Run(f) == BlocksRun(s, peer, hashes, f)
           chosen == CHOOSE f : Run(f)
<1>4. Run(chosen)
  <2> HIDE DEF Run
  <2>1. \E f : Run(f)
    BY <1>3 DEF Run
  <2> QED
    BY <2>1
<1>5. OnBlocks(s, peer, hashes) = chosen[Len(hashes)]
    BY DEF OnBlocks, BlocksRun
<1> QED
    BY <1>4, <1>5

LEMMA OnBlocksIsMindful ==
    ASSUME NEW H, Closed(H), NEW s, Steady(s, H), NEW peer \in Ready(s), NEW hashes \in Seq(H)
    PROVE  Mindful(s, OnBlocks(s, peer, hashes), H)
<1> DEFINE N == Len(hashes)
<1>1. N \in Nat /\ \A i \in 1..N : hashes[i] \in H
    BY EntriesOf
<1>2. PICK f : BlocksRun(s, peer, hashes, f) /\ OnBlocks(s, peer, hashes) = f[N]
    BY <1>1, BlocksRuns
<1> DEFINE After(n) == Mindful(s, f[n], H)
           G == {n \in Nat : n <= N => After(n)}
<1>3. 0 \in G
  <2>1. f[0] = Done(s)
    BY <1>1, <1>2 DEF BlocksRun
  <2> QED
    BY <2>1, DoneIsMindful
<1>4. ASSUME NEW n \in Nat, n \in G PROVE n + 1 \in G
  <2> SUFFICES ASSUME n + 1 <= N PROVE After(n + 1)
    OBVIOUS
  <2>1. n + 1 \in 0..N /\ n + 1 \in 1..N /\ n + 1 # 0 /\ (n + 1) - 1 = n /\ n <= N
    BY <1>1
  <2> DEFINE acc == f[n]
             hash == hashes[n + 1]
             next == OnBlock(acc.sync, peer, hash)
  <2>2. f[n + 1] = Both(acc, next)
    BY <1>2, <2>1 DEF BlocksRun, OnNextBlock
  <2>3. Mindful(s, acc, H) /\ hash \in H
    BY <1>1, <1>4, <2>1
  <2> HIDE DEF acc, hash
  <2>4. Steady(acc.sync, H) /\ peer \in Ready(acc.sync)
    BY <2>3 DEF Mindful, Result, Keeps
  <2>5. Mindful(acc.sync, next, H)
    BY <2>3, <2>4, OnBlockIsMindful
  <2> HIDE DEF next
  <2>6. Mindful(s, Both(acc, next), H)
    BY <2>3, <2>5, BothAreMindful
  <2> QED
    BY <2>2, <2>6
<1>5. Nat \subseteq G
  <2> HIDE DEF G
  <2> QED
    BY <1>3, <1>4, Counting
<1>6. After(N)
  <2> HIDE DEF After
  <2> QED
    BY <1>1, <1>5
<1> QED
    BY <1>2, <1>6

MarkReady(s, peer) == [s EXCEPT !.peers[peer].ready = TRUE]

LEMMA MarkReadyIsPeersOnly ==
    ASSUME NEW H, NEW s, Machine(s, H), NEW peer \in DOMAIN s.peers
    PROVE  PeersOnly(s, MarkReady(s, peer)) /\ peer \in Ready(MarkReady(s, peer))
<1> DEFINE t == MarkReady(s, peer)
<1>1. DOMAIN t = Fields /\ \A f \in Fields \ {"peers"} : t[f] = s[f]
    BY DEF Machine, Fields, MarkReady
<1>2. /\ DOMAIN t.peers = DOMAIN s.peers
      /\ \A p \in DOMAIN s.peers \ {peer} : t.peers[p] = s.peers[p]
      /\ t.peers[peer] = [s.peers[peer] EXCEPT !.ready = TRUE]
    BY DEF Machine, Fields, MarkReady
<1>3. DOMAIN t.peers[peer] = {"ready", "known"} /\ t.peers[peer].ready
    BY <1>2 DEF Machine, Peers
<1> HIDE DEF t
<1>4. \A p \in DOMAIN t.peers : DOMAIN t.peers[p] = {"ready", "known"}
    BY <1>2, <1>3 DEF Machine, Peers
<1>5. Ready(s) \subseteq Ready(t) /\ peer \in Ready(t)
    BY <1>2, <1>3 DEF Ready
<1> QED
    BY <1>1, <1>2, <1>4, <1>5 DEF PeersOnly, t

(* What is noted of peers before other things are done.                    *)
LEMMA FirstPeersOnly ==
    ASSUME NEW H, NEW s, Steady(s, H), NEW t, PeersOnly(s, t), NEW r, Mindful(t, r, H)
    PROVE  Mindful(s, r, H)
<1> DEFINE first == [sync |-> t, out |-> <<>>]
           u == r.sync
<1>1. /\ Keeps(s, t) /\ Minded(t) = Minded(s) /\ t.orphans = s.orphans
    BY PeersOnlyKeeps DEF Steady, PeersOnly, Fields
<1>2. Result(t, r, H) /\ Minds(t, u) /\ (FewParents => MindsOrphans(t, u))
    BY DEF Mindful
<1> HIDE DEF u
<1>3. Keeps(s, u) /\ Minds(s, u) /\ (FewParents => MindsOrphans(s, u))
    BY <1>1, <1>2 DEF Keeps, Minds, MindsOrphans, Result, u
<1> QED
    BY <1>2, <1>3 DEF Mindful, Result, u

LEMMA OnVersionIsMindful ==
    ASSUME NEW H, Closed(H), NEW s, Steady(s, H), NEW peer \in DOMAIN s.peers,
           NEW tips \in Seq(H)
    PROVE  Mindful(s, OnVersion(s, peer, tips), H)
<1> DEFINE t == MarkReady(s, peer)
           u == NoteKnown(t, peer, ToSet(tips))
           first == [sync |-> u, out |-> Send(peer, [type |-> "Verack"])]
           asked == RequestUnknown(u, peer, tips)
<1>1. OnVersion(s, peer, tips) = Both(first, asked)
    BY DEF OnVersion, MarkReady
<1>2. Machine(s, H) /\ peer \in Node
    BY DEF Steady, Resolving, Machine, Peers
<1>3. PeersOnly(s, t) /\ peer \in Ready(t)
    BY <1>2, MarkReadyIsPeersOnly
<1> HIDE DEF t
<1>4. Steady(t, H) /\ Machine(t, H) /\ peer \in DOMAIN t.peers
  <2>1. Steady(t, H)
    BY <1>3, PeersOnlyKeeps DEF Steady
  <2> QED
    BY <1>3, <2>1 DEF Steady, Resolving, PeersOnly
<1>5. PeersOnly(t, u)
    BY <1>4, NoteKnownIsPeersOnly
<1> HIDE DEF u
<1>6. Steady(u, H) /\ peer \in Ready(u)
    BY <1>3, <1>4, <1>5, PeersOnlyKeeps DEF Steady, PeersOnly
<1>7. first.sync = u /\ first.out \in Seq(Action(H))
  <2>1. [type |-> "Verack"] \in Message(H)
    BY DEF Message
  <2> QED
    BY <1>2, <2>1, SendSends
<1> HIDE DEF first
<1>8. Mindful(t, first, H)
    BY <1>4, <1>5, <1>7, PeersOnlyIsMindful
<1>9. Mindful(u, asked, H)
  <2>1. Result(u, asked, H) /\ RequestsOnly(u, asked.sync)
    BY <1>6, RequestUnknownAsks
  <2> HIDE DEF asked
  <2> QED
    BY <2>1, RequestsAreMindful
<1> HIDE DEF asked
<1>10. Mindful(t, Both(first, asked), H)
    BY <1>7, <1>8, <1>9, BothAreMindful
<1> QED
    BY <1>1, <1>3, <1>10, FirstPeersOnly

LEMMA OnInvBlocksIsMindful ==
    ASSUME NEW H, Closed(H), NEW s, Steady(s, H), NEW peer \in Ready(s), NEW hashes \in Seq(H)
    PROVE  Mindful(s, OnInvBlocks(s, peer, hashes), H)
<1> DEFINE t == NoteKnown(s, peer, ToSet(hashes))
           r == RequestUnknown(t, peer, hashes)
<1>1. OnInvBlocks(s, peer, hashes) = r
    BY DEF OnInvBlocks
<1>2. Machine(s, H) /\ peer \in DOMAIN s.peers
    BY DEF Steady, Resolving, Ready
<1>3. PeersOnly(s, t)
    BY <1>2, NoteKnownIsPeersOnly
<1> HIDE DEF t
<1>4. Steady(t, H) /\ peer \in Ready(t)
    BY <1>3, PeersOnlyKeeps DEF Steady, PeersOnly
<1>5. Mindful(t, r, H)
  <2>1. Result(t, r, H) /\ RequestsOnly(t, r.sync)
    BY <1>4, RequestUnknownAsks
  <2> HIDE DEF r
  <2> QED
    BY <2>1, RequestsAreMindful
<1> QED
    BY <1>1, <1>3, <1>5, FirstPeersOnly

LEMMA OnGetBlocksIsMindful ==
    ASSUME NEW H, Closed(H), NEW s, Steady(s, H), NEW peer \in Ready(s), NEW hashes \in Seq(H)
    PROVE  Mindful(s, OnGetBlocks(s, peer, hashes), H)
<1> DEFINE first == Take(hashes, MaxBlockBatch)
           blocks == Kept(first, s.dag)
           t == NoteKnown(s, peer, ToSet(blocks))
           message == [type |-> "Blocks", hashes |-> blocks]
           r == OnGetBlocks(s, peer, hashes)
<1>1. Machine(s, H) /\ peer \in DOMAIN s.peers /\ peer \in Node /\ MaxBlockBatch \in Nat
    BY DagSyncAssumption DEF Steady, Resolving, Ready, Machine, Peers
<1>2. first \in Seq(H)
    BY <1>1, TakeTakes
<1> HIDE DEF first
<1>3. blocks \in Seq(H)
    BY <1>2, KeptKeeps
<1>4. r = IF blocks = <<>> THEN Done(s) ELSE [sync |-> t, out |-> Send(peer, message)]
    BY DEF OnGetBlocks, first
<1> HIDE DEF r, blocks
<1>5. CASE blocks = <<>>
    BY <1>4, <1>5, DoneIsMindful DEF r
<1>6. CASE blocks # <<>>
  <2>1. r.sync = t /\ r.out = Send(peer, message)
    BY <1>4, <1>6
  <2>2. message \in Message(H)
    BY <1>3 DEF Message
  <2>3. r.out \in Seq(Action(H))
    BY <1>1, <2>1, <2>2, SendSends
  <2>4. PeersOnly(s, r.sync)
    BY <1>1, <2>1, NoteKnownIsPeersOnly
  <2> QED
    BY <2>3, <2>4, PeersOnlyIsMindful DEF r
<1> QED
    BY <1>5, <1>6

(* on_message, for what a node of the network sends. *)
LEMMA OnMessageIsMindful ==
    ASSUME NEW H, Closed(H), NEW s, Steady(s, H), NEW peer \in DOMAIN s.peers,
           NEW m \in Message(H)
    PROVE  Mindful(s, OnMessage(s, peer, m), H)
<1> DEFINE r == OnMessage(s, peer, m)
<1>1. Machine(s, H) /\ peer \in Node
    BY DEF Steady, Resolving, Machine, Peers
<1>2. /\ m.type \in {"Version", "Tips", "InvBlocks", "GetBlocks", "Blocks", "Verack", "GetTips"}
      /\ m.type \in {"Version", "Tips", "InvBlocks", "GetBlocks", "Blocks"} => m.hashes \in Seq(H)
    BY DEF Message
<1>3. ASSUME NEW reply \in Message(H), r = [sync |-> s, out |-> Send(peer, reply)]
      PROVE  Mindful(s, r, H)
  <2>1. r.sync = s /\ r.out \in Seq(Action(H))
    BY <1>1, <1>3, SendSends
  <2>2. PeersOnly(s, s)
    BY <1>1 DEF PeersOnly, Machine, Peers
  <2> HIDE DEF r
  <2> QED
    BY <2>1, <2>2, PeersOnlyIsMindful
<1>4. CASE ~ s.peers[peer].ready /\ m.type \notin {"Version", "Verack"}
  <2>1. r = [sync |-> s, out |-> Send(peer, Version(s))]
    BY <1>4 DEF OnMessage
  <2>2. Version(s) \in Message(H)
    BY <1>1, TipsAreHeard
  <2> HIDE DEF r
  <2> QED
    BY <1>3, <2>1, <2>2 DEF r
<1>5. CASE m.type = "Version"
  <2>1. r = OnVersion(s, peer, m.hashes)
    BY <1>5 DEF OnMessage
  <2> QED
    BY <1>2, <1>5, <2>1, OnVersionIsMindful
<1>6. CASE m.type = "Verack"
  <2>1. r = Done(MarkReady(s, peer))
    BY <1>6 DEF OnMessage, MarkReady
  <2>2. PeersOnly(s, MarkReady(s, peer))
    BY <1>1, MarkReadyIsPeersOnly
  <2>3. r.sync = MarkReady(s, peer) /\ r.out = <<>>
    BY <2>1 DEF Done
  <2>4. <<>> \in Seq(Action(H))
    OBVIOUS
  <2> HIDE DEF r
  <2> QED
    BY <2>2, <2>3, <2>4, PeersOnlyIsMindful DEF r
<1>7. CASE s.peers[peer].ready /\ m.type \notin {"Version", "Verack"}
  <2>1. peer \in Ready(s)
    BY <1>7 DEF Ready
  <2>2. CASE m.type = "GetTips"
    <3>1. r = [sync |-> s, out |-> Send(peer, [type |-> "Tips", hashes |-> Tips(s)])]
        BY <1>7, <2>2 DEF OnMessage
    <3>2. Tips(s) \in Seq(H)
        BY <1>1, TipsAreHeard
    <3>3. [type |-> "Tips", hashes |-> Tips(s)] \in Message(H)
        BY <3>2 DEF Message
    <3> HIDE DEF r
    <3> QED
        BY <1>3, <3>1, <3>3 DEF r
  <2>3. CASE m.type = "Tips"
    <3>1. r = RequestUnknown(s, peer, m.hashes)
        BY <1>7, <2>3 DEF OnMessage
    <3>2. Result(s, r, H) /\ RequestsOnly(s, r.sync)
        BY <1>2, <2>1, <2>3, <3>1, RequestUnknownAsks
    <3> HIDE DEF r
    <3> QED
        BY <3>2, RequestsAreMindful DEF r
  <2>4. CASE m.type = "InvBlocks"
    <3>1. r = OnInvBlocks(s, peer, m.hashes)
        BY <1>7, <2>4 DEF OnMessage
    <3> QED
        BY <1>2, <2>1, <2>4, <3>1, OnInvBlocksIsMindful
  <2>5. CASE m.type = "GetBlocks"
    <3>1. r = OnGetBlocks(s, peer, m.hashes)
        BY <1>7, <2>5 DEF OnMessage
    <3> QED
        BY <1>2, <2>1, <2>5, <3>1, OnGetBlocksIsMindful
  <2>6. CASE m.type = "Blocks"
    <3>1. r = OnBlocks(s, peer, m.hashes)
        BY <1>7, <2>6 DEF OnMessage
    <3> QED
        BY <1>2, <2>1, <2>6, <3>1, OnBlocksIsMindful
  <2> QED
    BY <1>2, <1>7, <2>2, <2>3, <2>4, <2>5, <2>6
<1> QED
    BY <1>4, <1>5, <1>6, <1>7

-----------------------------------------------------------------------------
(* The rest of a machine whose fields in F only are written.               *)
Else(s, t, F) == DOMAIN t = Fields /\ \A f \in Fields \ F : t[f] = s[f]

(* announce_local_block, of a block that nobody has heard of.              *)
LEMMA OnLocalBlockIsMindful ==
    ASSUME NEW H, Closed(H), NEW s, Steady(s, H), NEW hash \in H,
           hash \notin Held(s), hash \notin DOMAIN s.requested, Parents[hash] \subseteq s.dag
    PROVE  Mindful(s, OnLocalBlock(s, hash), H) /\ hash \in OnLocalBlock(s, hash).sync.dag
<1> DEFINE t == [s EXCEPT !.bodies = @ \cup {hash}]
           r == OnLocalBlock(s, hash)
           u == r.sync
<1>1. Machine(s, H) /\ Pool(s, H, {}, {}) /\ Owed(s) /\ Embodied(s) /\ DOMAIN s = Fields
    BY DEF Steady, Resolving, Machine
<1>2. Else(s, t, {"bodies"}) /\ t.bodies = s.bodies \cup {hash}
    BY <1>1 DEF Fields, Else
<1>3. r = Joined(t, hash, {})
    BY DEF OnLocalBlock
<1> HIDE DEF t, r
<1>4. /\ t.dag = s.dag /\ t.peers = s.peers /\ t.orphans = s.orphans
      /\ t.orphan_order = s.orphan_order /\ t.waiting_on = s.waiting_on
      /\ t.requested = s.requested /\ t.retry_cursor = s.retry_cursor /\ DOMAIN t = Fields
    BY <1>2 DEF Fields, Else
<1>5. Held(t) = Held(s) /\ Ready(t) = Ready(s)
    BY <1>4 DEF Held, Ready
<1>6. Machine(t, H) /\ Pool(t, H, {}, {})
    BY <1>1, <1>4 DEF Machine, Peers, Requests, Pool, Waiting, Noticed
<1>7. Owed(t) /\ Embodied(t)
    BY <1>1, <1>2, <1>4, <1>5 DEF Owed, Embodied
<1>8. Steady(t, H)
    BY <1>6, <1>7 DEF Steady, Resolving
<1>9. /\ Result(t, r, H) /\ Held(u) = Held(t) \cup {hash}
      /\ u.requested = t.requested /\ u.bodies = t.bodies
      /\ DOMAIN u.orphans \subseteq DOMAIN t.orphans
  <2>1. hash \in t.bodies
    BY <1>2
  <2> QED
    BY <1>3, <1>4, <1>5, <1>8, <2>1, JoinedKeeps
<1> HIDE DEF u
<1>10. Keeps(s, u) /\ Minds(s, u) /\ MindsOrphans(s, u)
    BY <1>2, <1>4, <1>5, <1>9 DEF Keeps, Minds, Minded, MindsOrphans, Result, u
<1>11. hash \in u.dag
  <2>1. hash \in Held(u) /\ hash \notin DOMAIN u.orphans
    BY <1>4, <1>9 DEF Held
  <2> QED
    BY <2>1 DEF Held
<1> QED
    BY <1>9, <1>10, <1>11 DEF Mindful, Result, r, u

(* A connection begins: only what is kept of peers changes, and the new    *)
(* one is not ready.                                                       *)
LEMMA OnConnectKeeps ==
    ASSUME NEW H, Closed(H), NEW s, Steady(s, H), NEW peer \in Node, peer \notin DOMAIN s.peers
    PROVE  LET r == OnConnect(s, peer)
           IN  /\ Steady(r.sync, H) /\ r.out \in Seq(Action(H)) /\ Else(s, r.sync, {"peers"})
               /\ DOMAIN r.sync.peers = DOMAIN s.peers \cup {peer}
<1> DEFINE r == OnConnect(s, peer)
           t == r.sync
           new == [p \in {peer} |-> NewPeer]
<1>1. Machine(s, H) /\ Pool(s, H, {}, {}) /\ Owed(s) /\ Embodied(s) /\ DOMAIN s = Fields
    BY DEF Steady, Resolving, Machine
<1>2. r.out \in Seq(Action(H))
    BY <1>1, TipsAreHeard, SendSends DEF OnConnect
<1>3. t = [s EXCEPT !.peers = Over(new, @)]
    BY DEF OnConnect
<1>4. Else(s, t, {"peers"}) /\ t.peers = Over(new, s.peers)
    BY <1>1, <1>3 DEF Fields, Else
<1> HIDE DEF r, t
<1>5. /\ DOMAIN t.peers = DOMAIN s.peers \cup {peer}
      /\ \A p \in DOMAIN s.peers : t.peers[p] = s.peers[p]
      /\ t.peers[peer] = NewPeer
    BY <1>4 DEF Over
<1>6. /\ t.dag = s.dag /\ t.bodies = s.bodies /\ t.orphans = s.orphans
      /\ t.orphan_order = s.orphan_order /\ t.waiting_on = s.waiting_on
      /\ t.requested = s.requested /\ t.retry_cursor = s.retry_cursor /\ DOMAIN t = Fields
    BY <1>4 DEF Fields, Else
<1>7. Held(t) = Held(s) /\ Ready(s) \subseteq Ready(t)
    BY <1>5, <1>6 DEF Held, Ready
<1>8. Peers(t)
  <2>1. DOMAIN NewPeer = {"ready", "known"}
    BY DEF NewPeer
  <2>2. \A p \in DOMAIN t.peers : DOMAIN t.peers[p] = {"ready", "known"}
    BY <1>1, <1>5, <2>1 DEF Machine, Peers
  <2> QED
    BY <1>1, <1>5, <2>2 DEF Machine, Peers
<1>9. Machine(t, H) /\ Pool(t, H, {}, {})
    BY <1>1, <1>6, <1>8 DEF Machine, Requests, Pool, Waiting, Noticed
<1>10. Owed(t) /\ Embodied(t)
    BY <1>1, <1>6, <1>7 DEF Owed, Embodied
<1> QED
    BY <1>2, <1>4, <1>5, <1>9, <1>10 DEF Steady, Resolving, r, t

(* A connection ends: what its peer owed is owed no longer.                *)
LEMMA OnDisconnectKeeps ==
    ASSUME NEW H, Closed(H), NEW s, Steady(s, H), NEW peer \in Node
    PROVE  LET t == OnDisconnect(Retired(s, peer), peer)
           IN  Steady(t, H) /\ t.dag = s.dag
<1> DEFINE u == Retired(s, peer)
           t == OnDisconnect(u, peer)
           lost == {h \in DOMAIN s.requested : s.requested[h].peer = peer}
<1>1. Machine(s, H) /\ Pool(s, H, {}, {}) /\ Owed(s) /\ Embodied(s) /\ DOMAIN s = Fields
    BY DEF Steady, Resolving, Machine
<1>2. Else(s, u, {"orphans"}) /\ DOMAIN u.orphans = DOMAIN s.orphans
    BY <1>1 DEF Fields, Else, Retired
<1> HIDE DEF u
<1>3. /\ u.dag = s.dag /\ u.peers = s.peers /\ u.bodies = s.bodies
      /\ u.orphan_order = s.orphan_order /\ u.waiting_on = s.waiting_on
      /\ u.requested = s.requested /\ u.retry_cursor = s.retry_cursor /\ DOMAIN u = Fields
    BY <1>2 DEF Fields, Else
<1>4. /\ Else(u, t, {"peers", "requested"})
      /\ t.peers = Without(u.peers, {peer})
      /\ t.requested = Without(u.requested, {h \in DOMAIN u.requested : u.requested[h].peer = peer})
    BY <1>3 DEF Fields, Else, OnDisconnect
<1> HIDE DEF t
<1>5. t.requested = Without(s.requested, lost) /\ t.peers = Without(s.peers, {peer})
    BY <1>3, <1>4
<1>6. /\ DOMAIN t.requested = DOMAIN s.requested \ lost
      /\ \A h \in DOMAIN t.requested : t.requested[h] = s.requested[h]
      /\ DOMAIN t.peers = DOMAIN s.peers \ {peer}
      /\ \A p \in DOMAIN t.peers : t.peers[p] = s.peers[p]
    BY <1>5 DEF Without, Restrict
<1>7. /\ t.dag = s.dag /\ t.bodies = s.bodies /\ DOMAIN t.orphans = DOMAIN s.orphans
      /\ t.orphan_order = s.orphan_order /\ t.waiting_on = s.waiting_on
      /\ t.retry_cursor = s.retry_cursor /\ DOMAIN t = Fields
    BY <1>2, <1>3, <1>4 DEF Fields, Else
<1>8. Held(t) = Held(s) /\ Ready(s) \ {peer} \subseteq Ready(t)
    BY <1>6, <1>7 DEF Held, Ready
<1>9. Machine(t, H) /\ Pool(t, H, {}, {})
    BY <1>1, <1>6, <1>7 DEF Machine, Peers, Requests, Pool, Waiting, Noticed
<1>10. Owed(t)
  <2> SUFFICES ASSUME NEW h \in DOMAIN t.requested
               PROVE  h \notin Held(t) /\ t.requested[h].peer \in Ready(t)
    BY DEF Owed
  <2>1. h \in DOMAIN s.requested /\ s.requested[h].peer # peer /\ t.requested[h] = s.requested[h]
    BY <1>6
  <2> QED
    BY <1>1, <1>8, <2>1 DEF Owed
<1>11. Embodied(t)
    BY <1>1, <1>7, <1>8 DEF Embodied
<1> QED
    BY <1>7, <1>9, <1>10, <1>11 DEF Steady, Resolving, t, u

-----------------------------------------------------------------------------
(* on_tick: what has timed out is dealt out among the ready peers.         *)
Cursor(s) == (s.retry_cursor + 1) % CursorPeriod

Bucket(s, stale, k) ==
    LET hashes == Ascending(stale)
    IN  Kept(hashes, {hashes[i] : i \in
                        {j \in 1..Len(hashes) :
                            (Cursor(s) + j - 1) % Len(Ascending(Ready(s))) = k - 1}})

Retries(s, stale) == stale # {} /\ Ascending(Ready(s)) # <<>>

Moved(s) == Done([s EXCEPT !.retry_cursor = Cursor(s)])

AskBucket(acc, s, stale, k) == AskNext(acc, Ascending(Ready(s))[k], Bucket(s, stale, k))

RetryRun(s, stale, f) ==
    f = [n \in 0..Len(Ascending(Ready(s))) |-> IF n = 0 THEN Moved(s) ELSE AskBucket(f[n - 1], s, stale, n)]

LEMMA RetryRuns ==
    ASSUME NEW s, NEW stale, Retries(s, stale), Len(Ascending(Ready(s))) \in Nat
    PROVE  \E f : RetryRun(s, stale, f) /\ Retry(s, stale) = f[Len(Ascending(Ready(s)))]
<1> DEFINE N == Len(Ascending(Ready(s)))
           x0 == Moved(s)
           To(k, f) == f = [n \in 0..k |-> IF n = 0 THEN x0 ELSE AskBucket(f[n - 1], s, stale, n)]
           G == {k \in Nat : \E f : To(k, f)}
<1>1. 0 \in G
  <2> DEFINE g == [n \in 0..0 |-> x0]
  <2>1. g = [n \in 0..0 |-> IF n = 0 THEN x0 ELSE AskBucket(g[n - 1], s, stale, n)]
    OBVIOUS
  <2> QED
    BY <2>1
<1>2. ASSUME NEW k \in Nat, k \in G PROVE k + 1 \in G
  <2>1. PICK f : To(k, f)
    BY <1>2
  <2> DEFINE g == [n \in 0..(k + 1) |-> IF n = 0 THEN x0 ELSE AskBucket(f[n - 1], s, stale, n)]
  <2>2. \A n \in 0..k : g[n] = f[n]
    BY <2>1
  <2>3. \A n \in 0..(k + 1) : n # 0 => n - 1 \in 0..k
    OBVIOUS
  <2>4. g = [n \in 0..(k + 1) |-> IF n = 0 THEN x0 ELSE AskBucket(g[n - 1], s, stale, n)]
    <3>1. \A n \in 0..(k + 1) : n # 0 => g[n - 1] = f[n - 1]
        BY <2>2, <2>3
    <3>2. g = [n \in 0..(k + 1) |-> IF n = 0 THEN x0 ELSE AskBucket(f[n - 1], s, stale, n)]
        OBVIOUS
    <3> HIDE DEF g
    <3> QED
        BY <3>1, <3>2
  <2>5. \E h : To(k + 1, h)
    <3>1. To(k + 1, g)
        BY <2>4
    <3> HIDE DEF g, To
    <3> QED
        BY <3>1
  <2> QED
    BY <2>5
<1>3. \E f : RetryRun(s, stale, f)
  <2>1. Nat \subseteq G
    <3> HIDE DEF G
    <3> QED
        BY <1>1, <1>2, Counting
  <2>2. \E f : To(N, f)
    BY <2>1
  <2> QED
    BY <2>2 DEF RetryRun
<1> DEFINE Run(f) == RetryRun(s, stale, f)
           chosen == CHOOSE f : Run(f)
<1>4. Run(chosen)
  <2> HIDE DEF Run
  <2>1. \E f : Run(f)
    BY <1>3 DEF Run
  <2> QED
    BY <2>1
<1>5. Retry(s, stale) = chosen[Len(Ascending(Ready(s)))]
    BY DEF Retry, Retries, Bucket, Cursor, Moved, AskBucket, RetryRun
<1> QED
    BY <1>4, <1>5

LEMMA Remainders ==
    ASSUME NEW a \in Nat, NEW n \in Nat \ {0}
    PROVE  a % n \in 0..(n - 1)
    OBVIOUS

(* What has been dealt out so far. *)
Dealt(s, acc, H, stale, n) ==
    /\ Result(s, acc, H) /\ RequestsOnly(s, acc.sync)
    /\ Cardinality(stale) <= MaxInvEntries =>
           \A k \in 1..n : ToSet(Bucket(s, stale, k)) \subseteq DOMAIN acc.sync.requested

LEMMA BucketsHold ==
    ASSUME NEW H, Closed(H), NEW s, Machine(s, H), NEW stale \in SUBSET H, Retries(s, stale)
    PROVE  LET n == Len(Ascending(Ready(s)))
           IN  /\ n \in Nat /\ \A i \in 1..n : Ascending(Ready(s))[i] \in Ready(s)
               /\ \A k \in 1..n : /\ Bucket(s, stale, k) \in Seq(H)
                                  /\ ToSet(Bucket(s, stale, k)) \subseteq stale
                                  /\ Len(Bucket(s, stale, k)) <= Cardinality(stale)
               /\ \A h \in stale : \E k \in 1..n : h \in ToSet(Bucket(s, stale, k))
<1> DEFINE ready == Ascending(Ready(s))
           n == Len(ready)
           hashes == Ascending(stale)
           c == Cursor(s)
<1>1. Lists(ready, Ready(s)) /\ Lists(hashes, stale)
  <2>1. Ready(s) \in SUBSET Node
    BY DEF Machine, Peers, Ready
  <2> QED
    BY <2>1, NodeLists, SteadyHashes
<1>2. ready # <<>>
    BY DEF Retries
<1>3. c \in Nat
  <2>1. s.retry_cursor + 1 \in Nat /\ CursorPeriod \in Nat \ {0}
    BY DagSyncAssumption DEF Machine
  <2>2. c \in 0..(CursorPeriod - 1)
    BY <2>1, Remainders DEF Cursor
  <2> HIDE DEF c
  <2> QED
    BY <2>1, <2>2
<1> HIDE DEF ready, hashes, c
<1>4. n \in Nat \ {0} /\ \A i \in 1..n : ready[i] \in Ready(s)
  <2>1. ready \in Seq(Ready(s))
    BY <1>1 DEF Lists
  <2> QED
    BY <1>2, <2>1
<1>5. hashes \in Seq(stale) /\ ToSet(hashes) = stale /\ Len(hashes) = Cardinality(stale)
    BY <1>1 DEF Lists
<1> DEFINE Turn(k) == {hashes[i] : i \in {j \in 1..Len(hashes) : (c + j - 1) % n = k - 1}}
<1>6. \A k \in 1..n : Bucket(s, stale, k) = Kept(hashes, Turn(k))
    BY DEF Bucket, hashes, ready, c
<1> HIDE DEF n
<1>7. ASSUME NEW k \in 1..n
      PROVE  /\ Bucket(s, stale, k) \in Seq(H)
             /\ ToSet(Bucket(s, stale, k)) = stale \cap Turn(k)
             /\ Len(Bucket(s, stale, k)) <= Cardinality(stale)
  <2> DEFINE T == Turn(k)
             b == Kept(hashes, T)
  <2> HIDE DEF T
  <2>1. /\ b \in Seq(stale) /\ ToSet(b) = stale \cap T /\ Len(b) <= Cardinality(stale)
    <3>1. b \in Seq(stale) /\ ToSet(b) = ToSet(hashes) \cap T /\ Len(b) <= Len(hashes)
        BY <1>5, KeptKeeps
    <3> HIDE DEF b
    <3> QED
        BY <1>5, <3>1
  <2> HIDE DEF b
  <2>2. b \in Seq(H)
    BY <2>1
  <2> QED
    BY <1>6, <2>1, <2>2 DEF b, T
<1>8. ASSUME NEW h \in stale PROVE \E k \in 1..n : h \in ToSet(Bucket(s, stale, k))
  <2>1. PICK j \in 1..Len(hashes) : hashes[j] = h
    <3>1. ToSet(hashes) = {hashes[i] : i \in 1..Len(hashes)}
        BY <1>5, EntriesOf
    <3> QED
        BY <1>5, <3>1
  <2> DEFINE a == c + j - 1
             k == (a % n) + 1
  <2>2. a \in Nat
    <3>1. j \in Nat /\ j >= 1
        BY <1>5
    <3> QED
        BY <1>3, <3>1
  <2> HIDE DEF a
  <2>3. a % n \in 0..(n - 1)
    BY <1>4, <2>2, Remainders
  <2>4. k \in 1..n /\ k - 1 = a % n
    BY <1>4, <2>3
  <2> HIDE DEF k
  <2>5. h \in Turn(k)
    BY <2>1, <2>4 DEF a
  <2> HIDE DEF Turn
  <2>6. h \in ToSet(Bucket(s, stale, k))
    BY <1>7, <2>4, <2>5
  <2> QED
    BY <2>4, <2>6
<1> HIDE DEF Turn
<1> QED
    BY <1>4, <1>7, <1>8 DEF n, ready

LEMMA RetryAsks ==
    ASSUME NEW H, Closed(H), NEW s, Steady(s, H),
           NEW stale \in SUBSET H, stale \cap Held(s) = {}, stale # {} => Ready(s) # {}
    PROVE  LET r == Retry(s, stale)
           IN  /\ Steady(r.sync, H) /\ r.out \in Seq(Action(H))
               /\ Keeps(s, r.sync) /\ Minds(s, r.sync) /\ r.sync.orphans = s.orphans
               /\ Cardinality(stale) <= MaxInvEntries => stale \subseteq Minded(r.sync)
<1> DEFINE r == Retry(s, stale)
           t == [s EXCEPT !.retry_cursor = Cursor(s)]
           n == Len(Ascending(Ready(s)))
<1>1. Machine(s, H) /\ Pool(s, H, {}, {}) /\ Owed(s) /\ Embodied(s) /\ DOMAIN s = Fields
    BY DEF Steady, Resolving, Machine
<1>2. CASE ~ Retries(s, stale)
  <2>1. stale = {}
    <3>1. Ready(s) \in SUBSET Node
        BY <1>1 DEF Machine, Peers, Ready
    <3>2. Lists(Ascending(Ready(s)), Ready(s))
        BY <3>1, NodeLists
    <3>3. Ascending(Ready(s)) = <<>> => ToSet(Ascending(Ready(s))) = {}
        BY DEF ToSet
    <3> QED
        BY <1>2, <3>2, <3>3 DEF Retries, Lists
  <2>2. r = Done(s)
    BY <2>1 DEF Retry
  <2>3. r.sync = s /\ r.out = <<>>
    BY <2>2 DEF Done
  <2>4. <<>> \in Seq(Action(H))
    OBVIOUS
  <2>5. Keeps(s, s) /\ Minds(s, s)
    BY DEF Keeps, Minds
  <2> HIDE DEF r
  <2> QED
    BY <2>1, <2>3, <2>4, <2>5 DEF r
<1>3. CASE Retries(s, stale)
  <2>1. /\ n \in Nat /\ \A i \in 1..n : Ascending(Ready(s))[i] \in Ready(s)
        /\ \A k \in 1..n : /\ Bucket(s, stale, k) \in Seq(H)
                           /\ ToSet(Bucket(s, stale, k)) \subseteq stale
                           /\ Len(Bucket(s, stale, k)) <= Cardinality(stale)
        /\ \A h \in stale : \E k \in 1..n : h \in ToSet(Bucket(s, stale, k))
    BY <1>1, <1>3, BucketsHold
  <2>2. PICK f : RetryRun(s, stale, f) /\ r = f[n]
    BY <1>3, <2>1, RetryRuns
  <2>3. Else(s, t, {"retry_cursor"}) /\ t.retry_cursor = Cursor(s)
    BY <1>1 DEF Fields, Else
  <2> HIDE DEF t, r
  <2>4. /\ t.dag = s.dag /\ t.peers = s.peers /\ t.bodies = s.bodies /\ t.orphans = s.orphans
        /\ t.orphan_order = s.orphan_order /\ t.waiting_on = s.waiting_on
        /\ t.requested = s.requested /\ DOMAIN t = Fields
    BY <2>3 DEF Fields, Else
  <2>5. Held(t) = Held(s) /\ Ready(t) = Ready(s)
    BY <2>4 DEF Held, Ready
  <2>6. Cursor(s) \in Nat
    <3>1. s.retry_cursor + 1 \in Nat /\ CursorPeriod \in Nat \ {0}
        BY <1>1, DagSyncAssumption DEF Machine
    <3>2. Cursor(s) \in 0..(CursorPeriod - 1)
        BY <3>1, Remainders DEF Cursor
    <3> QED
        BY <3>1, <3>2
  <2>7. Machine(t, H) /\ Pool(t, H, {}, {})
    BY <1>1, <2>3, <2>4, <2>6 DEF Machine, Peers, Requests, Pool, Waiting, Noticed
  <2>8. Owed(t) /\ Embodied(t)
    BY <1>1, <2>4, <2>5 DEF Owed, Embodied
  <2>9. Steady(t, H)
    BY <2>7, <2>8 DEF Steady, Resolving
  <2> HIDE DEF n
  <2> DEFINE Few == Cardinality(stale) <= MaxInvEntries
             Had(acc, k) == \A j \in 1..k : ToSet(Bucket(s, stale, j)) \subseteq DOMAIN acc.sync.requested
             After(k) == /\ Result(t, f[k], H) /\ RequestsOnly(t, f[k].sync)
                         /\ Few => Had(f[k], k)
             G == {k \in Nat : k <= n => After(k)}
  <2>10. 0 \in G
    <3>1. f[0] = Done(t)
        BY <2>1, <2>2 DEF RetryRun, Moved, n, t
    <3>2. Mindful(t, Done(t), H) /\ RequestsOnly(t, Done(t).sync)
        BY <2>4, <2>9, DoneIsMindful DEF RequestsOnly, Done
    <3>3. Had(f[0], 0)
        OBVIOUS
    <3> HIDE DEF Had
    <3> QED
        BY <3>1, <3>2, <3>3 DEF Mindful
  <2>11. ASSUME NEW k \in Nat, k \in G PROVE k + 1 \in G
    <3> SUFFICES ASSUME k + 1 <= n PROVE After(k + 1)
        OBVIOUS
    <3>1. /\ k + 1 \in 0..n /\ k + 1 \in 1..n /\ k + 1 # 0 /\ (k + 1) - 1 = k /\ k <= n
        BY <2>1
    <3> DEFINE acc == f[k]
               peer == Ascending(Ready(s))[k + 1]
               hashes == Bucket(s, stale, k + 1)
               next == RequestFrom(acc.sync, peer, hashes)
               new == f[k + 1]
    <3>2. new = Both(acc, next)
        BY <2>2, <3>1 DEF RetryRun, AskBucket, AskNext, n
    <3>3. Result(t, acc, H) /\ RequestsOnly(t, acc.sync) /\ (Few => Had(acc, k))
        BY <2>11, <3>1
    <3>4. /\ peer \in Ready(s) /\ hashes \in Seq(H) /\ ToSet(hashes) \subseteq stale
          /\ Len(hashes) <= Cardinality(stale)
        BY <2>1, <3>1
    <3> HIDE DEF acc, peer, new
    <3>5. Steady(acc.sync, H) /\ Held(acc.sync) = Held(s) /\ Ready(acc.sync) = Ready(s)
        BY <2>5, <3>3, RequestsOnlyKeeps DEF Result
    <3>6. ToSet(hashes) \cap Held(acc.sync) = {}
        BY <3>4, <3>5
    <3> HIDE DEF hashes
    <3>7. Asked(acc.sync, next, H, hashes)
        BY <3>4, <3>5, <3>6, RequestFromAsks
    <3> HIDE DEF next
    <3>8. /\ Result(acc.sync, next, H) /\ RequestsOnly(acc.sync, next.sync)
          /\ Len(hashes) <= MaxInvEntries => ToSet(hashes) \subseteq DOMAIN next.sync.requested
        BY <3>7 DEF Asked
    <3>9. new.sync = next.sync /\ new.out = acc.out \o next.out
        BY <3>2 DEF Both
    <3>10. new.out \in Seq(Action(H))
        BY <3>3, <3>8, <3>9 DEF Result
    <3>11. Keeps(t, new.sync)
        BY <3>3, <3>8, <3>9 DEF Result, Keeps
    <3>12. RequestsOnly(t, new.sync)
        BY <3>3, <3>8, <3>9 DEF RequestsOnly
    <3>13. Result(t, new, H)
        BY <3>8, <3>9, <3>10, <3>11 DEF Result
    <3>14. ASSUME Few PROVE Had(new, k + 1)
      <4> SUFFICES ASSUME NEW j \in 1..(k + 1)
                   PROVE  ToSet(Bucket(s, stale, j)) \subseteq DOMAIN new.sync.requested
          OBVIOUS
      <4>1. CASE j \in 1..k
        <5>1. ToSet(Bucket(s, stale, j)) \subseteq DOMAIN acc.sync.requested
            BY <3>3, <3>14, <4>1
        <5>2. DOMAIN acc.sync.requested \subseteq DOMAIN new.sync.requested
            BY <3>8, <3>9 DEF RequestsOnly
        <5> QED
            BY <5>1, <5>2
      <4>2. CASE j = k + 1
        <5>1. Len(hashes) <= MaxInvEntries
          <6>1. Len(hashes) \in Nat /\ Cardinality(stale) \in Nat /\ MaxInvEntries \in Nat
              BY <3>4, SteadyHashes, FS_CardinalityType, DagSyncAssumption
          <6>2. Cardinality(stale) <= MaxInvEntries
              BY <3>14
          <6> QED
              BY <3>4, <6>1, <6>2
        <5> QED
            BY <3>8, <3>9, <4>2, <5>1 DEF hashes
      <4> QED
          BY <4>1, <4>2
    <3> HIDE DEF Had
    <3> QED
        BY <3>12, <3>13, <3>14 DEF new
  <2>12. Nat \subseteq G
    <3> HIDE DEF G
    <3> QED
        BY <2>10, <2>11, Counting
  <2>13. After(n)
    <3> HIDE DEF After
    <3>1. n <= n
        BY <2>1
    <3> QED
        BY <2>1, <2>12, <3>1
  <2> DEFINE u == r.sync
  <2>14. Result(t, r, H) /\ RequestsOnly(t, u) /\ (Few => Had(r, n))
    <3> HIDE DEF Had
    <3> QED
        BY <2>2, <2>13
  <2> HIDE DEF u
  <2>15. Keeps(t, u) /\ Minds(t, u) /\ u.orphans = t.orphans
    BY <2>14, RequestsOnlyKeeps
  <2>16. Keeps(s, u) /\ Minds(s, u) /\ u.orphans = s.orphans
    BY <2>4, <2>5, <2>15 DEF Keeps, Minds, Minded
  <2>17. ASSUME Few PROVE stale \subseteq Minded(u)
    <3> SUFFICES ASSUME NEW h \in stale PROVE h \in DOMAIN u.requested
        BY DEF Minded
    <3>1. PICK k \in 1..n : h \in ToSet(Bucket(s, stale, k))
        BY <2>1
    <3>2. ToSet(Bucket(s, stale, k)) \subseteq DOMAIN r.sync.requested
        BY <2>14, <2>17
    <3> QED
        BY <3>1, <3>2 DEF u
  <2> QED
    BY <2>14, <2>16, <2>17 DEF Result, u, r
<1> QED
    BY <1>2, <1>3

LEMMA ReleasedKeeps ==
    ASSUME NEW H, NEW s, Steady(s, H), NEW stale \in SUBSET DOMAIN s.requested
    PROVE  LET t == Released(s, stale)
           IN  /\ Steady(t, H) /\ Else(s, t, {"requested"})
               /\ DOMAIN t.requested = DOMAIN s.requested \ stale
<1> DEFINE young == [h \in DOMAIN s.requested \ stale |-> [s.requested[h] EXCEPT !.ticked = TRUE]]
           t == Released(s, stale)
<1>1. Machine(s, H) /\ Pool(s, H, {}, {}) /\ Owed(s) /\ Embodied(s) /\ DOMAIN s = Fields
    BY DEF Steady, Resolving, Machine
<1>2. t = [s EXCEPT !.requested = young]
    BY DEF Released
<1>3. /\ DOMAIN young = DOMAIN s.requested \ stale
      /\ \A h \in DOMAIN young : /\ young[h] \in [peer : Node, ticked : BOOLEAN]
                                 /\ young[h].peer = s.requested[h].peer
  <2>1. \A h \in DOMAIN s.requested : s.requested[h] \in [peer : Node, ticked : BOOLEAN]
    BY <1>1 DEF Machine, Requests
  <2> QED
    BY <2>1
<1> HIDE DEF young, t
<1>4. Else(s, t, {"requested"}) /\ t.requested = young
    BY <1>1, <1>2 DEF Fields, Else
<1>5. /\ t.dag = s.dag /\ t.peers = s.peers /\ t.bodies = s.bodies /\ t.orphans = s.orphans
      /\ t.orphan_order = s.orphan_order /\ t.waiting_on = s.waiting_on
      /\ t.retry_cursor = s.retry_cursor /\ DOMAIN t = Fields
    BY <1>4 DEF Fields, Else
<1>6. Held(t) = Held(s) /\ Ready(t) = Ready(s)
    BY <1>5 DEF Held, Ready
<1>7. Requests(t, H)
    BY <1>1, <1>3, <1>4 DEF Machine, Requests
<1>8. Machine(t, H) /\ Pool(t, H, {}, {})
    BY <1>1, <1>5, <1>7 DEF Machine, Peers, Pool, Waiting, Noticed
<1>9. Owed(t) /\ Embodied(t)
    BY <1>1, <1>3, <1>4, <1>5, <1>6 DEF Owed, Embodied
<1> QED
    BY <1>3, <1>4, <1>8, <1>9 DEF Steady, Resolving, t

(* A tick forgets nothing that one request can ask for again.              *)
LEMMA OnTickKeeps ==
    ASSUME NEW H, Closed(H), NEW s, Steady(s, H), NEW stale \in SUBSET DOMAIN s.requested
    PROVE  LET r == OnTick(s, stale)
           IN  /\ Result(s, r, H) /\ r.sync.orphans = s.orphans
               /\ Cardinality(DOMAIN s.requested) <= MaxInvEntries => Minds(s, r.sync)
<1> DEFINE t == Released(s, stale)
           retried == Retry(t, stale)
           u == retried.sync
           r == OnTick(s, stale)
           Few == Cardinality(DOMAIN s.requested) <= MaxInvEntries
           hello == ToEach(DOMAIN s.peers \ Ready(s), Version(s))
           ask == ToEach(Ready(s), [type |-> "GetTips"])
<1>1. Machine(s, H) /\ Owed(s) /\ DOMAIN s.requested \subseteq H /\ DOMAIN s.peers \subseteq Node
    BY DEF Steady, Resolving, Machine, Requests, Peers
<1>2. /\ Steady(t, H) /\ Else(s, t, {"requested"})
      /\ DOMAIN t.requested = DOMAIN s.requested \ stale
    BY ReleasedKeeps
<1>3. r.sync = u /\ r.out = hello \o retried.out \o ask
    BY DEF OnTick
<1> HIDE DEF t, r
<1>4. /\ t.dag = s.dag /\ t.peers = s.peers /\ t.bodies = s.bodies /\ t.orphans = s.orphans
    BY <1>2 DEF Fields, Else
<1>5. Held(t) = Held(s) /\ Ready(t) = Ready(s)
    BY <1>4 DEF Held, Ready
<1>6. stale \in SUBSET H /\ stale \cap Held(t) = {} /\ (stale # {} => Ready(t) # {})
    BY <1>1, <1>5 DEF Owed
<1>7. /\ Steady(u, H) /\ retried.out \in Seq(Action(H))
      /\ Keeps(t, u) /\ Minds(t, u) /\ u.orphans = t.orphans
      /\ Cardinality(stale) <= MaxInvEntries => stale \subseteq Minded(u)
    BY <1>2, <1>6, RetryAsks
<1> HIDE DEF retried
<1>8. hello \in Seq(Action(H)) /\ ask \in Seq(Action(H))
  <2>1. Version(s) \in Message(H) /\ [type |-> "GetTips"] \in Message(H)
    BY <1>1, TipsAreHeard DEF Message
  <2>2. DOMAIN s.peers \ Ready(s) \in SUBSET Node /\ Ready(s) \in SUBSET Node
    BY <1>1 DEF Ready
  <2> QED
    BY <2>1, <2>2, ToEachSends
<1> HIDE DEF hello, ask
<1>9. r.out \in Seq(Action(H))
  <2>1. hello \o retried.out \in Seq(Action(H))
    BY <1>7, <1>8
  <2> QED
    BY <1>3, <1>8, <2>1
<1> HIDE DEF u
<1>10. Keeps(s, u)
    BY <1>4, <1>5, <1>7 DEF Keeps
<1>11. ASSUME Few PROVE Minds(s, u)
  <2>1. Cardinality(stale) <= MaxInvEntries
    <3>1. IsFiniteSet(DOMAIN s.requested)
        BY <1>1, SteadyHashes
    <3>2. Cardinality(stale) <= Cardinality(DOMAIN s.requested) /\ IsFiniteSet(stale)
        BY <3>1, FS_Subset
    <3>3. Cardinality(stale) \in Nat /\ Cardinality(DOMAIN s.requested) \in Nat /\ MaxInvEntries \in Nat
        BY <3>1, <3>2, FS_CardinalityType, DagSyncAssumption
    <3> QED
        BY <1>11, <3>2, <3>3
  <2> QED
    BY <1>2, <1>4, <1>5, <1>7, <2>1 DEF Minds, Minded
<1> QED
    BY <1>3, <1>4, <1>7, <1>9, <1>10, <1>11 DEF Result, r

-----------------------------------------------------------------------------
(* The network.  What has been heard of is what has been found: a block is *)
(* in its finder's DAG before anybody else learns of it.                   *)
FoundIn(machines) == {b \in Block : b = Genesis \/ b \in machines[MinedBy[b]].dag}

Sound(machines, channels) ==
    /\ DOMAIN machines = Node
    /\ \A i \in Node : Steady(machines[i], FoundIn(machines))
    /\ channels \in [Node -> [Node -> Seq(Message(FoundIn(machines)))]]

LEMMA FoundIsClosed ==
    ASSUME NEW machines, NEW channels, Sound(machines, channels)
    PROVE  /\ Closed(FoundIn(machines))
           /\ \A i \in Node : machines[i].dag \subseteq FoundIn(machines)
<1>1. \A i \in Node : /\ machines[i].dag \subseteq FoundIn(machines)
                      /\ \A b \in machines[i].dag : Parents[b] \subseteq machines[i].dag
    BY DEF Sound, Steady, Resolving, Machine
<1>2. ASSUME NEW b \in FoundIn(machines) PROVE Parents[b] \subseteq FoundIn(machines)
  <2>1. CASE b = Genesis
    BY <2>1, DagSyncAssumption
  <2>2. CASE b # Genesis
    <3>1. b \in Block /\ b \in machines[MinedBy[b]].dag
        BY <2>2 DEF FoundIn
    <3>2. MinedBy[b] \in Node
        BY <3>1, NetworkAssumption
    <3> QED
        BY <1>1, <3>1, <3>2
  <2> QED
    BY <2>1, <2>2
<1>3. FoundIn(machines) \subseteq Block /\ Genesis \in FoundIn(machines)
    BY DagSyncAssumption DEF FoundIn
<1> QED
    BY <1>1, <1>2, <1>3 DEF Closed

(* What is true of a machine stays true as more blocks are found. *)
LEMMA SteadyGrows ==
    ASSUME NEW G, NEW H, G \subseteq H, NEW s, Steady(s, G)
    PROVE  Steady(s, H)
<1>1. Machine(s, G) /\ Pool(s, G, {}, {}) /\ Owed(s) /\ Embodied(s)
    BY DEF Steady, Resolving
<1>2. Machine(s, H)
    BY <1>1 DEF Machine, Requests
<1>3. s.waiting_on \in [Block -> SUBSET H]
  <2>1. s.waiting_on \in [Block -> SUBSET G]
    BY <1>1 DEF Pool
  <2> QED
    BY <2>1
<1>4. Pool(s, H, {}, {})
    BY <1>1, <1>3 DEF Pool
<1> QED
    BY <1>1, <1>2, <1>4 DEF Steady, Resolving

LEMMA SeqGrows ==
    ASSUME NEW S, NEW T, S \subseteq T, NEW seq \in Seq(S)
    PROVE  seq \in Seq(T)
    OBVIOUS

LEMMA MessagesGrow ==
    ASSUME NEW G, NEW H, G \subseteq H
    PROVE  \A seq \in Seq(Message(G)) : seq \in Seq(Message(H))
<1>1. ASSUME NEW m \in Message(G) PROVE m \in Message(H)
  <2>1. CASE m \in [type : {"Verack", "GetTips"}]
    BY <2>1 DEF Message
  <2>2. CASE m \in [type : {"Version", "Tips", "InvBlocks", "GetBlocks", "Blocks"}, hashes : Seq(G)]
    <3>1. m.hashes \in Seq(G)
        BY <2>2
    <3>2. m.hashes \in Seq(H)
        BY <3>1, SeqGrows
    <3>3. m \in [type : {"Version", "Tips", "InvBlocks", "GetBlocks", "Blocks"}, hashes : Seq(H)]
        BY <2>2, <3>2
    <3> QED
        BY <3>3 DEF Message
  <2> QED
    BY <2>1, <2>2 DEF Message
<1>2. Message(G) \subseteq Message(H)
    BY <1>1
<1> QED
    BY <1>2, SeqGrows

(* Steady machines and such channels, for what has been found by now. *)
LEMMA SoundStep ==
    ASSUME NEW machines, DOMAIN machines = Node, NEW H, H \subseteq FoundIn(machines),
           \A i \in Node : Steady(machines[i], H),
           NEW channels \in [Node -> [Node -> Seq(Message(H))]]
    PROVE  Sound(machines, channels)
<1> DEFINE F == FoundIn(machines)
<1> HIDE DEF F
<1>0. H \subseteq F
    BY DEF F
<1>1. \A i \in Node : Steady(machines[i], F)
    BY <1>0, SteadyGrows
<1>2. \A seq \in Seq(Message(H)) : seq \in Seq(Message(F))
    BY <1>0, MessagesGrow
<1>3. channels \in [Node -> [Node -> Seq(Message(F))]]
  <2> DEFINE A == Seq(Message(H))
             B == Seq(Message(F))
  <2>1. A \subseteq B /\ channels \in [Node -> [Node -> A]]
    BY <1>2
  <2> HIDE DEF A, B
  <2>2. channels \in [Node -> [Node -> B]]
    BY <2>1
  <2> QED
    BY <2>2 DEF B
<1> QED
    BY <1>1, <1>3 DEF Sound, F

LEMMA QueuedAdds ==
    ASSUME NEW H, NEW i, NEW senders, NEW out \in Seq(Action(H)),
           NEW channels \in [Node -> Seq(Message(H))]
    PROVE  Queued(i, senders, channels, out) \in [Node -> Seq(Message(H))]
<1> DEFINE own(j) == Kept(out, {action \in ToSet(out) : action.peer = j /\ j \in senders})
           sent(j) == [n \in 1..Len(own(j)) |-> own(j)[n].message]
<1>1. ASSUME NEW j \in Node PROVE channels[j] \o sent(j) \in Seq(Message(H))
  <2> DEFINE q == own(j)
  <2>1. q \in Seq(Action(H))
    BY KeptKeeps
  <2> HIDE DEF q
  <2>2. Len(q) \in Nat /\ \A n \in 1..Len(q) : q[n].message \in Message(H)
    <3> DEFINE A == Action(H)
    <3>1. \A a \in A : a.message \in Message(H)
        BY DEF Action
    <3>2. q \in Seq(A)
        BY <2>1
    <3> HIDE DEF A
    <3>3. Len(q) \in Nat /\ \A n \in 1..Len(q) : q[n] \in A
        BY <3>2
    <3> QED
        BY <3>1, <3>3
  <2> DEFINE t == [n \in 1..Len(q) |-> q[n].message]
             M == Message(H)
  <2>3. \A n \in 1..Len(q) : q[n].message \in M
    BY <2>2
  <2> HIDE DEF M
  <2>4. t \in Seq(M)
    BY <2>2, <2>3
  <2>5. sent(j) = t
    BY DEF q
  <2> HIDE DEF t
  <2>6. channels[j] \in Seq(M)
    BY DEF M
  <2>7. channels[j] \o t \in Seq(M)
    BY <2>4, <2>6
  <2> HIDE DEF sent
  <2> QED
    BY <2>5, <2>7 DEF M
<1>2. Queued(i, senders, channels, out) = [j \in Node |-> channels[j] \o sent(j)]
    BY DEF Queued
<1> HIDE DEF sent, own
<1> QED
    BY <1>1, <1>2

(* A handler has run on node i. *)
LEMMA HandledIsSound ==
    ASSUME NEW machines, NEW channels, Sound(machines, channels), NEW i \in Node,
           NEW H, FoundIn(machines) \subseteq H, H \subseteq Block,
           NEW r, Result(machines[i], r, H),
           \A b \in H \ FoundIn(machines) : MinedBy[b] = i /\ b \in r.sync.dag,
           NEW read \in [Node -> [Node -> Seq(Message(H))]], NEW senders
    PROVE  Sound([machines EXCEPT ![i] = r.sync],
                 [read EXCEPT ![i] = Queued(i, senders, @, r.out)])
<1> DEFINE ms == [machines EXCEPT ![i] = r.sync]
           cs == [read EXCEPT ![i] = Queued(i, senders, @, r.out)]
<1>1. /\ DOMAIN machines = Node /\ Steady(r.sync, H) /\ r.out \in Seq(Action(H))
      /\ machines[i].dag \subseteq r.sync.dag
    BY DEF Sound, Result, Keeps
<1>2. DOMAIN ms = Node /\ ms[i] = r.sync /\ \A k \in Node \ {i} : ms[k] = machines[k]
    BY <1>1
<1> HIDE DEF ms
<1>3. \A k \in Node : machines[k].dag \subseteq ms[k].dag
    BY <1>1, <1>2
<1>4. H \subseteq FoundIn(ms)
  <2> SUFFICES ASSUME NEW b \in H PROVE b \in FoundIn(ms)
    OBVIOUS
  <2>1. b \in Block /\ MinedBy[b] \in Node
    BY NetworkAssumption
  <2>2. CASE b \in FoundIn(machines)
    BY <1>3, <2>1, <2>2 DEF FoundIn
  <2>3. CASE b \notin FoundIn(machines)
    BY <1>2, <2>1, <2>3 DEF FoundIn
  <2> QED
    BY <2>2, <2>3
<1>5. \A k \in Node : Steady(ms[k], H)
  <2>1. \A k \in Node : Steady(machines[k], H)
    BY SteadyGrows DEF Sound
  <2> QED
    BY <1>1, <1>2, <2>1
<1>6. cs \in [Node -> [Node -> Seq(Message(H))]]
  <2> DEFINE Q == Queued(i, senders, read[i], r.out)
             S == [Node -> Seq(Message(H))]
  <2>1. Q \in S
    BY <1>1, QueuedAdds
  <2>2. cs = [read EXCEPT ![i] = Q]
    OBVIOUS
  <2>3. read \in [Node -> S]
    OBVIOUS
  <2> HIDE DEF Q, S, cs
  <2>4. cs \in [Node -> S]
    BY <2>1, <2>2, <2>3
  <2> QED
    BY <2>4 DEF S
<1> HIDE DEF cs
<1>7. Sound(ms, cs)
    BY <1>2, <1>4, <1>5, <1>6, SoundStep
<1> QED
    BY <1>7 DEF ms, cs

-----------------------------------------------------------------------------
(* Each step of the network keeps it sound. *)
NetInv == Sound(sync, wire)

LEMMA NewSyncIsSteady == Steady(NewSync, {Genesis})
<1> DEFINE s == NewSync
           H == {Genesis}
<1>1. /\ DOMAIN s = Fields /\ s.dag = {Genesis} /\ s.peers = <<>> /\ s.orphans = <<>>
      /\ s.orphan_order = <<>> /\ s.waiting_on = [b \in Block |-> {}] /\ s.requested = <<>>
      /\ s.bodies = {} /\ s.retry_cursor = 0
    BY DEF NewSync, Fields
<1> HIDE DEF s
<1>2. DOMAIN s.peers = {} /\ DOMAIN s.orphans = {} /\ DOMAIN s.requested = {}
  <2>1. \A f : f = <<>> => DOMAIN f = {}
    OBVIOUS
  <2> QED
    BY <1>1, <2>1
<1>3. Machine(s, H)
  <2>1. Peers(s) /\ Requests(s, H)
    BY <1>2 DEF Peers, Requests
  <2> QED
    BY <1>1, <2>1, DagSyncAssumption DEF Machine
<1>4. Lists(s.orphan_order, DOMAIN s.orphans)
  <2>1. <<>> \in Seq({}) /\ Len(<<>>) = 0
    OBVIOUS
  <2>2. ToSet(<<>>) = {} /\ Distinct(<<>>)
    BY <2>1 DEF ToSet, Distinct
  <2>3. Cardinality({}) = 0
    BY FS_EmptySet
  <2> QED
    BY <1>1, <1>2, <2>1, <2>2, <2>3 DEF Lists
<1>5. Pool(s, H, {}, {})
  <2>1. Cardinality(DOMAIN s.orphans) <= MaxOrphans
    BY <1>2, FS_EmptySet, DagSyncAssumption
  <2>2. Waiting(s, {}) /\ Noticed(s, {}, {})
    BY <1>1, <1>2 DEF Waiting, Noticed
  <2>3. s.waiting_on \in [Block -> SUBSET H]
    BY <1>1
  <2> QED
    BY <1>2, <1>4, <2>1, <2>2, <2>3 DEF Pool
<1>6. Owed(s) /\ Embodied(s)
    BY <1>1, <1>2 DEF Owed, Embodied, Held
<1> QED
    BY <1>3, <1>5, <1>6 DEF Steady, Resolving, s

LEMMA InitIsSound == Init => NetInv
<1> SUFFICES ASSUME Init PROVE NetInv
    OBVIOUS
<1> DEFINE H == {Genesis}
<1>1. sync = [i \in Node |-> NewSync] /\ wire = [i \in Node |-> [j \in Node |-> <<>>]]
    BY DEF Init
<1>2. H \subseteq FoundIn(sync)
    BY DagSyncAssumption DEF FoundIn
<1>3. \A i \in Node : Steady(sync[i], H)
    BY <1>1, NewSyncIsSteady
<1>4. wire \in [Node -> [Node -> Seq(Message(H))]]
  <2>1. <<>> \in Seq(Message(H))
    OBVIOUS
  <2> QED
    BY <1>1, <2>1
<1>5. DOMAIN sync = Node
    BY <1>1
<1> HIDE DEF H
<1> QED
    BY <1>2, <1>3, <1>4, <1>5, SoundStep DEF NetInv

(* What i and j queue for each other when they connect. *)
LEMMA ConnectIsSound ==
    ASSUME NetInv, NEW i \in Node, NEW j \in Node, Connect(i, j)
    PROVE  NetInv'
<1> DEFINE F == FoundIn(sync)
           first == OnConnect(sync[i], j)
           second == OnConnect(sync[j], i)
<1>1. Sound(sync, wire) /\ Closed(F)
    BY FoundIsClosed DEF NetInv
<1>2. /\ DOMAIN sync = Node /\ \A k \in Node : Steady(sync[k], F)
      /\ wire \in [Node -> [Node -> Seq(Message(F))]]
    BY <1>1 DEF Sound
<1>3. /\ i # j /\ j \notin DOMAIN sync[i].peers /\ i \notin DOMAIN sync[j].peers
      /\ sync' = [sync EXCEPT ![i] = first.sync, ![j] = second.sync]
      /\ wire' = [wire EXCEPT ![i] = Queued(i, {j}, @, first.out),
                              ![j] = Queued(j, {i}, @, second.out)]
  <2>1. i # j
    <3>1. <<i, j>> \in Link
        BY DEF Connect
    <3>2. i < j /\ i \in Nat
        BY <3>1, NetworkAssumption
    <3> QED
        BY <3>2
  <2> QED
    BY <2>1 DEF Connect
<1>4. /\ Steady(first.sync, F) /\ first.out \in Seq(Action(F)) /\ first.sync.dag = sync[i].dag
      /\ Steady(second.sync, F) /\ second.out \in Seq(Action(F)) /\ second.sync.dag = sync[j].dag
    BY <1>1, <1>2, <1>3, OnConnectKeeps DEF Else, Fields
<1> HIDE DEF F, first, second
<1>5. /\ DOMAIN sync' = Node
      /\ \A k \in Node : Steady(sync'[k], F) /\ sync'[k].dag = sync[k].dag
    BY <1>2, <1>3, <1>4
<1>6. F \subseteq FoundIn(sync')
    BY <1>5, NetworkAssumption DEF FoundIn, F
<1>7. wire' \in [Node -> [Node -> Seq(Message(F))]]
  <2> DEFINE S == [Node -> Seq(Message(F))]
             A == Queued(i, {j}, wire[i], first.out)
             B == Queued(j, {i}, wire[j], second.out)
  <2>1. A \in S /\ B \in S
    BY <1>2, <1>4, QueuedAdds
  <2>2. wire' = [wire EXCEPT ![i] = A, ![j] = B]
    BY <1>3
  <2>3. wire \in [Node -> S]
    BY <1>2
  <2> HIDE DEF A, B, S
  <2>4. wire' \in [Node -> S]
    BY <2>1, <2>2, <2>3
  <2> QED
    BY <2>4 DEF S
<1>8. Sound(sync', wire')
    BY <1>5, <1>6, <1>7, SoundStep
<1> QED
    BY <1>8 DEF NetInv

LEMMA HandledKeepsNet ==
    ASSUME NetInv, NEW i \in Node, NEW H, FoundIn(sync) \subseteq H, H \subseteq Block,
           NEW result, Result(sync[i], result, H),
           \A b \in H \ FoundIn(sync) : MinedBy[b] = i /\ b \in result.sync.dag,
           NEW read \in [Node -> [Node -> Seq(Message(H))]],
           Handled(i, result, read)
    PROVE  NetInv'
<1>1. /\ sync' = [sync EXCEPT ![i] = result.sync]
      /\ wire' = [read EXCEPT ![i] = Queued(i, registry[i], @, result.out)]
    BY DEF Handled
<1>2. Sound(sync, wire)
    BY DEF NetInv
<1>3. Sound([sync EXCEPT ![i] = result.sync],
            [read EXCEPT ![i] = Queued(i, registry[i], @, result.out)])
    BY <1>2, HandledIsSound
<1> QED
    BY <1>1, <1>3 DEF NetInv

(* The message that is read, and the channel without it. *)
LEMMA ReadsMessage ==
    ASSUME NEW H, NEW channels \in [Node -> [Node -> Seq(Message(H))]],
           NEW i \in Node, NEW j \in Node, channels[j][i] # <<>>
    PROVE  /\ Head(channels[j][i]) \in Message(H)
           /\ [channels EXCEPT ![j][i] = Tail(@)] \in [Node -> [Node -> Seq(Message(H))]]
<1> DEFINE M == Message(H)
           q == channels[j][i]
<1>1. channels \in [Node -> [Node -> Seq(M)]] /\ q \in Seq(M) /\ q # <<>>
    OBVIOUS
<1> HIDE DEF M, q
<1>2. Head(q) \in M /\ Tail(q) \in Seq(M)
    BY <1>1
<1>3. [channels EXCEPT ![j][i] = Tail(@)] = [channels EXCEPT ![j][i] = Tail(q)]
    BY DEF q
<1>4. [channels EXCEPT ![j][i] = Tail(q)] \in [Node -> [Node -> Seq(M)]]
    BY <1>1, <1>2
<1> QED
    BY <1>2, <1>3, <1>4 DEF M, q

(* What a node's read loop does with a message. *)
LEMMA ReceiveHandles ==
    ASSUME NetInv, NEW i \in Node, NEW j \in Node, Receive(i, j)
    PROVE  Mindful(sync[i], OnMessage(sync[i], j, Head(wire[j][i])), FoundIn(sync))
<1> DEFINE F == FoundIn(sync)
           m == Head(wire[j][i])
<1>1. Sound(sync, wire) /\ Closed(F)
    BY FoundIsClosed DEF NetInv
<1>2. Steady(sync[i], F) /\ wire \in [Node -> [Node -> Seq(Message(F))]]
    BY <1>1 DEF Sound
<1>3. wire[j][i] # <<>> /\ j \in DOMAIN sync[i].peers
    BY DEF Receive
<1>4. m \in Message(F)
    BY <1>2, <1>3, ReadsMessage
<1> HIDE DEF F, m
<1>5. Mindful(sync[i], OnMessage(sync[i], j, m), F)
    BY <1>1, <1>2, <1>3, <1>4, OnMessageIsMindful
<1> QED
    BY <1>5 DEF F, m

LEMMA ReceiveIsSound ==
    ASSUME NetInv, NEW i \in Node, NEW j \in Node, Receive(i, j)
    PROVE  NetInv'
<1> DEFINE F == FoundIn(sync)
           result == OnMessage(sync[i], j, Head(wire[j][i]))
           read == [wire EXCEPT ![j][i] = Tail(@)]
<1>1. Result(sync[i], result, F)
    BY ReceiveHandles DEF Mindful
<1>2. wire \in [Node -> [Node -> Seq(Message(F))]] /\ wire[j][i] # <<>>
    BY DEF NetInv, Sound, Receive
<1>3. read \in [Node -> [Node -> Seq(Message(F))]]
    BY <1>2, ReadsMessage
<1>4. Handled(i, result, read)
    BY DEF Receive
<1>5. F \subseteq Block
    BY DEF FoundIn
<1> HIDE DEF result, read
<1> QED
    BY <1>1, <1>3, <1>4, <1>5, HandledKeepsNet

LEMMA TickHandles ==
    ASSUME NetInv, NEW i \in Node, NEW stale \in Timeouts(sync[i])
    PROVE  LET r == OnTick(sync[i], stale)
           IN  /\ Result(sync[i], r, FoundIn(sync)) /\ r.sync.orphans = sync[i].orphans
               /\ Cardinality(DOMAIN sync[i].requested) <= MaxInvEntries => Minds(sync[i], r.sync)
<1> DEFINE F == FoundIn(sync)
<1>1. Sound(sync, wire) /\ Closed(F)
    BY FoundIsClosed DEF NetInv
<1>2. Steady(sync[i], F)
    BY <1>1 DEF Sound
<1>3. stale \in SUBSET DOMAIN sync[i].requested
    BY DEF Timeouts
<1> HIDE DEF F
<1>4. LET r == OnTick(sync[i], stale)
      IN  /\ Result(sync[i], r, F) /\ r.sync.orphans = sync[i].orphans
          /\ Cardinality(DOMAIN sync[i].requested) <= MaxInvEntries => Minds(sync[i], r.sync)
    BY <1>1, <1>2, <1>3, OnTickKeeps
<1> QED
    BY <1>4 DEF F

LEMMA TickIsSound ==
    ASSUME NetInv, NEW i \in Node, NEW stale \in Timeouts(sync[i]), Tick(i, stale)
    PROVE  NetInv'
<1> DEFINE F == FoundIn(sync)
           result == OnTick(sync[i], stale)
<1>1. Result(sync[i], result, F)
    BY TickHandles
<1>2. wire \in [Node -> [Node -> Seq(Message(F))]]
    BY DEF NetInv, Sound
<1>3. Handled(i, result, wire)
    BY DEF Tick
<1>4. F \subseteq Block
    BY DEF FoundIn
<1> HIDE DEF result
<1> QED
    BY <1>1, <1>2, <1>3, <1>4, HandledKeepsNet

(* The block that is mined is one that nobody has heard of. *)
LEMMA MineHandles ==
    ASSUME NetInv, NEW i \in Node, NEW b \in Block, MineBlock(i, b)
    PROVE  LET H == FoundIn(sync) \cup {b}
               r == OnLocalBlock(sync[i], b)
           IN  Mindful(sync[i], r, H) /\ b \in r.sync.dag
<1> DEFINE F == FoundIn(sync)
           H == F \cup {b}
           s == sync[i]
<1>1. Sound(sync, wire) /\ Closed(F) /\ s.dag \subseteq F
    BY FoundIsClosed DEF NetInv
<1>2. Steady(s, F)
    BY <1>1 DEF Sound
<1>3. MinedBy[b] = i /\ b \notin s.dag /\ Parents[b] \subseteq s.dag
    BY DEF MineBlock
<1>4. b \notin F
  <2>1. Genesis \in s.dag
    BY <1>2 DEF Steady, Resolving, Machine
  <2> QED
    BY <1>3, <2>1 DEF FoundIn
<1> HIDE DEF F, s
<1>5. Closed(H)
    BY <1>1, <1>3 DEF Closed
<1>6. F \subseteq H /\ b \in H
    OBVIOUS
<1> HIDE DEF H
<1>7. Steady(s, H)
    BY <1>2, <1>6, SteadyGrows
<1>8. b \notin Held(s) /\ b \notin DOMAIN s.requested
  <2>1. DOMAIN s.orphans \subseteq F /\ DOMAIN s.requested \subseteq F
    BY <1>2 DEF Steady, Resolving, Machine, Requests, Pool
  <2> QED
    BY <1>3, <1>4, <2>1 DEF Held
<1>9. Mindful(s, OnLocalBlock(s, b), H) /\ b \in OnLocalBlock(s, b).sync.dag
    BY <1>3, <1>5, <1>6, <1>7, <1>8, OnLocalBlockIsMindful
<1> QED
    BY <1>9 DEF H, F, s

LEMMA MineIsSound ==
    ASSUME NetInv, NEW i \in Node, NEW b \in Block, MineBlock(i, b)
    PROVE  NetInv'
<1> DEFINE F == FoundIn(sync)
           H == F \cup {b}
           result == OnLocalBlock(sync[i], b)
<1>1. Result(sync[i], result, H) /\ b \in result.sync.dag
    BY MineHandles DEF Mindful
<1>2. wire \in [Node -> [Node -> Seq(Message(F))]]
    BY DEF NetInv, Sound
<1>3. Handled(i, result, wire) /\ MinedBy[b] = i
    BY DEF MineBlock
<1>4. H \subseteq Block /\ F \subseteq H
    BY DEF FoundIn
<1>5. \A c \in H \ F : MinedBy[c] = i /\ c \in result.sync.dag
    BY <1>1, <1>3
<1> HIDE DEF result, H, F
<1>6. wire \in [Node -> [Node -> Seq(Message(H))]]
  <2> DEFINE A == Seq(Message(F))
             B == Seq(Message(H))
  <2>1. A \subseteq B
    BY <1>4, MessagesGrow
  <2>2. wire \in [Node -> [Node -> A]]
    BY <1>2
  <2> HIDE DEF A, B
  <2>3. wire \in [Node -> [Node -> B]]
    BY <2>1, <2>2
  <2> QED
    BY <2>3 DEF B
<1> QED
    BY <1>1, <1>3, <1>4, <1>5, <1>6, HandledKeepsNet DEF F

LEMMA HangupIsSound ==
    ASSUME NetInv, NEW i \in Node, NEW j \in Node, Hangup(i, j)
    PROVE  NetInv'
<1> DEFINE F == FoundIn(sync)
           t == OnDisconnect(Retired(sync[i], j), j)
<1>1. Sound(sync, wire) /\ Closed(F)
    BY FoundIsClosed DEF NetInv
<1>2. /\ DOMAIN sync = Node /\ \A k \in Node : Steady(sync[k], F)
      /\ wire \in [Node -> [Node -> Seq(Message(F))]]
    BY <1>1 DEF Sound
<1>3. sync' = [sync EXCEPT ![i] = t] /\ wire' = wire
    BY DEF Hangup
<1>4. Steady(t, F) /\ t.dag = sync[i].dag
    BY <1>1, <1>2, OnDisconnectKeeps
<1> HIDE DEF F, t
<1>5. DOMAIN sync' = Node /\ \A k \in Node : Steady(sync'[k], F) /\ sync'[k].dag = sync[k].dag
    BY <1>2, <1>3, <1>4
<1>6. F \subseteq FoundIn(sync')
    BY <1>5, NetworkAssumption DEF FoundIn, F
<1>7. wire' \in [Node -> [Node -> Seq(Message(F))]]
    BY <1>2, <1>3
<1>8. Sound(sync', wire')
    BY <1>5, <1>6, <1>7, SoundStep
<1> QED
    BY <1>8 DEF NetInv

(* Faults only touch what is on the way. *)
LEMMA FaultIsSound ==
    ASSUME NetInv, UNCHANGED sync,
           wire' \in [Node -> [Node -> Seq(Message(FoundIn(sync)))]]
    PROVE  NetInv'
<1>1. Sound(sync, wire')
    BY DEF NetInv, Sound
<1> QED
    BY <1>1 DEF NetInv

LEMMA NextIsSound ==
    ASSUME NetInv, [Next]_vars
    PROVE  NetInv'
<1> DEFINE M == Message(FoundIn(sync))
<1>1. wire \in [Node -> [Node -> Seq(M)]]
    BY DEF NetInv, Sound
<1>2. ASSUME NEW i \in Node, NEW j \in Node, Lose(i, j) PROVE NetInv'
  <2>1. UNCHANGED sync /\ wire[i][j] # <<>> /\ wire' = [wire EXCEPT ![i][j] = Tail(@)]
    BY <1>2 DEF Lose
  <2>2. wire' \in [Node -> [Node -> Seq(M)]]
    BY <1>1, <2>1, ReadsMessage
  <2> QED
    BY <2>1, <2>2, FaultIsSound
<1>3. ASSUME NEW i \in Node, NEW j \in Node, Break(i, j) PROVE NetInv'
  <2>1. UNCHANGED sync /\ wire' = [wire EXCEPT ![i][j] = <<>>, ![j][i] = <<>>]
    BY <1>3 DEF Break
  <2>2. <<>> \in Seq(M)
    OBVIOUS
  <2> DEFINE A == Seq(M)
  <2>3. wire \in [Node -> [Node -> A]] /\ <<>> \in A
    BY <1>1, <2>2
  <2> HIDE DEF A, M
  <2>4. wire' \in [Node -> [Node -> A]]
    BY <2>1, <2>3
  <2> QED
    BY <2>1, <2>4, FaultIsSound DEF A, M
<1>4. ASSUME NEW i \in Node, NEW j \in Node, DropStuck(i, j) PROVE NetInv'
    BY <1>1, <1>4, FaultIsSound DEF DropStuck
<1>5. CASE UNCHANGED vars
    BY <1>1, <1>5, FaultIsSound DEF vars
<1> HIDE DEF M
<1>6. CASE \E i, j \in Node : Connect(i, j) \/ Receive(i, j) \/ Hangup(i, j)
    BY <1>6, ConnectIsSound, ReceiveIsSound, HangupIsSound
<1>7. CASE \E i, j \in Node : Lose(i, j) \/ Break(i, j) \/ DropStuck(i, j)
    BY <1>2, <1>3, <1>4, <1>7
<1>8. CASE \E i \in Node : \/ \E b \in Block : MineBlock(i, b)
                          \/ \E stale \in Timeouts(sync[i]) : Tick(i, stale)
    BY <1>8, MineIsSound, TickIsSound
<1> QED
    BY <1>5, <1>6, <1>7, <1>8 DEF Next

(* Whatever is received, lost, broken off or timed out: every node's        *)
(* machine is steady and has only found blocks, and every message on the   *)
(* way is well formed and names only found blocks (on_message, on_tick,    *)
(* on_connect, on_disconnect, on_local_block).                             *)
THEOREM NetworkIsSound == Spec => []NetInv
<1>1. Init => NetInv
    BY InitIsSound
<1>2. NetInv /\ [Next]_vars => NetInv'
    BY NextIsSound
<1> QED
    BY <1>1, <1>2, PTL DEF Spec

-----------------------------------------------------------------------------
(* The records of every orphan pool agree and stay within the limit.       *)
THEOREM OrphansAlwaysWait == Spec => []OrphansWait
<1>1. ASSUME NetInv PROVE OrphansWait
  <2> SUFFICES ASSUME NEW i \in Node
               PROVE  LET s == sync[i]
                          orphans == DOMAIN s.orphans
                      IN  /\ Cardinality(orphans) <= MaxOrphans
                          /\ ToSet(s.orphan_order) = orphans
                          /\ Len(s.orphan_order) = Cardinality(orphans)
                          /\ \A p \in Block : s.waiting_on[p] =
                                 IF p \in s.dag THEN {} ELSE {o \in orphans : p \in Parents[o]}
                          /\ \A o \in orphans : ~ Parents[o] \subseteq s.dag
    BY DEF OrphansWait
  <2>1. Pool(sync[i], FoundIn(sync), {}, {})
    BY <1>1 DEF NetInv, Sound, Steady, Resolving
  <2> QED
    BY <2>1 DEF Pool, Lists, Waiting, Noticed
<1> QED
    BY <1>1, NetworkIsSound, PTL

(* What is in flight is wanted, and the peer that owes it is there to be   *)
(* asked: no timeout ever finds requests and no ready peer.                *)
THEOREM RequestsAreAlwaysOwed == Spec => []RequestsAreOwed
<1>1. ASSUME NetInv PROVE RequestsAreOwed
  <2>1. \A i \in Node : Owed(sync[i])
    BY <1>1 DEF NetInv, Sound, Steady, Resolving
  <2> QED
    BY <2>1 DEF RequestsAreOwed, Owed
<1> QED
    BY <1>1, NetworkIsSound, PTL

(* No block is in a DAG or an orphan before its body is stored.            *)
THEOREM BodiesAreAlwaysPresent == Spec => []BodiesArePresent
<1>1. ASSUME NetInv PROVE BodiesArePresent
  <2>1. \A i \in Node : Embodied(sync[i])
    BY <1>1 DEF NetInv, Sound, Steady, Resolving
  <2> QED
    BY <2>1 DEF BodiesArePresent, Embodied
<1> QED
    BY <1>1, NetworkIsSound, PTL

-----------------------------------------------------------------------------
(* Losing messages forgets nothing.  Without a disconnection a peer is one *)
(* that has a sender for this node, so no connection ends; and then only a *)
(* request that is cut short can drop what an orphan waits for: one for    *)
(* more parents than a message names, or for more that has timed out.      *)
FewRequests ==
    \A i \in Node : Cardinality(DOMAIN sync[i].requested) <= MaxInvEntries

Heeds(s) == \A o \in DOMAIN s.orphans : Parents[o] \subseteq Minded(s)

Linked ==
    /\ registry \in [Node -> SUBSET Node] /\ breaks \in Nat
    /\ breaks = 0 => \A i, j \in Node : j \in DOMAIN sync[i].peers => i \in registry[j]

LossInv == Linked /\ (breaks = 0 => \A i \in Node : Heeds(sync[i]))

LEMMA HeedsStill ==
    ASSUME NEW s, Heeds(s), NEW t, Minds(s, t), MindsOrphans(s, t)
    PROVE  Heeds(t)
BY DEF Heeds, Minds, MindsOrphans

(* A handler of node i has run, and has lost nothing from mind. *)
LEMMA HandledForgetsNothing ==
    ASSUME NetInv, LossInv, NEW i \in Node, NEW H, NEW result, Result(sync[i], result, H),
           Minds(sync[i], result.sync), MindsOrphans(sync[i], result.sync),
           NEW read, Handled(i, result, read), UNCHANGED <<registry, breaks>>
    PROVE  LossInv'
<1> DEFINE t == result.sync
<1>1. sync' = [sync EXCEPT ![i] = t] /\ registry' = registry /\ breaks' = breaks
    BY DEF Handled
<1>2. DOMAIN sync = Node
    BY DEF NetInv, Sound
<1>3. DOMAIN t.peers = DOMAIN sync[i].peers
    BY DEF Result, Keeps
<1> HIDE DEF t
<1>4. sync'[i] = t /\ \A k \in Node \ {i} : sync'[k] = sync[k]
    BY <1>1, <1>2
<1>5. \A k \in Node : DOMAIN sync'[k].peers = DOMAIN sync[k].peers
    BY <1>3, <1>4
<1>6. Linked'
    BY <1>1, <1>5 DEF LossInv, Linked
<1>7. breaks = 0 => Heeds(t)
    BY HeedsStill DEF LossInv, t
<1>8. breaks' = 0 => \A k \in Node : Heeds(sync'[k])
    BY <1>1, <1>4, <1>7 DEF LossInv
<1> QED
    BY <1>6, <1>8 DEF LossInv, Heeds, Minded, Held

LEMMA ConnectForgetsNothing ==
    ASSUME NetInv, LossInv, NEW i \in Node, NEW j \in Node, Connect(i, j)
    PROVE  LossInv'
<1> DEFINE F == FoundIn(sync)
           t == OnConnect(sync[i], j).sync
           u == OnConnect(sync[j], i).sync
<1>1. Sound(sync, wire) /\ Closed(F)
    BY FoundIsClosed DEF NetInv
<1>2. DOMAIN sync = Node /\ \A k \in Node : Steady(sync[k], F)
    BY <1>1 DEF Sound
<1>3. /\ i # j /\ j \notin DOMAIN sync[i].peers /\ i \notin DOMAIN sync[j].peers
      /\ sync' = [sync EXCEPT ![i] = t, ![j] = u] /\ breaks' = breaks
      /\ registry' = [registry EXCEPT ![i] = @ \cup {j}, ![j] = @ \cup {i}]
  <2>1. i # j
    <3>1. <<i, j>> \in Link
        BY DEF Connect
    <3>2. i < j /\ i \in Nat
        BY <3>1, NetworkAssumption
    <3> QED
        BY <3>2
  <2> QED
    BY <2>1 DEF Connect
<1>4. /\ Else(sync[i], t, {"peers"}) /\ DOMAIN t.peers = DOMAIN sync[i].peers \cup {j}
      /\ Else(sync[j], u, {"peers"}) /\ DOMAIN u.peers = DOMAIN sync[j].peers \cup {i}
    BY <1>1, <1>2, <1>3, OnConnectKeeps
<1> HIDE DEF t, u
<1>5. /\ t.dag = sync[i].dag /\ t.orphans = sync[i].orphans
      /\ t.requested = sync[i].requested /\ t.bodies = sync[i].bodies
      /\ u.dag = sync[j].dag /\ u.orphans = sync[j].orphans
      /\ u.requested = sync[j].requested /\ u.bodies = sync[j].bodies
    BY <1>4 DEF Else, Fields
<1>6. sync'[i] = t /\ sync'[j] = u /\ \A k \in Node \ {i, j} : sync'[k] = sync[k]
    BY <1>2, <1>3
<1>7. /\ Linked /\ registry \in [Node -> SUBSET Node]
      /\ registry' \in [Node -> SUBSET Node]
      /\ j \in registry'[i] /\ i \in registry'[j]
      /\ \A k \in Node : registry[k] \subseteq registry'[k]
    BY <1>3 DEF LossInv, Linked
<1>8. Linked'
  <2> SUFFICES ASSUME breaks = 0, NEW k \in Node, NEW l \in Node, l \in DOMAIN sync'[k].peers
               PROVE  k \in registry'[l]
    BY <1>3, <1>7 DEF Linked
  <2>1. CASE l \in DOMAIN sync[k].peers
    BY <1>7, <2>1 DEF Linked
  <2>2. CASE l \notin DOMAIN sync[k].peers
    <3>1. (k = i /\ l = j) \/ (k = j /\ l = i)
        BY <1>4, <1>6, <2>2
    <3> QED
        BY <1>7, <3>1
  <2> QED
    BY <2>1, <2>2
<1>9. ASSUME breaks = 0 PROVE \A k \in Node : Heeds(sync'[k])
  <2>1. \A k \in Node : Heeds(sync[k])
    BY <1>9 DEF LossInv
  <2>2. Heeds(t) /\ Heeds(u)
    BY <1>5, <2>1 DEF Heeds, Minded, Held
  <2> QED
    BY <1>6, <2>1, <2>2
<1>10. breaks' = 0 => \A k \in Node : Heeds(sync'[k])
    BY <1>3, <1>9
<1> QED
    BY <1>8, <1>10 DEF LossInv, Heeds, Minded, Held

LEMMA FaultForgetsNothing ==
    ASSUME LossInv, UNCHANGED sync, registry' \in [Node -> SUBSET Node],
           (UNCHANGED <<registry, breaks>>) \/ breaks' = breaks + 1
    PROVE  LossInv'
<1>1. breaks \in Nat
    BY DEF LossInv, Linked
<1>2. breaks' = 0 => UNCHANGED <<registry, breaks>>
    BY <1>1
<1>3. breaks' \in Nat
    BY <1>1
<1>4. Linked'
    BY <1>2, <1>3 DEF LossInv, Linked
<1>5. breaks' = 0 => \A i \in Node : Heeds(sync[i])
    BY <1>2 DEF LossInv
<1>6. breaks' = 0 => \A i \in Node : Heeds(sync'[i])
    BY <1>5
<1> QED
    BY <1>4, <1>6 DEF LossInv, Heeds, Minded, Held

LEMMA HangupForgetsNothing ==
    ASSUME LossInv, NEW i \in Node, NEW j \in Node, Hangup(i, j)
    PROVE  LossInv'
<1>1. breaks # 0 /\ breaks' = breaks
    BY DEF LossInv, Linked, Hangup
<1>2. registry' \in [Node -> SUBSET Node] /\ breaks \in Nat
    BY DEF LossInv, Linked, Hangup
<1> QED
    BY <1>1, <1>2 DEF LossInv, Linked

LEMMA NextForgetsNothing ==
    ASSUME FewParents, NetInv, FewRequests, LossInv, [Next]_vars
    PROVE  LossInv'
<1>1. registry \in [Node -> SUBSET Node]
    BY DEF LossInv, Linked
<1>2. ASSUME NEW i \in Node, NEW j \in Node, Receive(i, j) PROVE LossInv'
  <2> DEFINE result == OnMessage(sync[i], j, Head(wire[j][i]))
             read == [wire EXCEPT ![j][i] = Tail(@)]
  <2>1. Mindful(sync[i], result, FoundIn(sync))
    BY <1>2, ReceiveHandles
  <2>2. Handled(i, result, read) /\ UNCHANGED <<registry, breaks>>
    BY <1>2 DEF Receive
  <2> HIDE DEF result, read
  <2> QED
    BY <2>1, <2>2, HandledForgetsNothing DEF Mindful
<1>3. ASSUME NEW i \in Node, NEW b \in Block, MineBlock(i, b) PROVE LossInv'
  <2> DEFINE result == OnLocalBlock(sync[i], b)
  <2>1. Mindful(sync[i], result, FoundIn(sync) \cup {b})
    BY <1>3, MineHandles
  <2>2. Handled(i, result, wire) /\ UNCHANGED <<registry, breaks>>
    BY <1>3 DEF MineBlock
  <2> HIDE DEF result
  <2> QED
    BY <2>1, <2>2, HandledForgetsNothing DEF Mindful
<1>4. ASSUME NEW i \in Node, NEW stale \in Timeouts(sync[i]), Tick(i, stale) PROVE LossInv'
  <2> DEFINE result == OnTick(sync[i], stale)
  <2>1. Cardinality(DOMAIN sync[i].requested) <= MaxInvEntries
    BY DEF FewRequests
  <2>2. /\ Result(sync[i], result, FoundIn(sync)) /\ result.sync.orphans = sync[i].orphans
        /\ Minds(sync[i], result.sync)
    BY <2>1, TickHandles
  <2>3. Handled(i, result, wire) /\ UNCHANGED <<registry, breaks>>
    BY <1>4 DEF Tick
  <2> HIDE DEF result
  <2>4. MindsOrphans(sync[i], result.sync)
    BY <2>2 DEF MindsOrphans
  <2> QED
    BY <2>2, <2>3, <2>4, HandledForgetsNothing
<1>5. ASSUME NEW i \in Node, NEW j \in Node, Lose(i, j) \/ Break(i, j) \/ DropStuck(i, j)
      PROVE  LossInv'
  <2>1. UNCHANGED sync /\ ((UNCHANGED <<registry, breaks>>) \/ breaks' = breaks + 1)
    BY <1>5 DEF Lose, Break, DropStuck
  <2>2. registry' \in [Node -> SUBSET Node]
    BY <1>1, <1>5 DEF Lose, Break, DropStuck
  <2> QED
    BY <2>1, <2>2, FaultForgetsNothing
<1>6. CASE UNCHANGED vars
    BY <1>1, <1>6, FaultForgetsNothing DEF vars
<1>7. CASE \E i, j \in Node : Connect(i, j) \/ Receive(i, j) \/ Hangup(i, j)
    BY <1>2, <1>7, ConnectForgetsNothing, HangupForgetsNothing
<1>8. CASE \E i, j \in Node : Lose(i, j) \/ Break(i, j) \/ DropStuck(i, j)
    BY <1>5, <1>8
<1>9. CASE \E i \in Node : \/ \E b \in Block : MineBlock(i, b)
                          \/ \E stale \in Timeouts(sync[i]) : Tick(i, stale)
    BY <1>3, <1>4, <1>9
<1> QED
    BY <1>6, <1>7, <1>8, <1>9 DEF Next

LEMMA InitForgetsNothing == Init => LossInv
<1> SUFFICES ASSUME Init PROVE LossInv
    OBVIOUS
<1>1. /\ sync = [i \in Node |-> NewSync] /\ registry = [i \in Node |-> {}] /\ breaks = 0
    BY DEF Init
<1>2. DOMAIN NewSync.peers = {} /\ DOMAIN NewSync.orphans = {}
  <2>1. \A f : f = <<>> => DOMAIN f = {}
    OBVIOUS
  <2>2. NewSync.peers = <<>> /\ NewSync.orphans = <<>>
    BY DEF NewSync
  <2> QED
    BY <2>1, <2>2
<1>3. \A i \in Node : DOMAIN sync[i].peers = {} /\ DOMAIN sync[i].orphans = {}
    BY <1>1, <1>2
<1> QED
    BY <1>1, <1>3 DEF LossInv, Linked, Heeds

(* Without a disconnection an orphan's missing parent is held, asked for,  *)
(* or was here before, whatever messages are lost: for as long as no block *)
(* has more parents than a request can name, and no node has more in       *)
(* flight than one can ask for again.                                      *)
THEOREM LossNeverForgets ==
    ASSUME \A b \in Block : Cardinality(Parents[b]) <= MaxInvEntries
    PROVE  Spec /\ []FewRequests => []LossForgetsNothing
<1>1. FewParents
    BY DEF FewParents
<1>2. Init => LossInv
    BY InitForgetsNothing
<1>3. NetInv /\ FewRequests /\ LossInv /\ [Next]_vars => LossInv'
    BY <1>1, NextForgetsNothing
<1>4. LossInv => LossForgetsNothing
    BY DEF LossInv, Heeds, Minded, LossForgetsNothing
<1> QED
    BY <1>2, <1>3, <1>4, NetworkIsSound, PTL DEF Spec
=============================================================================
