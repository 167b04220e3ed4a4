--------------------------- MODULE DagStoreProofs ---------------------------
(***************************************************************************)
(* What the block DAG keeps true, for any hashes, works, k and limits.     *)
(*                                                                         *)
(* The operators of DagStore are recursive in the height of a block.  Each *)
(* is shown to satisfy its own recursion equation once, by giving a        *)
(* function that does; after that, what two DAGs have in common is proved  *)
(* by induction on heights, which is stated as a lemma about sets.         *)
(***************************************************************************)
EXTENDS DagStore, FiniteSetTheorems, WellFoundedInduction, TLAPS

-----------------------------------------------------------------------------
(* Induction over the naturals, as a fact about the set of those numbers   *)
(* for which something holds.                                              *)
LEMMA Counting ==
    ASSUME NEW S, 0 \in S, \A n \in Nat : n \in S => n + 1 \in S
    PROVE  Nat \subseteq S
<1>1. SUFFICES ASSUME Nat \ S # {} PROVE FALSE
    OBVIOUS
<1>2. IsWellFoundedOn(OpToRel(<, Nat), Nat)
    BY NatLessThanWellFounded
<1>3. PICK n \in Nat \ S : \A m \in Nat \ S : ~ (<<m, n>> \in OpToRel(<, Nat))
    BY <1>1, <1>2, WFMin, Nat \ S \subseteq Nat
<1>4. \A m \in Nat \ S : ~ (m < n)
    BY <1>3 DEF OpToRel
<1>5. n - 1 \in Nat
    OBVIOUS
<1> QED
    BY <1>4, <1>5

(* Induction over blocks by height: `h` is their height. *)
LEMMA HeightInduction ==
    ASSUME NEW D, NEW h, NEW S,
           \A b \in D : h[b] \in Nat,
           \A b \in D : (\A c \in D : h[c] < h[b] => c \in S) => b \in S
    PROVE  D \subseteq S
<1> DEFINE Below == {n \in Nat : \A b \in D : h[b] < n => b \in S}
<1>1. 0 \in Below
    OBVIOUS
<1>2. ASSUME NEW n \in Nat, n \in Below PROVE n + 1 \in Below
  <2>1. ASSUME NEW b \in D, h[b] < n + 1 PROVE b \in S
    <3>1. \A c \in D : h[c] < h[b] => c \in S
        BY <1>2, <2>1
    <3> QED
        BY <3>1
  <2> QED
    BY <2>1
<1>3. Nat \subseteq Below
  <2> HIDE DEF Below
  <2> QED
    BY <1>1, <1>2, Counting
<1>4. ASSUME NEW b \in D PROVE b \in S
    BY <1>3, h[b] + 1 \in Below
<1> QED
    BY <1>4

-----------------------------------------------------------------------------
(* Headers `hs` whose parents are among them, and data `dt` whose heights  *)
(* rise from parent to child and whose selected parents are parents.       *)
ParentsWithin(hs) == \A b \in DOMAIN hs : hs[b].parents \subseteq DOMAIN hs

Layered(hs, dt) ==
    /\ DOMAIN dt = DOMAIN hs
    /\ ParentsWithin(hs)
    /\ \A b \in DOMAIN hs :
         /\ dt[b].topological_height \in Nat
         /\ \A p \in hs[b].parents : dt[p].topological_height < dt[b].topological_height
         /\ dt[b].selected_parent = b \/ dt[b].selected_parent \in hs[b].parents

(* A part of the DAG that holds the parents of what it holds. *)
ClosedPart(hs, P) == P \subseteq DOMAIN hs /\ \A b \in P : hs[b].parents \subseteq P

(* What a recursion for the past, or for the selected chain, gives at `b`. *)
PastStep(hs, past, b) == hs[b].parents \cup UNION {past[p] : p \in hs[b].parents}

ChainStep(dt, chain, b) ==
    IF dt[b].selected_parent = b THEN {b} ELSE {b} \cup chain[dt[b].selected_parent]

(* PastIn satisfies its own recursion: the least sets that hold the parents*)
(* of a block and are closed under parents do.                             *)
LEMMA PastRecursion ==
    ASSUME NEW hs, ParentsWithin(hs)
    PROVE  PastIn(hs) = [b \in DOMAIN hs |-> PastStep(hs, PastIn(hs), b)]
<1> DEFINE IsPast(past) ==
        past = [b \in DOMAIN hs |->
                   hs[b].parents \cup UNION {past[p] : p \in hs[b].parents}]
           Closed(S) == \A c \in S : hs[c].parents \subseteq S
           least == [b \in DOMAIN hs |->
                        {c \in DOMAIN hs : \A S \in SUBSET DOMAIN hs :
                            hs[b].parents \subseteq S /\ Closed(S) => c \in S}]
           Step(b) == hs[b].parents \cup UNION {least[p] : p \in hs[b].parents}
<1>1. \A b \in DOMAIN hs : hs[b].parents \subseteq DOMAIN hs
    BY DEF ParentsWithin
<1>2. ASSUME NEW b \in DOMAIN hs
      PROVE  /\ hs[b].parents \subseteq least[b]
             /\ Closed(least[b])
             /\ least[b] \subseteq DOMAIN hs
    BY <1>1
<1>3. ASSUME NEW b \in DOMAIN hs, NEW S \in SUBSET DOMAIN hs,
             hs[b].parents \subseteq S, Closed(S)
      PROVE  least[b] \subseteq S
    BY <1>3
<1>4. least = [b \in DOMAIN hs |-> least[b]]
    OBVIOUS
<1> HIDE DEF least
<1>5. ASSUME NEW b \in DOMAIN hs PROVE least[b] = Step(b)
  <2>1. \A c : c \in Step(b) <=> c \in hs[b].parents \/ \E p \in hs[b].parents : c \in least[p]
    OBVIOUS
  <2> HIDE DEF Step
  <2>2. ASSUME NEW p \in hs[b].parents PROVE least[p] \subseteq least[b]
    <3>1. p \in DOMAIN hs /\ p \in least[b]
        BY <1>1, <1>2
    <3>2. hs[p].parents \subseteq least[b] /\ Closed(least[b]) /\ least[b] \subseteq DOMAIN hs
        BY <1>2, <3>1
    <3> QED
        BY <1>3, <3>1, <3>2
  <2>3. Step(b) \subseteq least[b]
    BY <1>2, <2>1, <2>2
  <2>4. Closed(Step(b))
    <3>1. ASSUME NEW c \in hs[b].parents PROVE hs[c].parents \subseteq Step(b)
        BY <1>1, <1>2, <2>1
    <3>2. ASSUME NEW p \in hs[b].parents, NEW c \in least[p]
          PROVE  hs[c].parents \subseteq Step(b)
        BY <1>1, <1>2, <2>1
    <3> QED
        BY <2>1, <3>1, <3>2
  <2>5. Step(b) \subseteq DOMAIN hs /\ hs[b].parents \subseteq Step(b)
    BY <1>1, <1>2, <2>1
  <2>6. least[b] \subseteq Step(b)
    BY <1>3, <2>4, <2>5
  <2> QED
    BY <2>3, <2>6
<1>6. IsPast(least)
    BY <1>4, <1>5
<1>7. PastIn(hs) = CHOOSE past : IsPast(past)
    BY DEF PastIn
<1>8. IsPast(PastIn(hs))
  <2> HIDE DEF IsPast
  <2> QED
    BY <1>6, <1>7
<1> QED
    BY <1>8 DEF PastStep

(* ChainIn satisfies its own recursion: the least sets that hold a block   *)
(* and are closed under the selected parent do.                            *)
ChainOf(dt) == [b \in DOMAIN dt |-> ChainIn(dt, b)]

LEMMA ChainRecursion ==
    ASSUME NEW dt, \A b \in DOMAIN dt : dt[b].selected_parent \in DOMAIN dt
    PROVE  \A b \in DOMAIN dt : ChainIn(dt, b) = ChainStep(dt, ChainOf(dt), b)
<1> DEFINE IsChain(chain) ==
        chain = [b \in DOMAIN dt |->
                    IF dt[b].selected_parent = b
                    THEN {b} ELSE {b} \cup chain[dt[b].selected_parent]]
           Closed(S) == \A c \in S : dt[c].selected_parent \in S
           least == [b \in DOMAIN dt |->
                        {c \in DOMAIN dt : \A S \in SUBSET DOMAIN dt :
                            b \in S /\ Closed(S) => c \in S}]
           Step(b) == IF dt[b].selected_parent = b
                      THEN {b} ELSE {b} \cup least[dt[b].selected_parent]
<1>1. ASSUME NEW b \in DOMAIN dt
      PROVE  b \in least[b] /\ Closed(least[b]) /\ least[b] \subseteq DOMAIN dt
    OBVIOUS
<1>2. ASSUME NEW b \in DOMAIN dt, NEW S \in SUBSET DOMAIN dt, b \in S, Closed(S)
      PROVE  least[b] \subseteq S
    BY <1>2
<1>3. least = [b \in DOMAIN dt |-> least[b]]
    OBVIOUS
<1> HIDE DEF least
<1>4. ASSUME NEW b \in DOMAIN dt PROVE least[b] = Step(b)
  <2>1. CASE dt[b].selected_parent = b
    <3>1. Closed({b}) /\ {b} \subseteq DOMAIN dt
        BY <2>1
    <3>2. least[b] \subseteq {b}
        BY <1>2, <3>1
    <3>3. Step(b) = {b} /\ b \in least[b]
        BY <1>1, <2>1
    <3> QED
        BY <3>2, <3>3
  <2>2. CASE dt[b].selected_parent # b
    <3>1. dt[b].selected_parent \in least[b]
        BY <1>1
    <3>2. least[dt[b].selected_parent] \subseteq least[b]
        BY <1>1, <1>2, <3>1
    <3>3. Closed(Step(b)) /\ Step(b) \subseteq DOMAIN dt /\ b \in Step(b)
      <4> DEFINE sp == dt[b].selected_parent
      <4>1. sp \in least[sp] /\ Closed(least[sp]) /\ least[sp] \subseteq DOMAIN dt
          BY <1>1
      <4>2. Step(b) = {b} \cup least[sp]
          BY <2>2
      <4> HIDE DEF Step
      <4> QED
          BY <4>1, <4>2
    <3>4. least[b] \subseteq Step(b)
        BY <1>2, <3>3
    <3> QED
        BY <1>1, <2>2, <3>2, <3>4
  <2> QED
    BY <2>1, <2>2
<1>5. IsChain(least)
    BY <1>3, <1>4
<1> DEFINE chosen == CHOOSE chain : IsChain(chain)
<1>6. IsChain(chosen)
  <2> HIDE DEF IsChain
  <2> QED
    BY <1>5
<1>7. \A b : ChainIn(dt, b) = chosen[b]
    BY DEF ChainIn
<1> HIDE DEF chosen
<1> QED
    BY <1>6, <1>7 DEF ChainStep, ChainOf

(* On a layered DAG those recursions have one solution, so what two DAGs   *)
(* have in common they answer alike.                                       *)
LEMMA PastIsUnique ==
    ASSUME NEW hs, NEW dt, Layered(hs, dt), NEW f, NEW g,
           \A b \in DOMAIN hs : f[b] = PastStep(hs, f, b) /\ g[b] = PastStep(hs, g, b)
    PROVE  \A b \in DOMAIN hs : f[b] = g[b]
<1> DEFINE Same == {b \in DOMAIN hs : f[b] = g[b]}
           h == [b \in DOMAIN hs |-> dt[b].topological_height]
<1>1. \A b \in DOMAIN hs : h[b] \in Nat
    BY DEF Layered
<1>2. ASSUME NEW b \in DOMAIN hs, \A c \in DOMAIN hs : h[c] < h[b] => c \in Same
      PROVE  b \in Same
  <2>1. \A p \in hs[b].parents : f[p] = g[p]
    BY <1>2 DEF Layered, ParentsWithin
  <2>2. {f[p] : p \in hs[b].parents} = {g[p] : p \in hs[b].parents}
    BY <2>1
  <2> QED
    BY <2>2 DEF PastStep
<1> HIDE DEF Same, h
<1>3. DOMAIN hs \subseteq Same
    BY <1>1, <1>2, HeightInduction
<1> QED
    BY <1>3 DEF Same

LEMMA ChainIsUnique ==
    ASSUME NEW hs, NEW dt, Layered(hs, dt), NEW f, NEW g,
           \A b \in DOMAIN hs : f[b] = ChainStep(dt, f, b) /\ g[b] = ChainStep(dt, g, b)
    PROVE  \A b \in DOMAIN hs : f[b] = g[b]
<1> DEFINE Same == {b \in DOMAIN hs : f[b] = g[b]}
           h == [b \in DOMAIN hs |-> dt[b].topological_height]
<1>1. \A b \in DOMAIN hs : h[b] \in Nat
    BY DEF Layered
<1>2. ASSUME NEW b \in DOMAIN hs, \A c \in DOMAIN hs : h[c] < h[b] => c \in Same
      PROVE  b \in Same
  <2>1. \A p \in hs[b].parents : f[p] = g[p]
    BY <1>2 DEF Layered, ParentsWithin
  <2>2. dt[b].selected_parent = b \/ f[dt[b].selected_parent] = g[dt[b].selected_parent]
    BY <2>1 DEF Layered
  <2>3. f[b] = ChainStep(dt, f, b) /\ g[b] = ChainStep(dt, g, b)
    OBVIOUS
  <2> QED
    BY <2>2, <2>3 DEF ChainStep
<1> HIDE DEF Same, h
<1>3. DOMAIN hs \subseteq Same
    BY <1>1, <1>2, HeightInduction
<1> QED
    BY <1>3 DEF Same

(* Every block of a past is in the DAG, is lower, and brings its parents;  *)
(* the selected chain of a block is that block and blocks of its past.     *)
LEMMA PastIsClosed ==
    ASSUME NEW hs, NEW dt, Layered(hs, dt), NEW b \in DOMAIN hs
    PROVE  /\ PastIn(hs)[b] \subseteq DOMAIN hs
           /\ hs[b].parents \subseteq PastIn(hs)[b]
           /\ \A c \in PastIn(hs)[b] :
                /\ hs[c].parents \subseteq PastIn(hs)[b]
                /\ dt[c].topological_height < dt[b].topological_height
<1> DEFINE past == PastIn(hs)
           h == [c \in DOMAIN hs |-> dt[c].topological_height]
           Good == {a \in DOMAIN hs :
                      /\ past[a] \subseteq DOMAIN hs
                      /\ \A c \in past[a] : hs[c].parents \subseteq past[a] /\ h[c] < h[a]}
<1>1. \A a \in DOMAIN hs : /\ h[a] \in Nat
                           /\ hs[a].parents \subseteq DOMAIN hs
                           /\ \A p \in hs[a].parents : h[p] < h[a]
    BY DEF Layered, ParentsWithin
<1>2. \A a \in DOMAIN hs : past[a] = PastStep(hs, past, a)
    BY PastRecursion DEF Layered
<1>3. \A a \in DOMAIN hs : \A c : c \in past[a] <=>
            c \in hs[a].parents \/ \E p \in hs[a].parents : c \in past[p]
  <2> SUFFICES ASSUME NEW a \in DOMAIN hs
               PROVE \A c : c \in past[a] <=>
                        c \in hs[a].parents \/ \E p \in hs[a].parents : c \in past[p]
    OBVIOUS
  <2>1. past[a] = PastStep(hs, past, a)
    BY <1>2
  <2> HIDE DEF past
  <2> QED
    BY <2>1 DEF PastStep
<1> HIDE DEF past, h
<1>4. ASSUME NEW a \in DOMAIN hs, \A c \in DOMAIN hs : h[c] < h[a] => c \in Good
      PROVE  a \in Good
  <2>1. \A p \in hs[a].parents : p \in Good /\ p \in DOMAIN hs /\ h[p] < h[a]
    BY <1>1, <1>4
  <2>2. past[a] \subseteq DOMAIN hs
    BY <1>3, <2>1
  <2>3. ASSUME NEW c \in past[a] PROVE hs[c].parents \subseteq past[a] /\ h[c] < h[a]
    <3>1. CASE c \in hs[a].parents
        BY <1>1, <1>3, <2>1, <3>1
    <3>2. CASE \E p \in hs[a].parents : c \in past[p]
      <4>1. PICK p \in hs[a].parents : c \in past[p]
          BY <3>2
      <4>2. hs[c].parents \subseteq past[p] /\ h[c] < h[p]
          BY <2>1, <4>1
      <4>3. past[p] \subseteq past[a] /\ h[p] < h[a]
          BY <1>3, <2>1
      <4> QED
          BY <1>1, <2>1, <2>2, <4>2, <4>3
    <3> QED
        BY <1>3, <3>1, <3>2
  <2> QED
    BY <2>2, <2>3
<1>5. DOMAIN hs \subseteq Good
  <2> HIDE DEF Good
  <2>1. \A a \in DOMAIN hs : h[a] \in Nat
    BY <1>1
  <2>2. \A a \in DOMAIN hs : (\A c \in DOMAIN hs : h[c] < h[a] => c \in Good) => a \in Good
    BY <1>4
  <2> QED
    BY <2>1, <2>2, HeightInduction
<1>6. b \in Good
    BY <1>5
<1>7. \A c \in past[b] : h[c] = dt[c].topological_height /\ h[b] = dt[b].topological_height
    BY <1>6 DEF h
<1> QED
    BY <1>3, <1>6, <1>7 DEF past

LEMMA ChainIsInPast ==
    ASSUME NEW hs, NEW dt, Layered(hs, dt), NEW b \in DOMAIN hs
    PROVE  /\ b \in ChainIn(dt, b)
           /\ ChainIn(dt, b) \subseteq {b} \cup PastIn(hs)[b]
           /\ \A c \in ChainIn(dt, b) : ChainIn(dt, c) \subseteq ChainIn(dt, b)
           /\ \A c \in ChainIn(dt, b) \ {b} : c \in ChainIn(dt, dt[b].selected_parent)
<1> DEFINE past == PastIn(hs)
           h == [c \in DOMAIN hs |-> dt[c].topological_height]
           sp(a) == dt[a].selected_parent
           chain == ChainOf(dt)
           Good == {a \in DOMAIN hs : /\ a \in chain[a]
                                      /\ chain[a] \subseteq {a} \cup past[a]
                                      /\ \A c \in chain[a] : chain[c] \subseteq chain[a]}
<1>1. \A a \in DOMAIN hs : /\ h[a] \in Nat
                           /\ sp(a) = a \/ sp(a) \in hs[a].parents
                           /\ hs[a].parents \subseteq DOMAIN hs
                           /\ \A p \in hs[a].parents : h[p] < h[a]
    BY DEF Layered, ParentsWithin
<1>2. \A a \in DOMAIN hs : chain[a] = ChainStep(dt, chain, a) /\ chain[a] = ChainIn(dt, a)
    BY <1>1, ChainRecursion DEF ChainOf, Layered
<1>3. \A a \in DOMAIN hs : \/ sp(a) = a /\ chain[a] = {a}
                           \/ sp(a) # a /\ chain[a] = {a} \cup chain[sp(a)]
    BY <1>2 DEF ChainStep
<1>4. \A a \in DOMAIN hs : \A p \in hs[a].parents : p \in past[a] /\ past[p] \subseteq past[a]
  <2>1. \A a \in DOMAIN hs : past[a] = PastStep(hs, past, a)
    BY PastRecursion DEF Layered
  <2> HIDE DEF past
  <2> QED
    BY <2>1 DEF PastStep
<1> HIDE DEF past, h, chain
<1>5. ASSUME NEW a \in DOMAIN hs, \A c \in DOMAIN hs : h[c] < h[a] => c \in Good
      PROVE  a \in Good
  <2>1. CASE sp(a) = a
    <3>1. chain[a] = {a}
        BY <1>3, <2>1
    <3> QED
        BY <3>1
  <2>2. CASE sp(a) # a
    <3>1. chain[a] = {a} \cup chain[sp(a)] /\ sp(a) \in hs[a].parents
        BY <1>1, <1>3, <2>2
    <3>2. sp(a) \in Good
        BY <1>1, <1>5, <3>1
    <3>3. past[sp(a)] \subseteq past[a] /\ sp(a) \in past[a]
        BY <1>4, <3>1
    <3> QED
        BY <3>1, <3>2, <3>3
  <2> QED
    BY <2>1, <2>2
<1>6. DOMAIN hs \subseteq Good
  <2> HIDE DEF Good
  <2>1. \A a \in DOMAIN hs : h[a] \in Nat
    BY <1>1
  <2>2. \A a \in DOMAIN hs : (\A c \in DOMAIN hs : h[c] < h[a] => c \in Good) => a \in Good
    BY <1>5
  <2> QED
    BY <2>1, <2>2, HeightInduction
<1>7. b \in Good
    BY <1>6
<1>8. past[b] \subseteq DOMAIN hs
    BY PastIsClosed DEF past
<1>9. \A c \in chain[b] : c \in DOMAIN hs
    BY <1>7, <1>8
<1>10. \A c \in chain[b] \ {b} : sp(b) \in DOMAIN hs /\ c \in chain[sp(b)]
    BY <1>1, <1>3
<1> QED
    BY <1>2, <1>7, <1>9, <1>10 DEF past

(* A closed part of a DAG is a DAG, and the pasts and chains of its blocks *)
(* are those they have in the whole.                                       *)
LEMMA PartIsLayered ==
    ASSUME NEW hs, NEW dt, Layered(hs, dt), NEW P, ClosedPart(hs, P)
    PROVE  Layered(Restrict(hs, P), Restrict(dt, P))
BY DEF Layered, ParentsWithin, ClosedPart, Restrict

LEMMA PastOfPart ==
    ASSUME NEW hs, NEW dt, Layered(hs, dt), NEW P, ClosedPart(hs, P)
    PROVE  \A b \in P : PastIn(Restrict(hs, P))[b] = PastIn(hs)[b]
<1>1. Layered(Restrict(hs, P), Restrict(dt, P))
    BY PartIsLayered
<1>2. DOMAIN Restrict(hs, P) = P
    BY DEF Restrict
<1>3. \A b \in P : PastIn(Restrict(hs, P))[b]
                       = PastStep(Restrict(hs, P), PastIn(Restrict(hs, P)), b)
    BY <1>1, <1>2, PastRecursion DEF Layered
<1>4. \A b \in P : PastIn(hs)[b] = PastStep(hs, PastIn(hs), b)
    BY PastRecursion DEF Layered, ClosedPart
<1>5. \A b \in P : PastStep(hs, PastIn(hs), b) = PastStep(Restrict(hs, P), PastIn(hs), b)
    BY DEF PastStep, Restrict
<1> QED
    BY <1>1, <1>2, <1>3, <1>4, <1>5, PastIsUnique

LEMMA ChainOfPart ==
    ASSUME NEW hs, NEW dt, Layered(hs, dt), NEW P, ClosedPart(hs, P)
    PROVE  \A b \in P : ChainIn(Restrict(dt, P), b) = ChainIn(dt, b)
<1> DEFINE part == Restrict(dt, P)
<1>1. Layered(Restrict(hs, P), part)
    BY PartIsLayered
<1>2. DOMAIN Restrict(hs, P) = P /\ DOMAIN part = P
    BY DEF Restrict
<1>3. \A b \in P : part[b].selected_parent \in P
    BY <1>1, <1>2 DEF Layered, ParentsWithin
<1>4. \A b \in P : ChainOf(part)[b] = ChainStep(part, ChainOf(part), b)
    BY <1>2, <1>3, ChainRecursion DEF ChainOf
<1>5. \A b \in DOMAIN dt : dt[b].selected_parent \in DOMAIN dt
    BY DEF Layered, ParentsWithin
<1>6. \A b \in P : ChainOf(dt)[b] = ChainStep(dt, ChainOf(dt), b)
    BY <1>5, ChainRecursion DEF ChainOf, Layered, ClosedPart
<1>7. \A b \in P : ChainStep(dt, ChainOf(dt), b) = ChainStep(part, ChainOf(dt), b)
    BY DEF ChainStep, Restrict
<1>8. \A b \in P : ChainOf(part)[b] = ChainOf(dt)[b]
  <2> HIDE DEF part
  <2> QED
    BY <1>1, <1>2, <1>4, <1>6, <1>7, ChainIsUnique
<1> QED
    BY <1>2, <1>8 DEF ChainOf, ClosedPart, Layered

-----------------------------------------------------------------------------
(* Among finite sets there is one that includes no other. *)
LEMMA MinimalSet ==
    ASSUME NEW U, NEW T, T \subseteq FiniteSubsetsOf(U), T # {}
    PROVE  \E X \in T : \A Y \in T : Y \subseteq X => Y = X
<1>1. IsWellFoundedOn(StrictSubsetOrdering(U), FiniteSubsetsOf(U))
    BY FS_StrictSubsetOrderingWellFounded
<1>2. \E X \in T : \A Y \in T : ~ (<<Y, X>> \in StrictSubsetOrdering(U))
    BY <1>1, WFMin
<1>3. \A X, Y \in T : X \in SUBSET U /\ Y \in SUBSET U
    BY DEF FiniteSubsetsOf
<1> QED
    BY <1>2, <1>3 DEF StrictSubsetOrdering

(* A strict total order on a finite set that is not empty has a first      *)
(* element.                                                                *)
StrictOrder(R, S) ==
    /\ \A a \in S : <<a, a>> \notin R
    /\ \A a, b \in S : a # b => <<a, b>> \in R \/ <<b, a>> \in R
    /\ \A a, b, c \in S : <<a, b>> \in R /\ <<b, c>> \in R => <<a, c>> \in R

LEMMA FirstExists ==
    ASSUME NEW S, NEW R, IsFiniteSet(S), S # {}, StrictOrder(R, S)
    PROVE  \E a \in S : \A b \in S \ {a} : <<a, b>> \in R
<1> DEFINE Before(a) == {b \in S : <<b, a>> \in R}
           T == {Before(a) : a \in S}
<1>1. T # {}
  <2>1. PICK a \in S : TRUE
    OBVIOUS
  <2>2. Before(a) \in T
    OBVIOUS
  <2> QED
    BY <2>2
<1>2. T \subseteq FiniteSubsetsOf(S)
    BY FS_Subset DEF FiniteSubsetsOf
<1>3. PICK X \in T : \A Y \in T : Y \subseteq X => Y = X
  <2> HIDE DEF T
  <2> QED
    BY <1>1, <1>2, MinimalSet
<1>4. PICK a \in S : X = Before(a)
    OBVIOUS
<1>5. Before(a) = {}
  <2> SUFFICES ASSUME NEW b \in Before(a) PROVE FALSE
    OBVIOUS
  <2>1. Before(b) \subseteq Before(a) /\ b \notin Before(b)
    BY DEF StrictOrder
  <2>2. Before(b) \in T
    OBVIOUS
  <2> HIDE DEF T
  <2> QED
    BY <1>3, <1>4, <2>1, <2>2
<1> QED
    BY <1>5 DEF StrictOrder

(* compare_blocks is a strict total order, so the heaviest of finitely     *)
(* many blocks is one of them and heavier than all others.                 *)
Weighed(dt, S) == S \subseteq Nat /\ \A b \in S : dt[b].blue_work \in Nat

LEMMA HeavierIsTotal ==
    ASSUME NEW dt, NEW S, Weighed(dt, S)
    PROVE  /\ \A a \in S : ~ Heavier(dt, a, a)
           /\ \A a, b \in S : a # b => Heavier(dt, a, b) \/ Heavier(dt, b, a)
           /\ \A a, b \in S : Heavier(dt, a, b) => ~ Heavier(dt, b, a)
           /\ \A a, b, c \in S : Heavier(dt, a, b) /\ Heavier(dt, b, c) => Heavier(dt, a, c)
BY DEF Heavier, Weighed

LEMMA HeavierOrders ==
    ASSUME NEW dt, NEW S, Weighed(dt, S),
           NEW R, \A a, b \in S : <<a, b>> \in R <=> Heavier(dt, a, b)
    PROVE  StrictOrder(R, S)
<1>1. /\ \A a \in S : <<a, a>> \notin R
      /\ \A a, b \in S : a # b => <<a, b>> \in R \/ <<b, a>> \in R
    BY HeavierIsTotal
<1>2. ASSUME NEW a \in S, NEW b \in S, NEW c \in S, <<a, b>> \in R, <<b, c>> \in R
      PROVE  <<a, c>> \in R
  <2>1. Heavier(dt, a, b) /\ Heavier(dt, b, c)
    BY <1>2
  <2>2. Heavier(dt, a, c)
    BY <2>1, HeavierIsTotal
  <2> QED
    BY <2>2
<1> QED
    BY <1>1, <1>2 DEF StrictOrder

LEMMA HeaviestExists ==
    ASSUME NEW dt, NEW S, Weighed(dt, S), IsFiniteSet(S), S # {}
    PROVE  /\ Heaviest(dt, S) \in S
           /\ \A c \in S \ {Heaviest(dt, S)} : Heavier(dt, Heaviest(dt, S), c)
<1> DEFINE R == {e \in S \X S : Heavier(dt, e[1], e[2])}
<1>1. \A a, b \in S : <<a, b>> \in R <=> Heavier(dt, a, b)
    OBVIOUS
<1> HIDE DEF R
<1>2. \E a \in S : \A b \in S \ {a} : <<a, b>> \in R
  <2>1. StrictOrder(R, S)
    BY <1>1, HeavierOrders
  <2> QED
    BY <2>1, FirstExists
<1>3. \E a \in S : \A b \in S \ {a} : Heavier(dt, a, b)
    BY <1>1, <1>2
<1> QED
    BY <1>3 DEF Heaviest

-----------------------------------------------------------------------------
(* compute_ghostdag reads nothing outside a closed part that holds the     *)
(* parents: pasts, merge set, selected chain and everything looked up by   *)
(* them are in it.                                                         *)
LEMMA GhostdagIsLocal ==
    ASSUME NEW hs, NEW dt, Layered(hs, dt), NEW P, ClosedPart(hs, P),
           NEW ps, ps \subseteq P, SelectParent(dt, ps) \in ps, NEW w
    PROVE  ComputeGhostdag(Restrict(hs, P), Restrict(dt, P), ps, w)
               = ComputeGhostdag(hs, dt, ps, w)
<1> DEFINE hs2 == Restrict(hs, P)
           dt2 == Restrict(dt, P)
           sp == SelectParent(dt, ps)
           members == Mergeset(PastIn(hs), ps, sp)
           chain == ChainIn(dt, sp)
<1>0. sp \in P /\ P \subseteq DOMAIN hs /\ P \subseteq DOMAIN dt /\ DOMAIN hs2 = P
    BY DEF ClosedPart, Layered, Restrict
<1>1. \A b \in P : hs2[b] = hs[b] /\ dt2[b] = dt[b]
    BY DEF Restrict
<1>2. \A b \in P : PastIn(hs2)[b] = PastIn(hs)[b]
    BY PastOfPart
<1>3. \A b \in P : PastIn(hs)[b] \subseteq P
  <2>1. Layered(hs2, dt2)
    BY PartIsLayered
  <2>2. \A b \in P : PastIn(hs2)[b] \subseteq P
    BY <1>0, <2>1, PastIsClosed
  <2> QED
    BY <1>2, <2>2
<1>4. \A b \in P : ChainIn(dt2, b) = ChainIn(dt, b)
    BY ChainOfPart
<1>5. \A a, b \in P : Heavier(dt2, a, b) <=> Heavier(dt, a, b)
    BY <1>1 DEF Heavier
<1>6. SelectParent(dt2, ps) = sp
    BY <1>5 DEF SelectParent, Heaviest
<1>7. Mergeset(PastIn(hs2), ps, sp) = members
  <2>1. {PastIn(hs2)[p] : p \in ps} = {PastIn(hs)[p] : p \in ps}
    BY <1>2
  <2> QED
    BY <1>0, <1>2, <2>1 DEF Mergeset
<1>8. members \subseteq P
    BY <1>3 DEF Mergeset
<1>9. /\ Restrict(hs2, members) = Restrict(hs, members)
      /\ Restrict(dt2, members) = Restrict(dt, members)
      /\ Restrict(PastIn(hs2), members) = Restrict(PastIn(hs), members)
    BY <1>1, <1>2, <1>8 DEF Restrict
<1>10. chain \subseteq P
    BY <1>0, <1>3, ChainIsInPast
<1>11. Restrict(dt2, chain) = Restrict(dt, chain) /\ ChainIn(dt2, sp) = chain
    BY <1>0, <1>1, <1>4, <1>10 DEF Restrict
<1>12. {dt2[p].topological_height : p \in ps} = {dt[p].topological_height : p \in ps}
    BY <1>1
<1>13. dt2[sp] = dt[sp]
    BY <1>0, <1>1
<1> HIDE DEF hs2, dt2, sp, members, chain
<1>14. ComputeGhostdag(hs2, dt2, ps, w) = ComputeGhostdag(hs, dt, ps, w)
    BY <1>6, <1>7, <1>9, <1>11, <1>12, <1>13, Zenon
       DEF ComputeGhostdag, BlueWork, sp, members, chain
<1> QED
    BY <1>14 DEF hs2, dt2

-----------------------------------------------------------------------------
(* The sort.  A sequence that lists the members of a set, each once.       *)
Lists(s, S) ==
    /\ s \in [1..Len(s) -> S]
    /\ Len(s) = Cardinality(S)
    /\ \A i, j \in 1..Len(s) : s[i] = s[j] => i = j
    /\ \A b \in S : \E i \in 1..Len(s) : s[i] = b

(* Counting what comes before each member numbers a finite set from zero   *)
(* without a gap, so choosing by that count lists it.                      *)
ByRank(R, S) ==
    [i \in 1..Cardinality(S) |->
        CHOOSE b \in S : Cardinality({a \in S : <<a, b>> \in R}) = i - 1]

LEMMA RanksList ==
    ASSUME NEW S, IsFiniteSet(S), NEW R, StrictOrder(R, S)
    PROVE  ByRank(R, S) \in Seq(S) /\ Lists(ByRank(R, S), S)
<1> DEFINE s == ByRank(R, S)
           Before(b) == {a \in S : <<a, b>> \in R}
           n == Cardinality(S)
           rank == [b \in S |-> Cardinality(Before(b))]
<1>1. n \in Nat
    BY FS_CardinalityType
<1>2. ASSUME NEW b \in S PROVE IsFiniteSet(Before(b)) /\ rank[b] \in 0..(n - 1)
  <2>1. Before(b) \subseteq S \ {b}
    BY DEF StrictOrder
  <2>2. IsFiniteSet(S \ {b}) /\ Cardinality(S \ {b}) = n - 1
    BY FS_RemoveElement
  <2> HIDE DEF Before, n
  <2>3. IsFiniteSet(Before(b)) /\ Cardinality(Before(b)) <= n - 1
    BY <2>1, <2>2, FS_Subset
  <2>4. Cardinality(Before(b)) \in Nat
    BY <2>3, FS_CardinalityType
  <2> QED
    BY <1>1, <2>3, <2>4
<1>3. ASSUME NEW a \in S, NEW b \in S, <<a, b>> \in R PROVE rank[a] < rank[b]
  <2>1. Before(a) \subseteq Before(b) /\ a \in Before(b) /\ a \notin Before(a)
    BY <1>3 DEF StrictOrder
  <2>2. IsFiniteSet(Before(a)) /\ IsFiniteSet(Before(b))
    BY <1>2
  <2> HIDE DEF Before
  <2>3. /\ Cardinality(Before(a)) <= Cardinality(Before(b))
        /\ Cardinality(Before(b)) # Cardinality(Before(a))
    BY <2>1, <2>2, FS_Subset
  <2>4. Cardinality(Before(a)) \in Nat /\ Cardinality(Before(b)) \in Nat
    BY <2>2, FS_CardinalityType
  <2> QED
    BY <2>3, <2>4
<1> HIDE DEF Before
<1>4. rank \in Injection(S, 0..(n - 1))
  <2>1. rank \in [S -> 0..(n - 1)]
    BY <1>2
  <2>2. \A a, b \in S : rank[a] \in Int /\ rank[b] \in Int
    BY <1>2
  <2>3. \A a, b \in S : a # b => rank[a] # rank[b]
    <3> SUFFICES ASSUME NEW a \in S, NEW b \in S, a # b PROVE rank[a] # rank[b]
        OBVIOUS
    <3>1. <<a, b>> \in R \/ <<b, a>> \in R
        BY DEF StrictOrder
    <3> HIDE DEF rank
    <3> QED
        BY <1>3, <2>2, <3>1
  <2> HIDE DEF rank
  <2> QED
    BY <2>1, <2>3 DEF Injection, IsInjective
<1>5. rank \in Surjection(S, 0..(n - 1))
  <2>1. IsFiniteSet(0..(n - 1)) /\ Cardinality(0..(n - 1)) = n
    BY <1>1, FS_Interval
  <2> HIDE DEF rank
  <2> QED
    BY <1>4, <2>1, FS_Injection
<1>6. \A i \in 1..n : \E b \in S : rank[b] = i - 1
  <2>1. \A i \in 1..n : i - 1 \in 0..(n - 1)
    BY <1>1
  <2> HIDE DEF rank
  <2> QED
    BY <1>5, <2>1 DEF Surjection
<1>7. s = [i \in 1..n |-> CHOOSE b \in S : rank[b] = i - 1]
  <2> DEFINE byCount == [i \in 1..n |-> CHOOSE b \in S : Cardinality(Before(b)) = i - 1]
  <2>1. s = byCount
    BY Zenon DEF Before, ByRank
  <2>2. ASSUME NEW i \in 1..n
        PROVE  byCount[i] = CHOOSE b \in S : rank[b] = i - 1
    <3>1. \A b \in S : rank[b] = Cardinality(Before(b))
        OBVIOUS
    <3> HIDE DEF rank
    <3>2. (CHOOSE b \in S : Cardinality(Before(b)) = i - 1) = (CHOOSE b \in S : rank[b] = i - 1)
        BY <3>1
    <3> QED
        BY <3>2
  <2> HIDE DEF rank, n
  <2> QED
    BY <2>1, <2>2
<1> HIDE DEF rank, s
<1>8. \A i \in 1..n : s[i] \in S /\ rank[s[i]] = i - 1
    BY <1>6, <1>7
<1>9. s \in [1..n -> S] /\ Len(s) = n /\ s \in Seq(S)
  <2>1. s \in [1..n -> S]
    BY <1>7, <1>8
  <2> HIDE DEF n
  <2> QED
    BY <1>1, <2>1
<1>10. \A i, j \in 1..n : s[i] = s[j] => i = j
    BY <1>1, <1>8
<1>11. ASSUME NEW b \in S PROVE \E i \in 1..n : s[i] = b
  <2>1. rank[b] \in 0..(n - 1)
    BY <1>4 DEF Injection
  <2>2. rank[b] + 1 \in 1..n
    BY <1>1, <2>1
  <2>3. rank[s[rank[b] + 1]] = rank[b] /\ s[rank[b] + 1] \in S
    BY <1>8, <2>1, <2>2
  <2>4. s[rank[b] + 1] = b
    BY <1>4, <2>3 DEF Injection, IsInjective
  <2> QED
    BY <2>2, <2>4
<1> QED
    BY <1>9, <1>10, <1>11 DEF Lists, s

(* LightestFirst lists the blocks it is given. *)
LEMMA LightestFirstLists ==
    ASSUME NEW dt, NEW S, Weighed(dt, S), IsFiniteSet(S)
    PROVE  LightestFirst(dt, S) \in Seq(S) /\ Lists(LightestFirst(dt, S), S)
<1> DEFINE R == {e \in S \X S : Heavier(dt, e[2], e[1])}
           s == LightestFirst(dt, S)
<1>1. \A a, b \in S : <<a, b>> \in R <=> Heavier(dt, b, a)
    OBVIOUS
<1> HIDE DEF R
<1>2. StrictOrder(R, S)
  <2>1. /\ \A a \in S : <<a, a>> \notin R
        /\ \A a, b \in S : a # b => <<a, b>> \in R \/ <<b, a>> \in R
    BY <1>1, HeavierIsTotal
  <2>2. ASSUME NEW a \in S, NEW b \in S, NEW c \in S, <<a, b>> \in R, <<b, c>> \in R
        PROVE  <<a, c>> \in R
    <3>1. Heavier(dt, b, a) /\ Heavier(dt, c, b)
        BY <1>1, <2>2
    <3>2. Heavier(dt, c, a)
        BY <3>1, HeavierIsTotal
    <3> QED
        BY <1>1, <3>2
  <2> QED
    BY <2>1, <2>2 DEF StrictOrder
<1>3. \A b \in S : {a \in S : Heavier(dt, b, a)} = {a \in S : <<a, b>> \in R}
    BY <1>1
<1>4. s = ByRank(R, S)
  <2> DEFINE Count(b) == Cardinality({a \in S : <<a, b>> \in R})
             Lighter(b) == Cardinality({a \in S : Heavier(dt, b, a)})
  <2>1. \A b \in S : Lighter(b) = Count(b)
    BY <1>3
  <2>2. s = [i \in 1..Cardinality(S) |-> CHOOSE b \in S : Lighter(b) = i - 1]
    BY Zenon DEF LightestFirst
  <2> HIDE DEF Count, Lighter, s
  <2>3. \A i : (CHOOSE b \in S : Lighter(b) = i - 1) = (CHOOSE b \in S : Count(b) = i - 1)
    BY <2>1
  <2>4. s = [i \in 1..Cardinality(S) |-> CHOOSE b \in S : Count(b) = i - 1]
    BY <2>2, <2>3
  <2> QED
    BY <2>4 DEF Count, ByRank
<1> HIDE DEF s
<1> QED
    BY <1>2, <1>4, RanksList DEF s

-----------------------------------------------------------------------------
(* A loop over an index: `F` gives the state after step n from the state   *)
(* before it, and there is a sequence of states that runs it.              *)
StaysIn(F, N, X) == \A n \in 1..N : \A x \in X : F[<<n, x>>] \in X

RunOf(f, F, N, X, x0) ==
    /\ f \in [0..N -> X]
    /\ f[0] = x0
    /\ \A n \in 1..N : f[n] = F[<<n, f[n - 1]>>]

LEMMA Iteration ==
    ASSUME NEW N \in Nat, NEW X, NEW x0 \in X, NEW F, StaysIn(F, N, X)
    PROVE  \E f : RunOf(f, F, N, X, x0)
<1> DEFINE Runs(f, k) == f[0] = x0 /\ \A n \in 1..k : f[n] = F[<<n, f[n - 1]>>]
           Reached == {k \in Nat : k <= N => \E f \in [0..k -> X] : Runs(f, k)}
<1>1. 0 \in Reached
  <2>1. [n \in 0..0 |-> x0] \in [0..0 -> X] /\ Runs([n \in 0..0 |-> x0], 0)
    OBVIOUS
  <2> QED
    BY <2>1
<1>2. ASSUME NEW k \in Nat, k \in Reached PROVE k + 1 \in Reached
  <2> SUFFICES ASSUME k + 1 <= N PROVE \E f \in [0..k + 1 -> X] : Runs(f, k + 1)
    OBVIOUS
  <2>1. PICK f \in [0..k -> X] : Runs(f, k)
    BY <1>2
  <2> DEFINE g == [n \in 0..k + 1 |-> IF n = k + 1 THEN F[<<k + 1, f[k]>>] ELSE f[n]]
  <2>2. F[<<k + 1, f[k]>>] \in X
    BY DEF StaysIn
  <2>3. g \in [0..k + 1 -> X]
    BY <2>2
  <2>4. \A n \in 0..k : g[n] = f[n]
    OBVIOUS
  <2>5. g[k + 1] = F[<<k + 1, g[k]>>]
    OBVIOUS
  <2> HIDE DEF g
  <2>6. ASSUME NEW n \in 1..k + 1 PROVE g[n] = F[<<n, g[n - 1]>>]
    <3>1. CASE n = k + 1
        BY <2>5, <3>1
    <3>2. CASE n \in 1..k
      <4>1. f[n] = F[<<n, f[n - 1]>>]
          BY <2>1, <3>2
      <4>2. n \in 0..k /\ n - 1 \in 0..k
          BY <3>2
      <4> QED
          BY <2>4, <4>1, <4>2
    <3> QED
        BY <3>1, <3>2
  <2>7. g[0] = x0
    BY <2>1, <2>4
  <2> QED
    BY <2>3, <2>6, <2>7
<1>3. Nat \subseteq Reached
  <2> HIDE DEF Reached
  <2> QED
    BY <1>1, <1>2, Counting
<1> QED
    BY <1>3 DEF RunOf

(* One pass of the sort as such a loop, over what it starts with in `left`.*)
SortState(S) == [out : Seq(S), left : Seq(S)]

SiftRun(hs, S, state, f) ==
    /\ f \in [0..Len(state.left) -> SortState(S)]
    /\ f[0] = [out |-> state.out, left |-> <<>>]
    /\ \A n \in 1..Len(state.left) : f[n] = Sift(hs, S, f[n - 1], state.left[n])

LEMMA PassRuns ==
    ASSUME NEW hs, NEW S, NEW state \in SortState(S)
    PROVE  \E f : SiftRun(hs, S, state, f) /\ Pass(hs, S, state) = f[Len(state.left)]
<1> DEFINE N == Len(state.left)
           X == SortState(S)
           x0 == [out |-> state.out, left |-> <<>>]
           F == [e \in (1..N) \X X |-> Sift(hs, S, e[2], state.left[e[1]])]
           IsRun(f) == f = [n \in 0..N |->
                               IF n = 0 THEN x0 ELSE Sift(hs, S, f[n - 1], state.left[n])]
<1>1. N \in Nat /\ x0 \in X /\ \A n \in 1..N : state.left[n] \in S
    BY DEF SortState
<1>2. \A n \in 1..N : \A x \in X : Sift(hs, S, x, state.left[n]) \in X
    BY <1>1 DEF Sift, SortState
<1>3. \A n \in 1..N : \A x \in X : F[<<n, x>>] = Sift(hs, S, x, state.left[n])
    OBVIOUS
<1>4. PICK f : RunOf(f, F, N, X, x0)
  <2>1. StaysIn(F, N, X)
    BY <1>2, <1>3 DEF StaysIn
  <2> HIDE DEF F, N, X, x0
  <2> QED
    BY <1>1, <2>1, Iteration
<1> HIDE DEF F, X, x0
<1>5. /\ f \in [0..N -> X] /\ f[0] = x0
      /\ \A n \in 1..N : f[n] = Sift(hs, S, f[n - 1], state.left[n])
  <2>1. \A n \in 1..N : f[n - 1] \in X
    BY <1>1, <1>4 DEF RunOf
  <2> HIDE DEF N
  <2> QED
    BY <1>3, <1>4, <2>1 DEF RunOf
<1>6. IsRun(f)
  <2>1. \A n \in 0..N : f[n] = IF n = 0 THEN x0 ELSE Sift(hs, S, f[n - 1], state.left[n])
    BY <1>1, <1>5
  <2> QED
    BY <1>5, <2>1
<1> DEFINE chosen == CHOOSE g : IsRun(g)
<1>7. IsRun(chosen)
  <2> HIDE DEF IsRun
  <2> QED
    BY <1>6
<1>8. Pass(hs, S, state) = chosen[N]
    BY DEF Pass, x0
<1>9. chosen = f
  <2> HIDE DEF chosen
  <2>1. chosen[0] = f[0]
    BY <1>1, <1>5, <1>7
  <2> DEFINE Same == {n \in Nat : n <= N => chosen[n] = f[n]}
  <2>2. 0 \in Same
    BY <2>1
  <2>3. ASSUME NEW n \in Nat, n \in Same PROVE n + 1 \in Same
    BY <1>1, <1>5, <1>7, <2>3
  <2>4. Nat \subseteq Same
    <3> HIDE DEF Same
    <3> QED
        BY <2>2, <2>3, Counting
  <2>5. \A n \in 0..N : chosen[n] = f[n]
    BY <1>1, <2>4
  <2>6. chosen = [n \in 0..N |-> chosen[n]]
    BY <1>7
  <2> QED
    BY <1>5, <2>5, <2>6
<1> QED
    BY <1>1, <1>5, <1>8, <1>9 DEF SiftRun, X, x0

(* What a pass keeps: every block is out or left, nothing has been lost or *)
(* duplicated (by count), and what is out has its parents before it.       *)
ParentsFirst(hs, S, out) ==
    \A i \in 1..Len(out) : \A p \in hs[out[i]].parents \cap S :
        \E j \in 1..(i - 1) : out[j] = p

Sorting(hs, S, state) ==
    /\ state \in SortState(S)
    /\ \A b \in S : b \in Range(state.out) \/ b \in Range(state.left)
    /\ Len(state.out) + Len(state.left) = Cardinality(S)
    /\ ParentsFirst(hs, S, state.out)

(* `h` rises from parents to children within `S`. *)
RisesIn(hs, h, S) ==
    \A b \in S : h[b] \in Nat /\ \A p \in hs[b].parents \cap S : h[p] < h[b]

LEMMA RangeOfAppend ==
    ASSUME NEW S, NEW s \in Seq(S), NEW b \in S
    PROVE  Range(Append(s, b)) = Range(s) \cup {b} /\ Range(s) \subseteq S
<1>1. DOMAIN s = 1..Len(s) /\ Len(s) \in Nat
    OBVIOUS
<1>2. DOMAIN Append(s, b) = 1..(Len(s) + 1)
    OBVIOUS
<1>3. \A i \in 1..Len(s) : Append(s, b)[i] = s[i]
    OBVIOUS
<1>4. Append(s, b)[Len(s) + 1] = b
    OBVIOUS
<1>5. \A i \in 1..(Len(s) + 1) : i \in 1..Len(s) \/ i = Len(s) + 1
    BY <1>1
<1>6. \A i \in 1..Len(s) : i \in 1..(Len(s) + 1)
    BY <1>1
<1>7. Len(s) + 1 \in 1..(Len(s) + 1)
    BY <1>1
<1>8. \A i \in 1..Len(s) : s[i] \in S
    OBVIOUS
<1> QED
    BY <1>1, <1>2, <1>3, <1>4, <1>5, <1>6, <1>7, <1>8, Zenon DEF Range

(* Sifting one block keeps what is out and sorts on. *)
Sifted(hs, S, acc, b, new) ==
    /\ new \in SortState(S)
    /\ ParentsFirst(hs, S, new.out)
    /\ Range(acc.out) \subseteq Range(new.out)
    /\ Range(acc.left) \subseteq Range(new.left)
    /\ \/ /\ b \in Range(new.out)
          /\ Len(new.out) = Len(acc.out) + 1 /\ Len(new.left) = Len(acc.left)
       \/ /\ b \in Range(new.left)
          /\ Len(new.out) = Len(acc.out) /\ Len(new.left) = Len(acc.left) + 1
          /\ ~ (hs[b].parents \cap S \subseteq Range(acc.out))

LEMMA SiftSorts ==
    ASSUME NEW hs, NEW S, NEW acc \in SortState(S), NEW b \in S,
           ParentsFirst(hs, S, acc.out)
    PROVE  Sifted(hs, S, acc, b, Sift(hs, S, acc, b))
<1> DEFINE new == Sift(hs, S, acc, b)
<1>1. acc.out \in Seq(S) /\ acc.left \in Seq(S)
    BY DEF SortState
<1>2. CASE hs[b].parents \cap S \subseteq Range(acc.out)
  <2>1. new = [out |-> Append(acc.out, b), left |-> acc.left]
    BY <1>2 DEF Sift
  <2>2. new.out = Append(acc.out, b) /\ new.left = acc.left /\ new \in SortState(S)
    BY <1>1, <2>1 DEF SortState
  <2>3. Range(new.out) = Range(acc.out) \cup {b} /\ Len(new.out) = Len(acc.out) + 1
    BY <1>1, <2>2, RangeOfAppend
  <2>4. ParentsFirst(hs, S, new.out)
    <3> SUFFICES ASSUME NEW i \in 1..Len(new.out), NEW p \in hs[new.out[i]].parents \cap S
                 PROVE  \E j \in 1..(i - 1) : new.out[j] = p
        BY DEF ParentsFirst
    <3>1. \A j \in 1..Len(acc.out) : new.out[j] = acc.out[j]
        BY <1>1, <2>2
    <3>2. CASE i \in 1..Len(acc.out)
      <4>1. PICK j \in 1..(i - 1) : acc.out[j] = p
          BY <3>1, <3>2 DEF ParentsFirst
      <4>2. j \in 1..Len(acc.out)
          BY <1>1, <3>2
      <4> QED
          BY <3>1, <4>1, <4>2
    <3>3. CASE i = Len(acc.out) + 1
      <4>1. new.out[i] = b
          BY <1>1, <2>2, <3>3
      <4>2. p \in Range(acc.out)
          BY <1>2, <4>1
      <4>3. PICK j \in 1..Len(acc.out) : acc.out[j] = p
          BY <1>1, <4>2 DEF Range
      <4> QED
          BY <1>1, <3>1, <3>3, <4>3
    <3> QED
        BY <1>1, <2>3, <3>2, <3>3
  <2> QED
    BY <2>2, <2>3, <2>4 DEF Sifted
<1>3. CASE ~ (hs[b].parents \cap S \subseteq Range(acc.out))
  <2>1. new = [out |-> acc.out, left |-> Append(acc.left, b)]
    BY <1>3 DEF Sift
  <2>2. new.out = acc.out /\ new.left = Append(acc.left, b) /\ new \in SortState(S)
    BY <1>1, <2>1 DEF SortState
  <2>3. Range(new.left) = Range(acc.left) \cup {b} /\ Len(new.left) = Len(acc.left) + 1
    BY <1>1, <2>2, RangeOfAppend
  <2> QED
    BY <1>3, <2>2, <2>3 DEF Sifted
<1> QED
    BY <1>2, <1>3

(* A pass sorts on, and emits something if anything was left: the lowest   *)
(* block left has no parent that is left.                                  *)
LEMMA LowestIsReady ==
    ASSUME NEW hs, NEW h, NEW S, IsFiniteSet(S), RisesIn(hs, h, S),
           NEW state, Sorting(hs, S, state), state.left # <<>>
    PROVE  \E k \in 1..Len(state.left) :
               hs[state.left[k]].parents \cap S \subseteq Range(state.out)
<1> DEFINE N == Len(state.left)
           L == state.left
           Bad == {k \in 1..N : ~ (hs[L[k]].parents \cap S \subseteq Range(state.out))}
           Safe == {b \in S : \A k \in 1..N : L[k] # b}
<1>1. L \in Seq(S) /\ N \in Nat /\ N # 0
    BY DEF Sorting, SortState
<1>2. SUFFICES ASSUME \A k \in 1..N : ~ (hs[L[k]].parents \cap S \subseteq Range(state.out))
               PROVE  FALSE
    OBVIOUS
<1>3. ASSUME NEW b \in S, \A c \in S : h[c] < h[b] => c \in Safe
      PROVE  b \in Safe
  <2> SUFFICES ASSUME NEW k \in 1..N, L[k] = b PROVE FALSE
    OBVIOUS
  <2>1. PICK p \in hs[b].parents \cap S : p \notin Range(state.out)
    BY <1>2
  <2>2. p \in Safe
    BY <1>3, <2>1 DEF RisesIn
  <2>3. p \in Range(L)
    BY <2>1 DEF Sorting
  <2>4. \E j \in 1..N : L[j] = p
    BY <1>1, <2>3 DEF Range
  <2> QED
    BY <2>2, <2>4
<1>4. S \subseteq Safe
  <2>1. \A b \in S : h[b] \in Nat
    BY DEF RisesIn
  <2>2. \A b \in S : (\A c \in S : h[c] < h[b] => c \in Safe) => b \in Safe
    BY <1>3
  <2> HIDE DEF Safe
  <2> QED
    BY <2>1, <2>2, HeightInduction
<1>5. 1 \in 1..N /\ L[1] \in S
    BY <1>1
<1> QED
    BY <1>4, <1>5

LEMMA PassSorts ==
    ASSUME NEW hs, NEW h, NEW S, IsFiniteSet(S), RisesIn(hs, h, S),
           NEW state, Sorting(hs, S, state)
    PROVE  /\ Sorting(hs, S, Pass(hs, S, state))
           /\ Len(Pass(hs, S, state).left) <= Len(state.left)
           /\ state.left # <<>> => Len(Pass(hs, S, state).left) < Len(state.left)
<1> DEFINE N == Len(state.left)
           L == state.left
           o0 == Len(state.out)
<1>1. state \in SortState(S) /\ L \in Seq(S) /\ N \in Nat /\ o0 \in Nat
    BY DEF Sorting, SortState
<1>2. PICK f : SiftRun(hs, S, state, f) /\ Pass(hs, S, state) = f[N]
    BY <1>1, PassRuns
<1>3. /\ \A n \in 0..N : f[n] \in SortState(S)
      /\ f[0].out = state.out /\ f[0].left = <<>>
      /\ \A n \in 1..N : f[n] = Sift(hs, S, f[n - 1], L[n])
  <2>1. /\ f \in [0..N -> SortState(S)]
        /\ f[0] = [out |-> state.out, left |-> <<>>]
        /\ \A n \in 1..N : f[n] = Sift(hs, S, f[n - 1], L[n])
    BY <1>2, Zenon DEF SiftRun
  <2> HIDE DEF N, L
  <2>2. \A n \in 0..N : f[n] \in SortState(S)
    BY <2>1
  <2>3. f[0].out = state.out /\ f[0].left = <<>>
    BY <2>1
  <2> QED
    BY <2>1, <2>2, <2>3, Zenon
<1> DEFINE Good(n) ==
               /\ \A b \in S : \/ b \in Range(f[n].out) \/ b \in Range(f[n].left)
                               \/ \E k \in (n + 1)..N : L[k] = b
               /\ Len(f[n].out) + Len(f[n].left) = o0 + n
               /\ Len(f[n].left) <= n
               /\ ParentsFirst(hs, S, f[n].out)
               /\ Range(state.out) \subseteq Range(f[n].out)
               /\ \A k \in 1..n : hs[L[k]].parents \cap S \subseteq Range(state.out)
                                      => Len(f[n].left) < n
           GoodUpTo == {n \in Nat : n <= N => Good(n)}
<1>4. \A n \in 0..N : Len(f[n].out) \in Nat /\ Len(f[n].left) \in Nat
    BY <1>3 DEF SortState
<1>5. 0 \in GoodUpTo
  <2>1. \A b \in S : b \in Range(state.out) \/ \E k \in 1..N : L[k] = b
    BY <1>1 DEF Sorting, Range
  <2>2. ParentsFirst(hs, S, f[0].out)
    BY <1>3 DEF Sorting
  <2>3. Len(f[0].left) = 0
    BY <1>3
  <2>4. Good(0)
    BY <1>1, <1>3, <2>1, <2>2, <2>3
  <2> HIDE DEF Good
  <2> QED
    BY <2>4
<1>6. ASSUME NEW n \in Nat, n \in GoodUpTo PROVE n + 1 \in GoodUpTo
  <2> HIDE DEF Good, N
  <2> SUFFICES ASSUME n + 1 <= N PROVE Good(n + 1)
    OBVIOUS
  <2>1. Good(n) /\ n \in 0..N /\ n + 1 \in 1..N /\ n + 1 \in 0..N
    BY <1>1, <1>6
  <2>2. /\ f[n + 1] = Sift(hs, S, f[n], L[n + 1]) /\ L[n + 1] \in S /\ f[n] \in SortState(S)
        /\ ParentsFirst(hs, S, f[n].out)
    <3>1. f[n + 1] = Sift(hs, S, f[(n + 1) - 1], L[n + 1]) /\ f[n] \in SortState(S)
        BY <1>3, <2>1
    <3>2. (n + 1) - 1 = n
        OBVIOUS
    <3>3. L[n + 1] \in S
        BY <1>1, <2>1 DEF N
    <3> QED
        BY <2>1, <3>1, <3>2, <3>3 DEF Good
  <2> DEFINE a == f[n]
             z == f[n + 1]
             c == L[n + 1]
  <2>3. /\ ParentsFirst(hs, S, z.out)
        /\ Range(a.out) \subseteq Range(z.out) /\ Range(a.left) \subseteq Range(z.left)
        /\ \/ /\ c \in Range(z.out)
              /\ Len(z.out) = Len(a.out) + 1 /\ Len(z.left) = Len(a.left)
           \/ /\ c \in Range(z.left)
              /\ Len(z.out) = Len(a.out) /\ Len(z.left) = Len(a.left) + 1
              /\ ~ (hs[c].parents \cap S \subseteq Range(a.out))
    <3>1. Sifted(hs, S, f[n], L[n + 1], f[n + 1])
        BY <2>2, SiftSorts
    <3> QED
        BY <3>1 DEF Sifted
  <2>4. /\ Len(a.out) \in Nat /\ Len(a.left) \in Nat
        /\ Len(a.out) + Len(a.left) = o0 + n /\ Len(a.left) <= n
    BY <1>4, <2>1 DEF Good
  <2>5. Len(z.out) + Len(z.left) = o0 + (n + 1) /\ Len(z.left) <= n + 1
    <3>1. \/ Len(z.out) = Len(a.out) + 1 /\ Len(z.left) = Len(a.left)
          \/ Len(z.out) = Len(a.out) /\ Len(z.left) = Len(a.left) + 1
        BY <2>3
    <3> DEFINE p == Len(a.out)
               q == Len(a.left)
               x == Len(z.out)
               y == Len(z.left)
    <3>2. (x = p + 1 /\ y = q) \/ (x = p /\ y = q + 1)
        BY <3>1
    <3>3. p \in Nat /\ q \in Nat /\ p + q = o0 + n /\ q <= n
        BY <2>4
    <3> HIDE DEF p, q, x, y, o0
    <3>4. x + y = o0 + (n + 1) /\ y <= n + 1
        BY <1>1, <3>2, <3>3
    <3> QED
        BY <3>4 DEF x, y
  <2>6. ASSUME NEW b \in S
        PROVE  \/ b \in Range(z.out) \/ b \in Range(z.left)
               \/ \E k \in ((n + 1) + 1)..N : L[k] = b
    <3>1. \/ b \in Range(a.out) \/ b \in Range(a.left) \/ \E k \in (n + 1)..N : L[k] = b
        BY <2>1 DEF Good
    <3>2. \A k \in (n + 1)..N : k = n + 1 \/ k \in ((n + 1) + 1)..N
        BY <1>1
    <3>3. b = c \/ b \in Range(a.out) \/ b \in Range(a.left)
              \/ \E k \in ((n + 1) + 1)..N : L[k] = b
        BY <3>1, <3>2
    <3> HIDE DEF a, z, c, L
    <3> QED
        BY <2>3, <3>3
  <2>7. Range(state.out) \subseteq Range(z.out) /\ Range(state.out) \subseteq Range(a.out)
    BY <2>1, <2>3 DEF Good
  <2>8. ASSUME NEW k \in 1..(n + 1), hs[L[k]].parents \cap S \subseteq Range(state.out)
        PROVE  Len(z.left) < n + 1
    <3>1. CASE k \in 1..n
      <4>1. Len(a.left) < n
          BY <2>1, <2>8, <3>1 DEF Good
      <4> HIDE DEF a, z, c
      <4> QED
          BY <2>3, <2>4, <4>1
    <3>2. CASE k = n + 1
      <4>1. hs[c].parents \cap S \subseteq Range(a.out)
          BY <2>7, <2>8, <3>2
      <4> HIDE DEF a, z, c
      <4> QED
          BY <2>3, <2>4, <4>1
    <3> QED
        BY <3>1, <3>2
  <2> QED
    BY <2>3, <2>5, <2>6, <2>7, <2>8 DEF Good
<1>7. Nat \subseteq GoodUpTo
  <2> HIDE DEF GoodUpTo
  <2> QED
    BY <1>5, <1>6, Counting
<1>8. Good(N)
  <2> HIDE DEF Good, N
  <2> QED
    BY <1>1, <1>7
<1> DEFINE z == f[N]
<1>9. z \in SortState(S) /\ Len(z.out) \in Nat /\ Len(z.left) \in Nat
    BY <1>1, <1>3, <1>4
<1>10. \A b \in S : b \in Range(z.out) \/ b \in Range(z.left)
  <2>1. ~ \E k \in (N + 1)..N : L[k] = L[k]
    BY <1>1
  <2> QED
    BY <1>1, <1>8
<1>11. /\ Len(z.out) + Len(z.left) = o0 + N /\ Len(z.left) <= N
       /\ ParentsFirst(hs, S, z.out)
    BY <1>8
<1>12. o0 + N = Cardinality(S)
    BY DEF Sorting
<1>13. Sorting(hs, S, z)
  <2> HIDE DEF z, o0, N
  <2> QED
    BY <1>9, <1>10, <1>11, <1>12 DEF Sorting
<1>14. ASSUME L # <<>> PROVE Len(z.left) < N
  <2>1. PICK k \in 1..N : hs[L[k]].parents \cap S \subseteq Range(state.out)
    BY <1>14, LowestIsReady
  <2> QED
    BY <1>8, <2>1
<1> QED
    BY <1>2, <1>11, <1>13, <1>14

(* topological_sort lists the blocks it is given, each once, and each      *)
(* after those of its parents that are among them.                         *)
LEMMA ListsByCount ==
    ASSUME NEW S, IsFiniteSet(S), NEW s \in Seq(S), Len(s) = Cardinality(S),
           \A b \in S : b \in Range(s)
    PROVE  Lists(s, S)
<1> DEFINE n == Len(s)
<1>1. n \in Nat /\ s \in [1..n -> S] /\ DOMAIN s = 1..n
    OBVIOUS
<1>2. \A b \in S : \E i \in 1..n : s[i] = b
    BY <1>1 DEF Range
<1>3. IsFiniteSet(1..n) /\ Cardinality(1..n) = n
    BY <1>1, FS_Interval
<1>4. s \in Surjection(1..n, S)
    BY <1>1, <1>2 DEF Surjection
<1>5. s \in Injection(1..n, S)
  <2> HIDE DEF n
  <2> QED
    BY <1>3, <1>4, FS_SurjSameCardinalityImpliesInj DEF n
<1>6. \A i, j \in 1..n : s[i] = s[j] => i = j
    BY <1>1, <1>5 DEF Injection, IsInjective
<1> QED
    BY <1>1, <1>2, <1>6 DEF Lists

LEMMA TopologicalSortSorts ==
    ASSUME NEW hs, NEW dt, NEW h, NEW S, IsFiniteSet(S), Weighed(dt, S),
           RisesIn(hs, h, S)
    PROVE  /\ TopologicalSort(hs, dt, S) \in Seq(S)
           /\ Lists(TopologicalSort(hs, dt, S), S)
           /\ ParentsFirst(hs, S, TopologicalSort(hs, dt, S))
<1> DEFINE N == Cardinality(S)
           X == {x \in SortState(S) : Sorting(hs, S, x)}
           x0 == [out |-> <<>>, left |-> LightestFirst(dt, S)]
           IsRun(f) == f = [n \in 0..N |-> IF n = 0 THEN x0 ELSE Pass(hs, S, f[n - 1])]
           F == [e \in (1..N) \X X |-> Pass(hs, S, e[2])]
<1>1. N \in Nat
    BY FS_CardinalityType
<1>2. LightestFirst(dt, S) \in Seq(S) /\ Lists(LightestFirst(dt, S), S)
    BY LightestFirstLists
<1>3. x0 \in X /\ Len(x0.left) = N
  <2>1. \A b \in S : b \in Range(LightestFirst(dt, S))
    BY <1>2 DEF Lists, Range
  <2>2. Len(LightestFirst(dt, S)) = N
    BY <1>2 DEF Lists
  <2>3. ParentsFirst(hs, S, <<>>)
    BY DEF ParentsFirst
  <2>4. x0 \in SortState(S)
    BY <1>2 DEF SortState
  <2>5. Len(x0.out) + Len(x0.left) = N
    BY <1>1, <2>2
  <2>6. Sorting(hs, S, x0)
    BY <2>1, <2>3, <2>4, <2>5 DEF Sorting
  <2> QED
    BY <2>2, <2>4, <2>6
<1>4. ASSUME NEW x \in X
      PROVE  /\ Pass(hs, S, x) \in X
             /\ Len(Pass(hs, S, x).left) <= Len(x.left)
             /\ x.left # <<>> => Len(Pass(hs, S, x).left) < Len(x.left)
  <2>1. Sorting(hs, S, x)
    OBVIOUS
  <2>2. Sorting(hs, S, Pass(hs, S, x))
    BY <2>1, PassSorts
  <2> QED
    BY <2>1, <2>2, PassSorts DEF Sorting
<1> HIDE DEF X, x0
<1>5. PICK f : RunOf(f, F, N, X, x0)
  <2>1. StaysIn(F, N, X)
    BY <1>4 DEF StaysIn
  <2> HIDE DEF F, N
  <2> QED
    BY <1>1, <1>3, <2>1, Iteration
<1>6. /\ f \in [0..N -> X] /\ f[0] = x0
      /\ \A n \in 1..N : f[n] = Pass(hs, S, f[n - 1])
  <2>1. \A n \in 1..N : f[n - 1] \in X
    BY <1>1, <1>5 DEF RunOf
  <2> HIDE DEF N
  <2> QED
    BY <1>5, <2>1 DEF RunOf
<1>7. IsRun(f)
  <2>1. \A n \in 0..N : f[n] = IF n = 0 THEN x0 ELSE Pass(hs, S, f[n - 1])
    BY <1>1, <1>6
  <2> QED
    BY <1>6, <2>1
<1> DEFINE g == CHOOSE g : IsRun(g)
<1>8. g = [n \in 0..N |-> IF n = 0 THEN x0 ELSE Pass(hs, S, g[n - 1])]
  <2>1. IsRun(g)
    <3> HIDE DEF IsRun
    <3> QED
        BY <1>7
  <2> HIDE DEF g
  <2> QED
    BY <2>1
<1>9. TopologicalSort(hs, dt, S) = g[N].out \o g[N].left
    BY Zenon DEF TopologicalSort, x0
<1> HIDE DEF g, IsRun, F
<1> DEFINE Done == {n \in Nat : n <= N => g[n] \in X /\ Len(g[n].left) <= N - n}
<1>10. 0 \in Done
    BY <1>1, <1>3, <1>8
<1>11. ASSUME NEW n \in Nat, n \in Done PROVE n + 1 \in Done
  <2> SUFFICES ASSUME n + 1 <= N
               PROVE  g[n + 1] \in X /\ Len(g[n + 1].left) <= N - (n + 1)
    OBVIOUS
  <2>1. g[n] \in X /\ Len(g[n].left) <= N - n
    BY <1>1, <1>11
  <2>2. g[n + 1] = Pass(hs, S, g[n])
    BY <1>1, <1>8
  <2> DEFINE p == Len(g[n].left)
             q == Len(g[n + 1].left)
  <2>3. g[n + 1] \in X /\ q <= p /\ (g[n].left # <<>> => q < p)
    BY <1>4, <2>1, <2>2
  <2>4. g[n].left \in Seq(S) /\ g[n + 1].left \in Seq(S)
    BY <2>1, <2>3 DEF X, SortState
  <2>5. p \in Nat /\ q \in Nat /\ (g[n].left = <<>> => p = 0)
    BY <2>4
  <2>6. p <= N - n
    BY <2>1
  <2> HIDE DEF p, q, N
  <2>7. q <= N - (n + 1)
    BY <1>1, <2>3, <2>5, <2>6
  <2> QED
    BY <2>3, <2>7 DEF q
<1>12. Nat \subseteq Done
  <2> HIDE DEF Done
  <2> QED
    BY <1>10, <1>11, Counting
<1>13. g[N] \in X /\ Len(g[N].left) <= 0
  <2> HIDE DEF N
  <2> QED
    BY <1>1, <1>12
<1> DEFINE z == g[N]
<1>14. z.out \in Seq(S) /\ z.left \in Seq(S) /\ Sorting(hs, S, z)
    BY <1>13 DEF X, SortState
<1>15. z.left = <<>>
  <2>1. Len(z.left) <= 0
    BY <1>13
  <2> HIDE DEF z
  <2> QED
    BY <1>14, <2>1
<1> HIDE DEF z
<1>16. TopologicalSort(hs, dt, S) = z.out
    BY <1>9, <1>14, <1>15 DEF z
<1>17. Len(z.out) = N /\ \A b \in S : b \in Range(z.out)
  <2>1. Range(<<>>) = {}
    BY DEF Range
  <2>2. Len(z.out) + Len(z.left) = N /\ Len(z.left) = 0 /\ Len(z.out) \in Nat
    BY <1>14, <1>15 DEF Sorting
  <2>3. \A b \in S : b \in Range(z.out) \/ b \in Range(z.left)
    BY <1>14 DEF Sorting
  <2> HIDE DEF N
  <2> QED
    BY <1>15, <2>1, <2>2, <2>3
<1>18. Lists(z.out, S)
    BY <1>14, <1>17, ListsByCount
<1>19. ParentsFirst(hs, S, z.out)
    BY <1>14 DEF Sorting
<1> QED
    BY <1>14, <1>16, <1>18, <1>19

-----------------------------------------------------------------------------
(* Sums of work.  The library's fold takes the members of a set out in an  *)
(* order it chooses; the total does not depend on it.                      *)
Worked(hs, S) == IsFiniteSet(S) /\ \A b \in S : hs[b].work \in Nat

Chosen(s) == CHOOSE x \in s : TRUE

WorkFn(hs, S, f) ==
    /\ f \in [SUBSET S -> Nat]
    /\ f[{}] = 0
    /\ \A s \in SUBSET S : s # {} => f[s] = hs[Chosen(s)].work + f[s \ {Chosen(s)}]

LEMMA WorkRecursion ==
    ASSUME NEW hs, NEW S, Worked(hs, S)
    PROVE  \E f : WorkFn(hs, S, f) /\ WorkOf(hs, S) = f[S]
<1> DEFINE Rec(f, s) == IF s = {} THEN 0 ELSE hs[Chosen(s)].work + f[s \ {Chosen(s)}]
           Upto(f, n) == \A s \in SUBSET S : Cardinality(s) <= n => f[s] = Rec(f, s)
           Reached == {n \in Nat : \E f \in [SUBSET S -> Nat] : Upto(f, n)}
           IsWork(f) == f = [s \in SUBSET S |-> Rec(f, s)]
<1>1. \A s \in SUBSET S : s # {} => /\ Chosen(s) \in S /\ hs[Chosen(s)].work \in Nat
                                    /\ s \ {Chosen(s)} \in SUBSET S
    BY DEF Chosen, Worked
<1>2. \A f \in [SUBSET S -> Nat] : \A s \in SUBSET S : Rec(f, s) \in Nat
    BY <1>1
<1>3. \A s \in SUBSET S : /\ IsFiniteSet(s) /\ Cardinality(s) \in Nat
                          /\ Cardinality(s) <= Cardinality(S)
    BY FS_Subset, FS_CardinalityType DEF Worked
<1>4. \A s \in SUBSET S : s # {} => Cardinality(s \ {Chosen(s)}) = Cardinality(s) - 1
    BY <1>3, FS_RemoveElement DEF Chosen
<1>5. 0 \in Reached
  <2> DEFINE f == [s \in SUBSET S |-> 0]
  <2>1. \A s \in SUBSET S : Cardinality(s) <= 0 => s = {}
    BY <1>3, FS_EmptySet
  <2>2. f \in [SUBSET S -> Nat] /\ Upto(f, 0)
    BY <2>1
  <2> QED
    BY <2>2
<1>6. ASSUME NEW n \in Nat, n \in Reached PROVE n + 1 \in Reached
  <2>1. PICK f \in [SUBSET S -> Nat] : Upto(f, n)
    BY <1>6
  <2> DEFINE g == [s \in SUBSET S |-> Rec(f, s)]
  <2>2. g \in [SUBSET S -> Nat] /\ \A s \in SUBSET S : g[s] = Rec(f, s)
    BY <1>2
  <2> HIDE DEF g
  <2>3. ASSUME NEW s \in SUBSET S, Cardinality(s) <= n + 1 PROVE g[s] = Rec(g, s)
    <3>1. CASE s = {}
        BY <2>2, <3>1
    <3>2. CASE s # {}
      <4>1. s \ {Chosen(s)} \in SUBSET S /\ Cardinality(s \ {Chosen(s)}) <= n
          BY <1>1, <1>3, <1>4, <2>3, <3>2
      <4>2. f[s \ {Chosen(s)}] = g[s \ {Chosen(s)}]
          BY <2>1, <2>2, <4>1
      <4> QED
          BY <2>2, <3>2, <4>2
    <3> QED
        BY <3>1, <3>2
  <2>4. Upto(g, n + 1)
    BY <2>3
  <2> HIDE DEF Upto
  <2> QED
    BY <2>2, <2>4
<1>7. Nat \subseteq Reached
  <2> HIDE DEF Reached
  <2> QED
    BY <1>5, <1>6, Counting
<1>8. PICK f \in [SUBSET S -> Nat] : Upto(f, Cardinality(S))
    BY <1>3, <1>7
<1>9. IsWork(f)
  <2>1. \A s \in SUBSET S : f[s] = Rec(f, s)
    BY <1>3, <1>8
  <2> HIDE DEF Rec
  <2> QED
    BY <1>8, <2>1
<1> DEFINE g == CHOOSE g : IsWork(g)
<1>10. IsWork(g)
  <2> HIDE DEF IsWork
  <2> QED
    BY <1>9
<1>11. WorkOf(hs, S) = g[S]
    BY Zenon DEF WorkOf, MapThenSumSet, MapThenFoldSet, Chosen
<1> HIDE DEF g
<1>12. \A s \in SUBSET S : g[s] = Rec(g, s)
    BY <1>10
<1>13. \A s \in SUBSET S : g[s] = f[s]
  <2> DEFINE Same == {n \in Nat : \A s \in SUBSET S : Cardinality(s) <= n => g[s] = f[s]}
  <2>1. \A s \in SUBSET S : f[s] = Rec(f, s)
    BY <1>3, <1>8
  <2>2. 0 \in Same
    <3>1. \A s \in SUBSET S : Cardinality(s) <= 0 => s = {}
        BY <1>3, FS_EmptySet
    <3> QED
        BY <1>12, <2>1, <3>1
  <2>3. ASSUME NEW n \in Nat, n \in Same PROVE n + 1 \in Same
    <3> SUFFICES ASSUME NEW s \in SUBSET S, Cardinality(s) <= n + 1 PROVE g[s] = f[s]
        OBVIOUS
    <3>1. CASE s = {}
        BY <1>12, <2>1, <3>1
    <3>2. CASE s # {}
      <4>1. s \ {Chosen(s)} \in SUBSET S /\ Cardinality(s \ {Chosen(s)}) <= n
          BY <1>1, <1>3, <1>4, <3>2
      <4>2. f[s \ {Chosen(s)}] = g[s \ {Chosen(s)}]
          BY <2>3, <4>1
      <4> QED
          BY <1>12, <2>1, <3>2, <4>2
    <3> QED
        BY <3>1, <3>2
  <2>4. Nat \subseteq Same
    <3> HIDE DEF Same
    <3> QED
        BY <2>2, <2>3, Counting
  <2> QED
    BY <1>3, <2>4
<1>14. WorkFn(hs, S, g)
  <2>1. \A s \in SUBSET S : g[s] \in Nat
    BY <1>8, <1>13
  <2>2. g = [s \in SUBSET S |-> g[s]]
    BY <1>10
  <2>3. g \in [SUBSET S -> Nat]
    BY <2>1, <2>2
  <2> QED
    BY <1>12, <2>3 DEF WorkFn
<1> QED
    BY <1>11, <1>14

(* Induction over the subsets of a finite set, as a fact about a set of    *)
(* sets.                                                                   *)
GrowsBy(G, S) == {} \in G /\ \A T \in SUBSET S : \A x \in S \ T : T \in G => T \cup {x} \in G

LEMMA FiniteInduction ==
    ASSUME NEW S, IsFiniteSet(S), NEW G, GrowsBy(G, S)
    PROVE  S \in G
<1> DEFINE Upto == {n \in Nat : \A T \in SUBSET S : Cardinality(T) = n => T \in G}
<1>1. \A T \in SUBSET S : IsFiniteSet(T) /\ Cardinality(T) \in Nat
    BY FS_Subset, FS_CardinalityType
<1>2. 0 \in Upto
  <2>1. \A T \in SUBSET S : Cardinality(T) = 0 => T = {}
    BY <1>1, FS_EmptySet
  <2> QED
    BY <2>1 DEF GrowsBy
<1>3. ASSUME NEW n \in Nat, n \in Upto PROVE n + 1 \in Upto
  <2> SUFFICES ASSUME NEW T \in SUBSET S, Cardinality(T) = n + 1 PROVE T \in G
    OBVIOUS
  <2>1. T # {}
    BY FS_EmptySet
  <2>2. PICK x \in T : TRUE
    BY <2>1
  <2>3. T \ {x} \in SUBSET S /\ Cardinality(T \ {x}) = n
    <3>1. IsFiniteSet(T) /\ x \in T
        BY <1>1, <2>2
    <3>2. Cardinality(T \ {x}) = Cardinality(T) - 1
        BY <3>1, FS_RemoveElement
    <3> QED
        BY <3>2
  <2>4. T \ {x} \in G
    BY <1>3, <2>3
  <2>5. x \in S \ (T \ {x}) /\ T = (T \ {x}) \cup {x}
    BY <2>2
  <2> QED
    BY <2>3, <2>4, <2>5 DEF GrowsBy
<1>4. Nat \subseteq Upto
  <2> HIDE DEF Upto
  <2> QED
    BY <1>2, <1>3, Counting
<1> QED
    BY <1>1, <1>4

(* Two such folds agree where their works do. *)
LEMMA WorkIsUnique ==
    ASSUME NEW hs1, NEW hs2, NEW S1, NEW S2, NEW f1, NEW f2, IsFiniteSet(S1),
           WorkFn(hs1, S1, f1), WorkFn(hs2, S2, f2), S1 \subseteq S2,
           \A b \in S1 : hs1[b].work = hs2[b].work
    PROVE  \A s \in SUBSET S1 : f1[s] = f2[s]
<1> DEFINE Same == {n \in Nat : \A s \in SUBSET S1 : Cardinality(s) = n => f1[s] = f2[s]}
<1>1. \A s \in SUBSET S1 : IsFiniteSet(s) /\ Cardinality(s) \in Nat
    BY FS_Subset, FS_CardinalityType
<1>2. 0 \in Same
  <2>1. \A s \in SUBSET S1 : Cardinality(s) = 0 => s = {}
    BY <1>1, FS_EmptySet
  <2> QED
    BY <2>1 DEF WorkFn
<1>3. ASSUME NEW n \in Nat, n \in Same PROVE n + 1 \in Same
  <2> SUFFICES ASSUME NEW s \in SUBSET S1, Cardinality(s) = n + 1 PROVE f1[s] = f2[s]
    OBVIOUS
  <2>1. s # {}
    BY FS_EmptySet
  <2>2. Chosen(s) \in s
    BY <2>1 DEF Chosen
  <2>3. s \ {Chosen(s)} \in SUBSET S1 /\ Cardinality(s \ {Chosen(s)}) = n
    BY <1>1, <2>2, FS_RemoveElement
  <2>4. f1[s \ {Chosen(s)}] = f2[s \ {Chosen(s)}] /\ hs1[Chosen(s)].work = hs2[Chosen(s)].work
    BY <1>3, <2>2, <2>3
  <2>5. s \in SUBSET S2
    OBVIOUS
  <2> QED
    BY <2>1, <2>4, <2>5 DEF WorkFn
<1>4. Nat \subseteq Same
  <2> HIDE DEF Same
  <2> QED
    BY <1>2, <1>3, Counting
<1> QED
    BY <1>1, <1>4

LEMMA WorkedSubset ==
    ASSUME NEW hs, NEW S, Worked(hs, S), NEW T \in SUBSET S
    PROVE  Worked(hs, T)
BY FS_Subset DEF Worked

LEMMA WorkAgrees ==
    ASSUME NEW hs1, NEW hs2, NEW S, Worked(hs1, S), \A b \in S : hs1[b].work = hs2[b].work
    PROVE  WorkOf(hs1, S) = WorkOf(hs2, S) /\ WorkOf(hs1, S) \in Nat
<1>1. Worked(hs2, S)
    BY DEF Worked
<1>2. PICK f1 : WorkFn(hs1, S, f1) /\ WorkOf(hs1, S) = f1[S]
    BY WorkRecursion
<1>3. PICK f2 : WorkFn(hs2, S, f2) /\ WorkOf(hs2, S) = f2[S]
    BY <1>1, WorkRecursion
<1>4. IsFiniteSet(S) /\ S \in SUBSET S
    BY DEF Worked
<1>5. f1[S] = f2[S]
    BY <1>2, <1>3, <1>4, WorkIsUnique
<1> QED
    BY <1>2, <1>3, <1>4, <1>5 DEF WorkFn

(* One member more adds its work. *)
LEMMA WorkAdd ==
    ASSUME NEW hs, NEW S, Worked(hs, S), NEW x \in S
    PROVE  WorkOf(hs, S) = hs[x].work + WorkOf(hs, S \ {x}) /\ WorkOf(hs, S \ {x}) \in Nat
<1>1. PICK f : WorkFn(hs, S, f) /\ WorkOf(hs, S) = f[S]
    BY WorkRecursion
<1> DEFINE Fits == {n \in Nat : \A s \in SUBSET S : Cardinality(s) = n =>
                        \A y \in s : f[s] = hs[y].work + f[s \ {y}]}
<1>2. \A s \in SUBSET S : IsFiniteSet(s) /\ Cardinality(s) \in Nat
    BY FS_Subset, FS_CardinalityType DEF Worked
<1>3. \A y \in S : hs[y].work \in Nat
    BY DEF Worked
<1>4. \A s \in SUBSET S : f[s] \in Nat
    BY <1>1 DEF WorkFn
<1>5. 0 \in Fits
  <2>1. \A s \in SUBSET S : Cardinality(s) = 0 => s = {}
    BY <1>2, FS_EmptySet
  <2> QED
    BY <2>1
<1>6. ASSUME NEW n \in Nat, n \in Fits PROVE n + 1 \in Fits
  <2> SUFFICES ASSUME NEW s \in SUBSET S, Cardinality(s) = n + 1, NEW y \in s
               PROVE  f[s] = hs[y].work + f[s \ {y}]
    OBVIOUS
  <2> DEFINE c == Chosen(s)
  <2>1. c \in s /\ f[s] = hs[c].work + f[s \ {c}]
    BY <1>1 DEF WorkFn, Chosen
  <2> HIDE DEF c
  <2>2. CASE c # y
    <3>1. /\ s \ {c} \in SUBSET S /\ Cardinality(s \ {c}) = n
          /\ s \ {y} \in SUBSET S /\ Cardinality(s \ {y}) = n
        BY <1>2, <2>1, FS_RemoveElement
    <3>2. f[s \ {c}] = hs[y].work + f[(s \ {c}) \ {y}]
        BY <1>6, <2>2, <3>1
    <3>3. f[s \ {y}] = hs[c].work + f[(s \ {y}) \ {c}]
        BY <1>6, <2>1, <2>2, <3>1
    <3>4. (s \ {c}) \ {y} = (s \ {y}) \ {c} /\ (s \ {c}) \ {y} \in SUBSET S
        OBVIOUS
    <3>5. hs[c].work \in Nat /\ hs[y].work \in Nat /\ f[(s \ {c}) \ {y}] \in Nat
        BY <1>3, <1>4, <2>1, <3>4
    <3> DEFINE wc == hs[c].work
               wy == hs[y].work
               r == f[(s \ {c}) \ {y}]
    <3>6. f[s] = wc + (wy + r) /\ f[s \ {y}] = wc + r /\ wc \in Nat /\ wy \in Nat /\ r \in Nat
        BY <2>1, <3>2, <3>3, <3>4, <3>5
    <3> HIDE DEF wc, wy, r
    <3>7. f[s] = wy + f[s \ {y}]
        BY <3>6
    <3> QED
        BY <3>7 DEF wy
  <2> QED
    BY <2>1, <2>2
<1>7. Nat \subseteq Fits
  <2> HIDE DEF Fits
  <2> QED
    BY <1>5, <1>6, Counting
<1>8. f[S] = hs[x].work + f[S \ {x}]
    BY <1>2, <1>7
<1>9. Worked(hs, S \ {x}) /\ S \ {x} \in SUBSET S
    BY WorkedSubset
<1>10. PICK g : WorkFn(hs, S \ {x}, g) /\ WorkOf(hs, S \ {x}) = g[S \ {x}]
    BY <1>9, WorkRecursion
<1>11. g[S \ {x}] = f[S \ {x}]
    BY <1>1, <1>9, <1>10, WorkIsUnique DEF Worked
<1> QED
    BY <1>1, <1>4, <1>8, <1>9, <1>10, <1>11

LEMMA WorkUnion ==
    ASSUME NEW hs, NEW S, NEW T, Worked(hs, S), Worked(hs, T), S \cap T = {}
    PROVE  /\ Worked(hs, S \cup T)
           /\ WorkOf(hs, S \cup T) = WorkOf(hs, S) + WorkOf(hs, T)
           /\ WorkOf(hs, S) \in Nat /\ WorkOf(hs, T) \in Nat
<1> DEFINE G == {U \in SUBSET T : WorkOf(hs, S \cup U) = WorkOf(hs, S) + WorkOf(hs, U)}
<1>1. \A U \in SUBSET (S \cup T) : Worked(hs, U)
  <2>1. Worked(hs, S \cup T)
    BY FS_Union DEF Worked
  <2> QED
    BY <2>1, WorkedSubset
<1>2. \A U \in SUBSET (S \cup T) : WorkOf(hs, U) \in Nat
    BY <1>1, WorkAgrees
<1>3. {} \in G
  <2>1. WorkOf(hs, {}) = 0
    <3>1. Worked(hs, {})
        BY <1>1
    <3>2. PICK f : WorkFn(hs, {}, f) /\ WorkOf(hs, {}) = f[{}]
        BY <3>1, WorkRecursion
    <3> QED
        BY <3>2 DEF WorkFn
  <2>2. S \cup {} = S
    OBVIOUS
  <2>3. WorkOf(hs, S) + 0 = WorkOf(hs, S)
    BY <1>2
  <2> QED
    BY <2>1, <2>2, <2>3
<1>4. ASSUME NEW U \in SUBSET T, NEW x \in T \ U, U \in G PROVE U \cup {x} \in G
  <2>1. /\ (S \cup (U \cup {x})) \ {x} = S \cup U /\ x \in S \cup (U \cup {x})
        /\ (U \cup {x}) \ {x} = U
        /\ Worked(hs, S \cup (U \cup {x})) /\ Worked(hs, U \cup {x})
    BY <1>1
  <2>2. WorkOf(hs, S \cup (U \cup {x})) = hs[x].work + WorkOf(hs, S \cup U)
    BY <2>1, WorkAdd
  <2>3. WorkOf(hs, U \cup {x}) = hs[x].work + WorkOf(hs, U)
    BY <2>1, WorkAdd
  <2>4. hs[x].work \in Nat /\ WorkOf(hs, U) \in Nat /\ WorkOf(hs, S) \in Nat
    BY <1>2 DEF Worked
  <2>5. WorkOf(hs, S \cup U) = WorkOf(hs, S) + WorkOf(hs, U)
    BY <1>4
  <2> DEFINE wx == hs[x].work
             wu == WorkOf(hs, U)
             ws == WorkOf(hs, S)
             z == WorkOf(hs, S \cup (U \cup {x}))
             y == WorkOf(hs, U \cup {x})
  <2>6. z = wx + (ws + wu) /\ y = wx + wu /\ wx \in Nat /\ wu \in Nat /\ ws \in Nat
    BY <2>2, <2>3, <2>4, <2>5
  <2> HIDE DEF wx, wu, ws, z, y
  <2>7. z = ws + y
    BY <2>6
  <2>8. U \cup {x} \in SUBSET T
    OBVIOUS
  <2> QED
    BY <2>7, <2>8 DEF z, y, ws
<1>5. T \in G
  <2>1. GrowsBy(G, T)
    <3> HIDE DEF G
    <3> QED
        BY <1>3, <1>4 DEF GrowsBy
  <2> HIDE DEF G
  <2> QED
    BY <2>1, FiniteInduction DEF Worked
<1> QED
    BY <1>1, <1>2, <1>5

-----------------------------------------------------------------------------
(* The colouring.  Anticone sizes are numbers, of blues of a finite set.   *)
LEMMA ImageIsFinite ==
    ASSUME NEW S, IsFiniteSet(S), NEW f
    PROVE  IsFiniteSet({f[x] : x \in S})
<1> DEFINE g == [x \in S |-> f[x]]
           T == {f[x] : x \in S}
<1>1. g \in Surjection(S, T)
    BY DEF Surjection
<1> QED
    BY <1>1, FS_Surjection

SizedIn(blues, sizes, U) == blues \subseteq U /\ \A b \in blues : sizes[b] \in Nat

ChainSized(chain, U) ==
    /\ IsFiniteSet(DOMAIN chain) /\ IsFiniteSet(U)
    /\ \A x \in DOMAIN chain :
          SizedIn(chain[x].mergeset_blues, chain[x].blues_anticone_sizes, U)

Counted(conc, U) == IsFiniteSet(conc) /\ \A e \in conc : e.blue \in U /\ e.existing \in Nat

LEMMA ConcurrentIsCounted ==
    ASSUME NEW past, NEW c, NEW blues, NEW sizes, NEW U, IsFiniteSet(U), SizedIn(blues, sizes, U)
    PROVE  Counted(Concurrent(past, c, blues, sizes), U)
<1> DEFINE S == blues \ past[c]
           f == [b \in S |-> [blue |-> b, existing |-> sizes[b]]]
<1>1. IsFiniteSet(S)
    BY FS_Subset DEF SizedIn
<1>2. Concurrent(past, c, blues, sizes) = {f[b] : b \in S}
    BY DEF Concurrent
<1>3. IsFiniteSet({f[b] : b \in S})
  <2> HIDE DEF f, S
  <2> QED
    BY <1>1, ImageIsFinite
<1>4. \A e \in Concurrent(past, c, blues, sizes) : e.blue \in U /\ e.existing \in Nat
    BY DEF Concurrent, SizedIn
<1> QED
    BY <1>2, <1>3, <1>4 DEF Counted

LEMMA ConcurrentBluesAreCounted ==
    ASSUME NEW past, NEW chain, NEW c, NEW blues, NEW sizes, NEW U,
           ChainSized(chain, U), SizedIn(blues, sizes, U)
    PROVE  Counted(ConcurrentBlues(past, chain, c, blues, sizes), U)
<1> DEFINE D == DOMAIN chain \ past[c]
           f == [x \in D |-> Concurrent(past, c, chain[x].mergeset_blues,
                                        chain[x].blues_anticone_sizes)]
           own == Concurrent(past, c, blues, sizes)
           all == {f[x] : x \in D}
<1>1. Counted(own, U)
    BY ConcurrentIsCounted DEF ChainSized
<1>2. \A x \in D : Counted(f[x], U)
    BY ConcurrentIsCounted DEF ChainSized
<1>3. IsFiniteSet(all)
  <2>1. IsFiniteSet(D)
    BY FS_Subset DEF ChainSized
  <2> HIDE DEF f, D
  <2> QED
    BY <2>1, ImageIsFinite
<1>4. ConcurrentBlues(past, chain, c, blues, sizes) = own \cup UNION all
    BY DEF ConcurrentBlues
<1>5. \A T \in all : Counted(T, U)
    BY <1>2
<1> HIDE DEF all, own
<1>6. IsFiniteSet(own \cup UNION all)
  <2>1. IsFiniteSet(UNION all)
    BY <1>3, <1>5, FS_UNION DEF Counted
  <2> QED
    BY <1>1, <2>1, FS_Union DEF Counted
<1>7. \A e \in own \cup UNION all : e.blue \in U /\ e.existing \in Nat
    BY <1>1, <1>5 DEF Counted
<1> QED
    BY <1>4, <1>6, <1>7 DEF Counted

(* The state of the colouring loop over blocks of `U`. *)
SizeMaps(U) == UNION {[D -> Nat] : D \in SUBSET U}

ColourState(U) ==
    {acc \in [blues : SUBSET U, reds : SUBSET U, sizes : SizeMaps(U)] :
        acc.blues \subseteq DOMAIN acc.sizes}

LEMMA RecountIsSized ==
    ASSUME NEW U, NEW sizes \in SizeMaps(U), NEW c \in U, NEW conc, Counted(conc, U)
    PROVE  /\ Recount(sizes, c, conc) \in SizeMaps(U)
           /\ DOMAIN sizes \cup {c} \subseteq DOMAIN Recount(sizes, c, conc)
<1> DEFINE D == DOMAIN sizes \cup {c} \cup {e.blue : e \in conc}
           R == Recount(sizes, c, conc)
<1>1. PICK D0 \in SUBSET U : sizes \in [D0 -> Nat]
    BY DEF SizeMaps
<1>2. D \in SUBSET U
    BY <1>1 DEF Counted
<1>3. Cardinality(conc) \in Nat
    BY FS_CardinalityType DEF Counted
<1>4. ASSUME NEW b \in D, \E e \in conc : e.blue = b
      PROVE  (CHOOSE e \in conc : e.blue = b).existing + 1 \in Nat
  <2>1. (CHOOSE e \in conc : e.blue = b) \in conc
    BY <1>4
  <2> QED
    BY <2>1 DEF Counted
<1>5. \A b \in D : b \in DOMAIN sizes \/ b = c \/ \E e \in conc : e.blue = b
    OBVIOUS
<1>6. \A b \in DOMAIN sizes : sizes[b] \in Nat
    BY <1>1
<1>7. ASSUME NEW b \in D
      PROVE  (IF b = c THEN Cardinality(conc)
              ELSE IF \E e \in conc : e.blue = b
                   THEN (CHOOSE e \in conc : e.blue = b).existing + 1
                   ELSE sizes[b]) \in Nat
  <2> HIDE DEF D
  <2> QED
    BY <1>3, <1>4, <1>5, <1>6
<1>8. R \in [D -> Nat]
  <2> HIDE DEF D
  <2>1. R = [b \in D |-> IF b = c THEN Cardinality(conc)
                         ELSE IF \E e \in conc : e.blue = b
                              THEN (CHOOSE e \in conc : e.blue = b).existing + 1
                              ELSE sizes[b]]
    BY DEF Recount, D
  <2> QED
    BY <1>7, <2>1
<1>9. DOMAIN R = D
    BY <1>8
<1> HIDE DEF R
<1> QED
    BY <1>2, <1>8, <1>9 DEF SizeMaps, R

(* One candidate more is blue or red, and nothing else changes colour. *)
Recoloured(new, acc, c, U) ==
    /\ new \in ColourState(U)
    /\ \/ new.blues = acc.blues \cup {c} /\ new.reds = acc.reds
       \/ new.blues = acc.blues /\ new.reds = acc.reds \cup {c}

LEMMA CandidateIsColoured ==
    ASSUME NEW past, NEW chain, NEW U, ChainSized(chain, U),
           NEW acc \in ColourState(U), NEW c \in U
    PROVE  Recoloured(ColourCandidate(past, chain, acc, c), acc, c, U)
<1> DEFINE conc == ConcurrentBlues(past, chain, c, acc.blues, acc.sizes)
           R == Recount(acc.sizes, c, conc)
           new == ColourCandidate(past, chain, acc, c)
<1>1. /\ acc.blues \in SUBSET U /\ acc.reds \in SUBSET U /\ acc.sizes \in SizeMaps(U)
      /\ acc.blues \subseteq DOMAIN acc.sizes
    BY DEF ColourState
<1>2. SizedIn(acc.blues, acc.sizes, U)
  <2>1. \A b \in DOMAIN acc.sizes : acc.sizes[b] \in Nat
    BY <1>1 DEF SizeMaps
  <2> QED
    BY <1>1, <2>1 DEF SizedIn
<1>3. Counted(conc, U)
    BY <1>2, ConcurrentBluesAreCounted
<1>4. R \in SizeMaps(U) /\ DOMAIN acc.sizes \cup {c} \subseteq DOMAIN R
  <2> HIDE DEF conc
  <2> QED
    BY <1>1, <1>3, RecountIsSized
<1>5. new = IF StaysBlue(acc.blues, conc)
            THEN [blues |-> acc.blues \cup {c}, reds |-> acc.reds, sizes |-> R]
            ELSE [blues |-> acc.blues, reds |-> acc.reds \cup {c}, sizes |-> acc.sizes]
    BY DEF ColourCandidate
<1> HIDE DEF new, R, conc
<1>6. CASE StaysBlue(acc.blues, conc)
  <2>1. new = [blues |-> acc.blues \cup {c}, reds |-> acc.reds, sizes |-> R]
    BY <1>5, <1>6
  <2>2. new.blues = acc.blues \cup {c} /\ new.reds = acc.reds /\ new.sizes = R
    BY <2>1
  <2>3. new \in ColourState(U)
    BY <1>1, <1>4, <2>1 DEF ColourState
  <2> QED
    BY <2>2, <2>3 DEF new, Recoloured
<1>7. CASE ~ StaysBlue(acc.blues, conc)
  <2>1. new = [blues |-> acc.blues, reds |-> acc.reds \cup {c}, sizes |-> acc.sizes]
    BY <1>5, <1>7
  <2>2. new.blues = acc.blues /\ new.reds = acc.reds \cup {c} /\ new.sizes = acc.sizes
    BY <2>1
  <2>3. new \in ColourState(U)
    BY <1>1, <2>1 DEF ColourState
  <2> QED
    BY <2>2, <2>3 DEF new, Recoloured
<1> QED
    BY <1>6, <1>7

(* The colouring of a merge set, as a loop. *)
FirstColour(sp) == [blues |-> {sp}, reds |-> {}, sizes |-> [b \in {sp} |-> 0]]

ColourRun(past, chain, sp, s, U, f) ==
    /\ f \in [0..Len(s) -> ColourState(U)]
    /\ f[0] = FirstColour(sp)
    /\ \A n \in 1..Len(s) : f[n] = ColourCandidate(past, chain, f[n - 1], s[n])

LEMMA FirstColourIsSized ==
    ASSUME NEW U, NEW sp \in U
    PROVE  FirstColour(sp) \in ColourState(U)
<1>1. [b \in {sp} |-> 0] \in [{sp} -> Nat] /\ {sp} \in SUBSET U
    OBVIOUS
<1>2. [b \in {sp} |-> 0] \in SizeMaps(U) /\ DOMAIN [b \in {sp} |-> 0] = {sp}
    BY <1>1 DEF SizeMaps
<1> DEFINE z == [b \in {sp} |-> 0]
<1> HIDE DEF z
<1>3. z \in SizeMaps(U) /\ DOMAIN z = {sp}
    BY <1>2 DEF z
<1>4. [blues |-> {sp}, reds |-> {}, sizes |-> z] \in ColourState(U)
    BY <1>1, <1>3 DEF ColourState
<1> QED
    BY <1>4 DEF FirstColour, z

LEMMA ColourRuns ==
    ASSUME NEW past, NEW chain, NEW U, ChainSized(chain, U), NEW sp \in U, NEW s \in Seq(U)
    PROVE  \E f : ColourRun(past, chain, sp, s, U, f) /\ Colour(past, chain, sp, s) = f[Len(s)]
<1> DEFINE N == Len(s)
           X == ColourState(U)
           x0 == FirstColour(sp)
           F == [e \in (1..N) \X X |-> ColourCandidate(past, chain, e[2], s[e[1]])]
           IsRun(f) == f = [n \in 0..N |->
                               IF n = 0 THEN x0 ELSE ColourCandidate(past, chain, f[n - 1], s[n])]
<1>1. N \in Nat /\ x0 \in X /\ \A n \in 1..N : s[n] \in U
    BY FirstColourIsSized
<1>2. \A n \in 1..N : \A x \in X : ColourCandidate(past, chain, x, s[n]) \in X
    BY <1>1, CandidateIsColoured DEF Recoloured
<1>3. \A n \in 1..N : \A x \in X : F[<<n, x>>] = ColourCandidate(past, chain, x, s[n])
    OBVIOUS
<1>4. PICK f : RunOf(f, F, N, X, x0)
  <2>1. StaysIn(F, N, X)
    BY <1>2, <1>3 DEF StaysIn
  <2> HIDE DEF F, N, X, x0
  <2> QED
    BY <1>1, <2>1, Iteration
<1> HIDE DEF F, X, x0
<1>5. /\ f \in [0..N -> X] /\ f[0] = x0
      /\ \A n \in 1..N : f[n] = ColourCandidate(past, chain, f[n - 1], s[n])
  <2>1. \A n \in 1..N : f[n - 1] \in X
    BY <1>1, <1>4 DEF RunOf
  <2> HIDE DEF N
  <2> QED
    BY <1>3, <1>4, <2>1 DEF RunOf
<1>6. IsRun(f)
  <2>1. \A n \in 0..N : f[n] = IF n = 0 THEN x0 ELSE ColourCandidate(past, chain, f[n - 1], s[n])
    BY <1>1, <1>5
  <2> QED
    BY <1>5, <2>1
<1> DEFINE chosen == CHOOSE g : IsRun(g)
<1>7. IsRun(chosen)
  <2> HIDE DEF IsRun
  <2> QED
    BY <1>6
<1>8. Colour(past, chain, sp, s) = chosen[N]
    BY DEF Colour, FirstColour, x0
<1>9. chosen = f
  <2> HIDE DEF chosen
  <2>1. chosen[0] = f[0]
    BY <1>1, <1>5, <1>7
  <2> DEFINE Same == {n \in Nat : n <= N => chosen[n] = f[n]}
  <2>2. 0 \in Same
    BY <2>1
  <2>3. ASSUME NEW n \in Nat, n \in Same PROVE n + 1 \in Same
    BY <1>1, <1>5, <1>7, <2>3
  <2>4. Nat \subseteq Same
    <3> HIDE DEF Same
    <3> QED
        BY <2>2, <2>3, Counting
  <2>5. \A n \in 0..N : chosen[n] = f[n]
    BY <1>1, <2>4
  <2>6. chosen = [n \in 0..N |-> chosen[n]]
    BY <1>7
  <2> QED
    BY <1>5, <2>5, <2>6
<1> QED
    BY <1>1, <1>5, <1>8, <1>9 DEF ColourRun, X, x0

(* What the colouring gives: the selected parent is blue, every block of   *)
(* the merge set is blue or red and none is both, and the blues have their *)
(* anticone sizes.                                                         *)
Coloured(colour, sp, merged, U) ==
    /\ colour \in ColourState(U)
    /\ sp \in colour.blues
    /\ colour.blues \cup colour.reds = {sp} \cup merged
    /\ colour.blues \cap colour.reds = {}

LEMMA ColourColours ==
    ASSUME NEW past, NEW chain, NEW U, ChainSized(chain, U), NEW sp \in U,
           NEW S, S \subseteq U, sp \notin S, NEW s \in Seq(S), Lists(s, S)
    PROVE  Coloured(Colour(past, chain, sp, s), sp, S, U)
<1>1. s \in Seq(U) /\ Len(s) \in Nat
    OBVIOUS
<1>2. PICK f : ColourRun(past, chain, sp, s, U, f) /\ Colour(past, chain, sp, s) = f[Len(s)]
    BY <1>1, ColourRuns
<1> DEFINE N == Len(s)
           Seen(n) == {s[j] : j \in 1..n}
           Good(n) == Coloured(f[n], sp, Seen(n), U)
           G == {n \in Nat : n <= N => Good(n)}
<1>3. \A n \in 0..N : f[n] \in ColourState(U)
    BY <1>2 DEF ColourRun
<1>4. 0 \in G
  <2>1. f[0].blues = {sp} /\ f[0].reds = {}
    BY <1>2 DEF ColourRun, FirstColour
  <2>2. Seen(0) = {}
    OBVIOUS
  <2>3. f[0] \in ColourState(U)
    BY <1>1, <1>3
  <2> HIDE DEF Seen
  <2> QED
    BY <2>1, <2>2, <2>3 DEF Coloured
<1>5. ASSUME NEW n \in Nat, n \in G PROVE n + 1 \in G
  <2> SUFFICES ASSUME n + 1 <= N PROVE Good(n + 1)
    OBVIOUS
  <2> DEFINE c == s[n + 1]
             new == f[n + 1]
             old == f[n]
  <2>1. n + 1 \in 1..N /\ n \in 0..N /\ n + 1 \in 0..N /\ (n + 1) - 1 = n
    BY <1>1
  <2>2. Coloured(old, sp, Seen(n), U)
    BY <1>1, <1>5, <2>1
  <2>3. c \in S /\ c # sp /\ c \in U
    BY <2>1
  <2>4. Seen(n + 1) = Seen(n) \cup {c} /\ c \notin Seen(n)
    <3>1. \A j \in 1..n : s[j] # c
        BY <1>1, <2>1 DEF Lists
    <3>2. \A j \in 1..n + 1 : j \in 1..n \/ j = n + 1
        OBVIOUS
    <3> QED
        BY <3>1, <3>2
  <2>5. new = ColourCandidate(past, chain, old, c)
    BY <1>2, <2>1 DEF ColourRun
  <2>6. /\ new \in ColourState(U)
        /\ \/ new.blues = old.blues \cup {c} /\ new.reds = old.reds
           \/ new.blues = old.blues /\ new.reds = old.reds \cup {c}
    <3>1. old \in ColourState(U)
        BY <1>3, <2>1
    <3> HIDE DEF c, old, new
    <3>2. Recoloured(ColourCandidate(past, chain, old, c), old, c, U)
        BY <2>3, <3>1, CandidateIsColoured
    <3>3. Recoloured(new, old, c, U)
        BY <2>5, <3>2
    <3> QED
        BY <3>3 DEF Recoloured
  <2> HIDE DEF c, old, new, Seen
  <2>7. Coloured(new, sp, Seen(n + 1), U)
    BY <2>2, <2>3, <2>4, <2>6 DEF Coloured
  <2> QED
    BY <2>7 DEF new
<1>6. Nat \subseteq G
  <2> HIDE DEF G
  <2> QED
    BY <1>4, <1>5, Counting
<1>7. Good(N)
  <2>1. N \in G
    <3> HIDE DEF G
    <3> QED
        BY <1>1, <1>6
  <2> HIDE DEF Good
  <2> QED
    BY <1>1, <2>1
<1>8. Seen(N) = S
    BY DEF Lists
<1> HIDE DEF Seen
<1> QED
    BY <1>2, <1>7, <1>8

-----------------------------------------------------------------------------
(* A DAG the store may hold: finitely many blocks, ordered as numbers, in  *)
(* layers, with works and anticone sizes that are numbers.                 *)
IsMap(f) == f = [x \in DOMAIN f |-> f[x]]

WellFormed(hs, dt) ==
    /\ IsMap(hs) /\ IsMap(dt)
    /\ Layered(hs, dt)
    /\ Weighed(dt, DOMAIN hs)
    /\ Worked(hs, DOMAIN hs)
    /\ \A b \in DOMAIN hs :
          SizedIn(dt[b].mergeset_blues, dt[b].blues_anticone_sizes, DOMAIN hs)

(* What compute_ghostdag gives a block with parents `ps` and work `w`.     *)
Selected(dt, ps, sp) ==
    /\ sp = SelectParent(dt, ps) /\ sp \in ps
    /\ \A p \in ps \ {sp} : Heavier(dt, sp, p)

Merged(hs, g, members, sp) ==
    /\ sp \in g.mergeset_blues
    /\ g.mergeset_blues \cup g.mergeset_reds = {sp} \cup members
    /\ g.mergeset_blues \cap g.mergeset_reds = {}
    /\ g.mergeset_ordered \in Seq(members)
    /\ Lists(g.mergeset_ordered, members)
    /\ ParentsFirst(hs, members, g.mergeset_ordered)

Judged(hs, dt, ps, w, g) ==
    /\ Selected(dt, ps, g.selected_parent)
    /\ Merged(hs, g, Mergeset(PastIn(hs), ps, g.selected_parent), g.selected_parent)
    /\ SizedIn(g.mergeset_blues, g.blues_anticone_sizes, DOMAIN hs)
    /\ g.blue_work = SaturatingAdd(dt[g.selected_parent].blue_work,
                         WorkOf(hs, g.mergeset_blues \ {g.selected_parent}) + w)
    /\ g.topological_height \in Nat
    /\ \A p \in ps : dt[p].topological_height < g.topological_height

(* The greatest of finitely many heights. *)
LEMMA HighestExists ==
    ASSUME NEW S, S \subseteq Nat, IsFiniteSet(S), S # {}
    PROVE  Max(S) \in S /\ Max(S) \in Nat /\ \A n \in S : n <= Max(S)
<1> DEFINE R == {e \in S \X S : e[1] > e[2]}
<1>1. \A a, b \in S : <<a, b>> \in R <=> a > b
    OBVIOUS
<1> HIDE DEF R
<1>2. StrictOrder(R, S)
    BY <1>1 DEF StrictOrder
<1>3. \E a \in S : \A b \in S \ {a} : <<a, b>> \in R
    BY ONLY <1>2, IsFiniteSet(S), S # {}, FirstExists
<1>4. PICK a \in S : \A b \in S \ {a} : <<a, b>> \in R
    BY <1>3
<1>5. ASSUME NEW b \in S PROVE a >= b
  <2>1. a \in Nat /\ b \in Nat
    OBVIOUS
  <2>2. b # a => <<a, b>> \in R
    BY <1>4
  <2>3. b # a => a > b
    BY <1>1, <2>2
  <2> QED
    BY <2>1, <2>3
<1>6. Max(S) \in S /\ \A b \in S : Max(S) >= b
    BY <1>5 DEF Max
<1> QED
    BY <1>6

LEMMA MergesetIsWithin ==
    ASSUME NEW hs, NEW dt, Layered(hs, dt), NEW ps, ps \subseteq DOMAIN hs, NEW sp
    PROVE  /\ Mergeset(PastIn(hs), ps, sp) \subseteq DOMAIN hs
           /\ sp \notin Mergeset(PastIn(hs), ps, sp)
           /\ Mergeset(PastIn(hs), ps, sp) \cap PastIn(hs)[sp] = {}
<1>1. \A p \in ps : PastIn(hs)[p] \subseteq DOMAIN hs
    BY PastIsClosed
<1> QED
    BY <1>1 DEF Mergeset

LEMMA MergesetIsSorted ==
    ASSUME NEW hs, NEW dt, WellFormed(hs, dt), NEW members, members \subseteq DOMAIN hs,
           NEW merged, merged = TopologicalSort(Restrict(hs, members), Restrict(dt, members), members)
    PROVE  merged \in Seq(members) /\ Lists(merged, members) /\ ParentsFirst(hs, members, merged)
<1> DEFINE hs2 == Restrict(hs, members)
           dt2 == Restrict(dt, members)
           h == [b \in members |-> dt[b].topological_height]
<1>1. \A b \in members : hs2[b] = hs[b] /\ dt2[b] = dt[b]
    BY DEF Restrict
<1>2. IsFiniteSet(members) /\ Weighed(dt2, members)
    BY <1>1, FS_Subset DEF WellFormed, Weighed, Worked
<1>3. RisesIn(hs2, h, members)
    BY <1>1 DEF WellFormed, Layered, RisesIn
<1> HIDE DEF hs2, dt2, h
<1>4. /\ TopologicalSort(hs2, dt2, members) \in Seq(members)
      /\ Lists(TopologicalSort(hs2, dt2, members), members)
      /\ ParentsFirst(hs2, members, TopologicalSort(hs2, dt2, members))
    BY <1>2, <1>3, TopologicalSortSorts
<1>5. merged = TopologicalSort(hs2, dt2, members)
    BY DEF hs2, dt2
<1>6. merged \in Seq(members) /\ Lists(merged, members) /\ ParentsFirst(hs2, members, merged)
    BY <1>4, <1>5
<1>7. \A i \in 1..Len(merged) : merged[i] \in members
    BY <1>6
<1> QED
    BY <1>1, <1>6, <1>7 DEF ParentsFirst

(* What compute_ghostdag computes, on a DAG the store may hold. *)
LEMMA GhostdagJudges ==
    ASSUME NEW hs, NEW dt, WellFormed(hs, dt), NEW ps, ps \subseteq DOMAIN hs, ps # {},
           NEW w \in Nat
    PROVE  Judged(hs, dt, ps, w, ComputeGhostdag(hs, dt, ps, w))
<1> DEFINE sp == SelectParent(dt, ps)
           members == Mergeset(PastIn(hs), ps, sp)
           hs2 == Restrict(hs, members)
           merged == TopologicalSort(hs2, Restrict(dt, members), members)
           past == Restrict(PastIn(hs), members)
           chain == Restrict(dt, ChainIn(dt, sp))
           colour == Colour(past, chain, sp, merged)
           g == ComputeGhostdag(hs, dt, ps, w)
           heights == {dt[p].topological_height : p \in ps}
<1>0. g = [selected_parent      |-> sp,
           blue_score           |-> dt[sp].blue_score + Cardinality(colour.blues),
           blue_work            |-> BlueWork(hs2, dt, sp, colour.blues, w),
           mergeset_blues       |-> colour.blues,
           mergeset_reds        |-> colour.reds,
           mergeset_ordered     |-> merged,
           topological_height   |-> Max(heights) + 1,
           blues_anticone_sizes |-> colour.sizes]
    BY DEF ComputeGhostdag
<1>1. Layered(hs, dt) /\ IsFiniteSet(DOMAIN hs) /\ IsFiniteSet(ps)
    BY FS_Subset DEF WellFormed, Worked
<1>2. Selected(dt, ps, sp)
  <2>1. Weighed(dt, ps)
    BY DEF WellFormed, Weighed
  <2> QED
    BY <1>1, <2>1, HeaviestExists DEF Selected, SelectParent
<1>3. sp \in DOMAIN hs
    BY <1>2 DEF Selected
<1>4. members \subseteq DOMAIN hs /\ sp \notin members
    BY <1>1, MergesetIsWithin
<1>5. merged \in Seq(members) /\ Lists(merged, members) /\ ParentsFirst(hs, members, merged)
  <2> HIDE DEF members
  <2> QED
    BY <1>4, MergesetIsSorted
<1>6. ChainSized(chain, DOMAIN hs)
  <2>1. ChainIn(dt, sp) \subseteq DOMAIN hs
    BY <1>1, <1>3, ChainIsInPast, PastIsClosed
  <2>2. DOMAIN chain = ChainIn(dt, sp) /\ \A x \in ChainIn(dt, sp) : chain[x] = dt[x]
    BY DEF Restrict
  <2>3. IsFiniteSet(ChainIn(dt, sp))
    BY <1>1, <2>1, FS_Subset
  <2> HIDE DEF chain, sp
  <2> QED
    BY <1>1, <2>1, <2>2, <2>3 DEF ChainSized, WellFormed
<1>7. Coloured(colour, sp, members, DOMAIN hs)
  <2> HIDE DEF sp, members, hs2, merged, past, chain
  <2> QED
    BY <1>3, <1>4, <1>5, <1>6, ColourColours
<1> HIDE DEF g, sp, members, merged, colour, heights, hs2
<1>8. SizedIn(colour.blues, colour.sizes, DOMAIN hs)
  <2>1. /\ colour.blues \in SUBSET DOMAIN hs /\ colour.sizes \in SizeMaps(DOMAIN hs)
        /\ colour.blues \subseteq DOMAIN colour.sizes
    BY <1>7 DEF Coloured, ColourState
  <2>2. \A b \in DOMAIN colour.sizes : colour.sizes[b] \in Nat
    BY <2>1 DEF SizeMaps
  <2> QED
    BY <2>1, <2>2 DEF SizedIn
<1>9. Max(heights) \in Nat /\ \A n \in heights : n <= Max(heights)
  <2>1. IsFiniteSet(heights)
    <3> DEFINE f == [p \in ps |-> dt[p].topological_height]
    <3>1. heights = {f[p] : p \in ps}
        BY DEF heights
    <3> HIDE DEF f
    <3> QED
        BY <1>1, <3>1, ImageIsFinite
  <2>2. heights \in SUBSET Nat /\ heights # {}
    BY <1>1 DEF heights, Layered
  <2> QED
    BY <2>1, <2>2, HighestExists
<1>10. WorkOf(hs2, colour.blues \ {sp}) = WorkOf(hs, colour.blues \ {sp})
  <2>1. colour.blues \ {sp} \subseteq members
    BY <1>7 DEF Coloured
  <2>2. \A b \in members : hs2[b] = hs[b]
    BY DEF hs2, Restrict
  <2>3. Worked(hs2, colour.blues \ {sp})
    <3>1. Worked(hs, colour.blues \ {sp})
        BY <1>4, <2>1, WorkedSubset DEF WellFormed
    <3> QED
        BY <2>1, <2>2, <3>1 DEF Worked
  <2> QED
    BY <2>1, <2>2, <2>3, WorkAgrees
<1>11. /\ g.selected_parent = sp /\ g.mergeset_blues = colour.blues
       /\ g.mergeset_reds = colour.reds /\ g.mergeset_ordered = merged
       /\ g.blues_anticone_sizes = colour.sizes
       /\ g.topological_height = Max(heights) + 1
       /\ g.blue_work = BlueWork(hs2, dt, sp, colour.blues, w)
    BY <1>0
<1>12. Merged(hs, g, members, sp)
    BY <1>5, <1>7, <1>11 DEF Merged, Coloured
<1>13. \A p \in ps : dt[p].topological_height < g.topological_height
  <2>1. \A p \in ps : dt[p].topological_height \in heights /\ dt[p].topological_height \in Nat
    BY <1>1 DEF heights, Layered
  <2> QED
    BY <1>9, <1>11, <2>1
<1>14. g.blue_work = SaturatingAdd(dt[sp].blue_work, WorkOf(hs, colour.blues \ {sp}) + w)
    BY <1>10, <1>11 DEF BlueWork
<1> QED
    BY <1>2, <1>8, <1>9, <1>11, <1>12, <1>13, <1>14 DEF Judged, members, g

-----------------------------------------------------------------------------
(* A DAG and a larger one that holds the same of every block of the first. *)
Agree(hs, dt, hs2, dt2) ==
    /\ DOMAIN hs \subseteq DOMAIN hs2
    /\ \A c \in DOMAIN hs :
         /\ hs2[c] = hs[c] /\ dt2[c] = dt[c]
         /\ PastIn(hs2)[c] = PastIn(hs)[c]
         /\ ChainIn(dt2, c) = ChainIn(dt, c)

(* Adding a block, as AddBlock does. *)
Grows(hs, dt, hs2, dt2, b, ps, w) ==
    /\ b \in Nat \ DOMAIN hs /\ ps # {} /\ ps \subseteq DOMAIN hs /\ w \in Nat
    /\ hs2 = Extend(hs, b, [parents |-> ps, work |-> w])
    /\ dt2 = Extend(dt, b, ComputeGhostdag(hs, dt, ps, w))

LEMMA SaturatingAddIsBounded ==
    ASSUME NEW x \in Nat, NEW y \in Nat
    PROVE  SaturatingAdd(x, y) \in Nat /\ SaturatingAdd(x, y) <= WorkMax
BY BoundsAssumption DEF SaturatingAdd

(* Growing a DAG changes nothing of what it held, and leaves a DAG. *)
Grown(hs, dt, hs2, dt2, b, ps, w) ==
    /\ Agree(hs, dt, hs2, dt2)
    /\ WellFormed(hs2, dt2)
    /\ DOMAIN hs2 = DOMAIN hs \cup {b}
    /\ hs2[b] = [parents |-> ps, work |-> w]
    /\ dt2[b] = ComputeGhostdag(hs, dt, ps, w)
    /\ Judged(hs, dt, ps, w, dt2[b])
    /\ PastIn(hs2)[b] = ps \cup UNION {PastIn(hs)[p] : p \in ps}

LEMMA GrowthAgrees ==
    ASSUME NEW hs, NEW dt, WellFormed(hs, dt), NEW hs2, NEW dt2, NEW b, NEW ps, NEW w,
           Grows(hs, dt, hs2, dt2, b, ps, w)
    PROVE  Grown(hs, dt, hs2, dt2, b, ps, w)
<1> DEFINE g == ComputeGhostdag(hs, dt, ps, w)
<1>1. /\ b \in Nat /\ b \notin DOMAIN hs /\ ps # {} /\ ps \subseteq DOMAIN hs /\ w \in Nat
      /\ hs2 = Extend(hs, b, [parents |-> ps, work |-> w]) /\ dt2 = Extend(dt, b, g)
    BY DEF Grows
<1>2. Layered(hs, dt) /\ DOMAIN dt = DOMAIN hs
    BY DEF WellFormed, Layered
<1>3. Judged(hs, dt, ps, w, g)
    BY <1>1, GhostdagJudges
<1> HIDE DEF g
<1>4. /\ DOMAIN hs2 = DOMAIN hs \cup {b} /\ DOMAIN dt2 = DOMAIN hs2
      /\ hs2[b] = [parents |-> ps, work |-> w] /\ dt2[b] = g
      /\ \A c \in DOMAIN hs : hs2[c] = hs[c] /\ dt2[c] = dt[c]
    BY <1>1, <1>2 DEF Extend
<1>5. g.topological_height \in Nat /\ \A p \in ps : dt[p].topological_height < g.topological_height
    BY <1>3 DEF Judged
<1>6. g.selected_parent \in ps
    BY <1>3 DEF Judged, Selected
<1>7. Layered(hs2, dt2)
  <2>1. hs2[b].parents = ps
    BY <1>4
  <2>2. ASSUME NEW c \in DOMAIN hs2
        PROVE  /\ hs2[c].parents \subseteq DOMAIN hs
               /\ dt2[c].topological_height \in Nat
               /\ \A p \in hs2[c].parents : dt2[p].topological_height < dt2[c].topological_height
               /\ dt2[c].selected_parent = c \/ dt2[c].selected_parent \in hs2[c].parents
    <3>1. CASE c \in DOMAIN hs
        BY <1>2, <1>4, <3>1 DEF Layered, ParentsWithin
    <3>2. CASE c = b
        BY <1>1, <1>4, <1>5, <1>6, <2>1, <3>2
    <3> QED
        BY <1>4, <3>1, <3>2
  <2> QED
    BY <1>4, <2>2 DEF Layered, ParentsWithin
<1>8. Agree(hs, dt, hs2, dt2)
  <2>1. ClosedPart(hs2, DOMAIN hs)
    BY <1>2, <1>4 DEF ClosedPart, Layered, ParentsWithin
  <2>2. Restrict(hs2, DOMAIN hs) = hs /\ Restrict(dt2, DOMAIN hs) = dt
    <3>1. hs = [c \in DOMAIN hs |-> hs[c]] /\ dt = [c \in DOMAIN dt |-> dt[c]]
        BY DEF WellFormed, IsMap
    <3> QED
        BY <1>2, <1>4, <3>1 DEF Restrict
  <2>3. \A c \in DOMAIN hs : PastIn(hs2)[c] = PastIn(hs)[c] /\ ChainIn(dt2, c) = ChainIn(dt, c)
    BY <1>7, <2>1, <2>2, PastOfPart, ChainOfPart
  <2> QED
    BY <1>4, <2>3 DEF Agree
<1>9. g.blue_work \in Nat
  <2> DEFINE sp == g.selected_parent
             blues == g.mergeset_blues
  <2>1. sp \in ps /\ sp \in DOMAIN hs /\ blues \subseteq DOMAIN hs
    BY <1>1, <1>3 DEF Judged, Selected, SizedIn
  <2>2. dt[sp].blue_work \in Nat
    BY <2>1 DEF WellFormed, Weighed
  <2>3. WorkOf(hs, blues \ {sp}) \in Nat
    <3>1. Worked(hs, blues \ {sp})
        BY <2>1, WorkedSubset DEF WellFormed
    <3> QED
        BY <3>1, WorkAgrees
  <2>4. g.blue_work = SaturatingAdd(dt[sp].blue_work, WorkOf(hs, blues \ {sp}) + w)
    BY <1>3 DEF Judged
  <2> DEFINE x == dt[sp].blue_work
             y == WorkOf(hs, blues \ {sp}) + w
  <2>5. x \in Nat /\ y \in Nat
    BY <1>1, <2>2, <2>3
  <2> HIDE DEF x, y
  <2>6. SaturatingAdd(x, y) \in Nat
    BY <2>5, SaturatingAddIsBounded
  <2> QED
    BY <2>4, <2>6 DEF x, y
<1>10. SizedIn(g.mergeset_blues, g.blues_anticone_sizes, DOMAIN hs)
    BY <1>3 DEF Judged
<1>11. WellFormed(hs2, dt2)
  <2>1. Weighed(dt2, DOMAIN hs2)
    BY <1>1, <1>4, <1>9 DEF WellFormed, Weighed
  <2>2. Worked(hs2, DOMAIN hs2)
    <3>1. IsFiniteSet(DOMAIN hs2)
        BY <1>4, FS_AddElement DEF WellFormed, Worked
    <3>2. hs2[b].work = w
        BY <1>4
    <3> QED
        BY <1>1, <1>4, <3>1, <3>2 DEF WellFormed, Worked
  <2>3. \A c \in DOMAIN hs2 :
           SizedIn(dt2[c].mergeset_blues, dt2[c].blues_anticone_sizes, DOMAIN hs2)
    BY <1>4, <1>10 DEF WellFormed, SizedIn
  <2>4. IsMap(hs2) /\ IsMap(dt2)
    <3>1. IsMap(Extend(hs, b, [parents |-> ps, work |-> w])) /\ IsMap(Extend(dt, b, g))
        BY DEF IsMap, Extend
    <3> QED
        BY <1>1, <3>1
  <2> QED
    BY <1>7, <2>1, <2>2, <2>3, <2>4 DEF WellFormed
<1>12. PastIn(hs2)[b] = ps \cup UNION {PastIn(hs)[p] : p \in ps}
  <2>1. PastIn(hs2)[b] = PastStep(hs2, PastIn(hs2), b)
    <3>1. PastIn(hs2) = [c \in DOMAIN hs2 |-> PastStep(hs2, PastIn(hs2), c)]
        BY <1>7, PastRecursion DEF Layered
    <3> QED
        BY <1>4, <3>1
  <2>2. hs2[b].parents = ps
    BY <1>4
  <2>3. {PastIn(hs2)[p] : p \in ps} = {PastIn(hs)[p] : p \in ps}
    BY <1>1, <1>8 DEF Agree
  <2> QED
    BY <2>1, <2>2, <2>3 DEF PastStep
<1> QED
    BY <1>3, <1>4, <1>8, <1>11, <1>12 DEF Grown, g

(* What a DAG says of a block, every DAG that agrees with it says. *)
LEMMA JudgedAgrees ==
    ASSUME NEW hs, NEW dt, WellFormed(hs, dt), NEW hs2, NEW dt2, Agree(hs, dt, hs2, dt2),
           NEW ps, ps \subseteq DOMAIN hs, NEW w, NEW g, Judged(hs, dt, ps, w, g)
    PROVE  Judged(hs2, dt2, ps, w, g)
<1> DEFINE sp == g.selected_parent
           members == Mergeset(PastIn(hs), ps, sp)
           blues == g.mergeset_blues
<1>1. /\ DOMAIN hs \subseteq DOMAIN hs2
      /\ \A c \in DOMAIN hs : hs2[c] = hs[c] /\ dt2[c] = dt[c] /\ PastIn(hs2)[c] = PastIn(hs)[c]
    BY DEF Agree
<1>2. Selected(dt, ps, sp) /\ sp \in ps /\ sp \in DOMAIN hs
    BY DEF Judged, Selected
<1>3. Merged(hs, g, members, sp) /\ SizedIn(blues, g.blues_anticone_sizes, DOMAIN hs)
    BY DEF Judged
<1>4. Selected(dt2, ps, sp)
  <2>1. \A a, b \in ps : Heavier(dt2, a, b) <=> Heavier(dt, a, b)
    BY <1>1 DEF Heavier
  <2>2. SelectParent(dt2, ps) = SelectParent(dt, ps)
    BY <2>1 DEF SelectParent, Heaviest
  <2> QED
    BY <1>2, <2>1, <2>2 DEF Selected
<1>5. Mergeset(PastIn(hs2), ps, sp) = members
  <2>1. {PastIn(hs2)[p] : p \in ps} = {PastIn(hs)[p] : p \in ps}
    BY <1>1
  <2> QED
    BY <1>1, <1>2, <2>1 DEF Mergeset
<1>6. members \subseteq DOMAIN hs
    BY MergesetIsWithin DEF WellFormed
<1>7. Merged(hs2, g, members, sp)
  <2> DEFINE s == g.mergeset_ordered
  <2>1. s \in Seq(members) /\ ParentsFirst(hs, members, s)
    BY <1>3 DEF Merged
  <2>2. \A i \in 1..Len(s) : hs2[s[i]] = hs[s[i]]
    BY <1>1, <1>6, <2>1
  <2>3. ParentsFirst(hs2, members, s)
    BY <2>1, <2>2 DEF ParentsFirst
  <2> QED
    BY <1>3, <2>3 DEF Merged
<1>8. SizedIn(blues, g.blues_anticone_sizes, DOMAIN hs2)
    BY <1>1, <1>3 DEF SizedIn
<1>9. WorkOf(hs2, blues \ {sp}) = WorkOf(hs, blues \ {sp})
  <2>1. blues \ {sp} \subseteq DOMAIN hs
    BY <1>3 DEF SizedIn
  <2>2. Worked(hs, blues \ {sp})
    BY <2>1, WorkedSubset DEF WellFormed
  <2> QED
    BY <1>1, <2>1, <2>2, WorkAgrees
<1>10. /\ g.blue_work = SaturatingAdd(dt[sp].blue_work, WorkOf(hs, blues \ {sp}) + w)
       /\ g.topological_height \in Nat
       /\ \A p \in ps : dt[p].topological_height < g.topological_height
    BY DEF Judged
<1>11. /\ g.blue_work = SaturatingAdd(dt2[sp].blue_work, WorkOf(hs2, blues \ {sp}) + w)
       /\ \A p \in ps : dt2[p].topological_height < g.topological_height
    BY <1>1, <1>2, <1>9, <1>10
<1> HIDE DEF members
<1> QED
    BY <1>4, <1>5, <1>7, <1>8, <1>10, <1>11 DEF Judged

-----------------------------------------------------------------------------
(* The inductive invariant of the store. *)
Rooted(hs, dt) ==
    /\ Genesis \in DOMAIN hs
    /\ hs[Genesis].parents = {}
    /\ dt[Genesis].selected_parent = Genesis
    /\ dt[Genesis].mergeset_blues = {}
    /\ dt[Genesis].mergeset_reds = {}
    /\ dt[Genesis].mergeset_ordered = <<>>
    /\ dt[Genesis].blue_work = hs[Genesis].work
    /\ dt[Genesis].blue_score = 0

AllJudged(hs, dt) ==
    \A b \in DOMAIN hs \ {Genesis} :
        /\ hs[b].parents # {}
        /\ Judged(hs, dt, hs[b].parents, hs[b].work, dt[b])

DagInv ==
    /\ TypeOK
    /\ \A b \in Present : children[b] \subseteq Present
    /\ WellFormed(headers, data)
    /\ Rooted(headers, data)
    /\ AllJudged(headers, data)

LEMMA GrowthJudges ==
    ASSUME NEW hs, NEW dt, WellFormed(hs, dt), Rooted(hs, dt), AllJudged(hs, dt),
           NEW hs2, NEW dt2, NEW b, NEW ps, NEW w, Grows(hs, dt, hs2, dt2, b, ps, w)
    PROVE  Rooted(hs2, dt2) /\ AllJudged(hs2, dt2)
<1>0. Grown(hs, dt, hs2, dt2, b, ps, w)
    BY GrowthAgrees
<1>1. /\ Agree(hs, dt, hs2, dt2) /\ DOMAIN hs2 = DOMAIN hs \cup {b}
      /\ hs2[b] = [parents |-> ps, work |-> w] /\ Judged(hs, dt, ps, w, dt2[b])
    BY <1>0 DEF Grown
<1>2. ps \subseteq DOMAIN hs /\ ps # {} /\ \A c \in DOMAIN hs : hs2[c] = hs[c] /\ dt2[c] = dt[c]
    BY <1>1 DEF Grows, Agree
<1>3. Rooted(hs2, dt2)
    BY <1>1, <1>2 DEF Rooted
<1>4. ASSUME NEW c \in DOMAIN hs2 \ {Genesis}
      PROVE  hs2[c].parents # {} /\ Judged(hs2, dt2, hs2[c].parents, hs2[c].work, dt2[c])
  <2>1. CASE c \in DOMAIN hs
    <3>1. hs[c].parents # {} /\ Judged(hs, dt, hs[c].parents, hs[c].work, dt[c])
        BY <2>1 DEF AllJudged
    <3>2. hs[c].parents \subseteq DOMAIN hs
        BY <2>1 DEF WellFormed, Layered, ParentsWithin
    <3>3. Judged(hs2, dt2, hs[c].parents, hs[c].work, dt[c])
        BY <1>1, <3>1, <3>2, JudgedAgrees
    <3> QED
        BY <1>2, <2>1, <3>1, <3>3
  <2>2. CASE c = b
    <3>1. Judged(hs2, dt2, ps, w, dt2[b])
        BY <1>1, <1>2, JudgedAgrees
    <3>2. hs2[b].parents = ps /\ hs2[b].work = w
        BY <1>1
    <3> QED
        BY <1>2, <2>2, <3>1, <3>2
  <2> QED
    BY <1>1, <2>1, <2>2
<1> QED
    BY <1>3, <1>4 DEF AllJudged

LEMMA InitEstablishes ==
    ASSUME Init
    PROVE  DagInv
<1>1. PICK w \in Work : /\ headers = [b \in {Genesis} |-> [parents |-> {}, work |-> w]]
                        /\ data = [b \in {Genesis} |-> GenesisData(w)]
    BY DEF Init
<1>2. children = [b \in {Genesis} |-> {}] /\ tips = {Genesis}
    BY DEF Init
<1>3. /\ w \in 1..WorkMax /\ w \in Nat /\ Genesis \in Nat /\ Genesis \in Hash
    BY HashAssumption, BoundsAssumption
<1>4. Present = {Genesis} /\ DOMAIN data = {Genesis} /\ DOMAIN children = {Genesis}
    BY <1>1, <1>2 DEF Present
<1>5. headers[Genesis] = [parents |-> {}, work |-> w] /\ data[Genesis] = GenesisData(w)
    BY <1>1
<1>6. headers[Genesis].parents = {} /\ headers[Genesis].work = w
    BY <1>5
<1>7. /\ data[Genesis].selected_parent = Genesis /\ data[Genesis].blue_work = w
      /\ data[Genesis].blue_score = 0
      /\ data[Genesis].mergeset_blues = {} /\ data[Genesis].mergeset_reds = {}
      /\ data[Genesis].mergeset_ordered = <<>> /\ data[Genesis].topological_height = 0
    BY <1>5 DEF GenesisData
<1>8. TypeOK
  <2>1. headers \in [Present -> [parents : SUBSET Present, work : Work]]
    BY <1>1, <1>4
  <2> QED
    BY <1>2, <1>3, <1>4, <1>6, <1>7, <2>1 DEF TypeOK
<1>9. Layered(headers, data)
    BY <1>4, <1>6, <1>7 DEF Layered, ParentsWithin, Present
<1>10. WellFormed(headers, data)
  <2>1. Worked(headers, DOMAIN headers)
    BY <1>3, <1>4, <1>6, FS_Singleton DEF Worked, Present
  <2>2. Weighed(data, DOMAIN headers)
    BY <1>3, <1>4, <1>7 DEF Weighed, Present
  <2>3. \A b \in DOMAIN headers :
           SizedIn(data[b].mergeset_blues, data[b].blues_anticone_sizes, DOMAIN headers)
    BY <1>4, <1>7 DEF SizedIn, Present
  <2>4. IsMap(headers) /\ IsMap(data)
    BY <1>1 DEF IsMap
  <2> QED
    BY <1>9, <2>1, <2>2, <2>3, <2>4 DEF WellFormed
<1>11. Rooted(headers, data) /\ AllJudged(headers, data)
    BY <1>4, <1>6, <1>7 DEF Rooted, AllJudged, Present
<1> QED
    BY <1>2, <1>4, <1>8, <1>10, <1>11 DEF DagInv

(* AddBlock adds a block to the DAG, and its edges. *)
LEMMA AddBlockGrows ==
    ASSUME DagInv, NEW b \in Hash, NEW ps \in ParentSets(Present), NEW w \in Work, AddBlock(b, ps, w)
    PROVE  Grows(headers, data, headers', data', b, ps, w)
<1>1. b \in Nat /\ w \in Nat
    BY HashAssumption, BoundsAssumption
<1> QED
    BY <1>1 DEF AddBlock, Accepts, Grows, Present

LEMMA AddBlockKeepsType ==
    ASSUME DagInv, NEW b \in Hash, NEW ps \in ParentSets(Present), NEW w \in Work, AddBlock(b, ps, w)
    PROVE  TypeOK' /\ \A c \in Present' : children'[c] \subseteq Present'
<1>1. Grown(headers, data, headers', data', b, ps, w)
    BY AddBlockGrows, GrowthAgrees DEF DagInv
<1>2. /\ Agree(headers, data, headers', data') /\ Present' = Present \cup {b}
      /\ headers'[b] = [parents |-> ps, work |-> w]
      /\ Judged(headers, data, ps, w, data'[b])
      /\ WellFormed(headers', data')
    BY <1>1 DEF Grown, Present
<1>3. /\ b \notin Present /\ ps \subseteq Present /\ ps # {}
      /\ tips' = (tips \ ps) \cup {b}
      /\ children' = [c \in Present \cup {b} |->
                         IF c = b THEN {} ELSE IF c \in ps THEN children[c] \cup {b}
                                                           ELSE children[c]]
    BY DEF AddBlock, Accepts, TipsAfter
<1>4. \A c \in Present : headers'[c] = headers[c] /\ data'[c] = data[c]
    BY <1>2 DEF Agree, Present
<1>5. headers'[b].parents = ps /\ headers'[b].work = w
    BY <1>2
<1>6. /\ Present \subseteq Hash /\ DOMAIN data = Present /\ DOMAIN children = Present
      /\ headers \in [Present -> [parents : SUBSET Present, work : Work]]
      /\ \A c, d \in Present : d \in children[c] <=> c \in headers[d].parents
      /\ tips = {c \in Present : children[c] = {}}
      /\ \A c \in Present : children[c] \subseteq Present
      /\ \A c \in Present : /\ data[c].selected_parent \in Present
                            /\ data[c].blue_work \in 1..WorkMax
                            /\ data[c].topological_height \in Nat
    BY DEF DagInv, TypeOK
<1>7. children'[b] = {} /\ \A c \in Present : children'[c] = IF c \in ps THEN children[c] \cup {b}
                                                                        ELSE children[c]
    BY <1>3
<1>8. Present' \subseteq Hash /\ DOMAIN data' = Present' /\ DOMAIN children' = Present'
    BY <1>2, <1>3, <1>6 DEF WellFormed, Layered, Present
<1>9. headers' \in [Present' -> [parents : SUBSET Present', work : Work]]
  <2>1. headers' = [c \in Present' |-> headers'[c]]
    BY <1>2 DEF WellFormed, IsMap, Present
  <2>2. ASSUME NEW c \in Present' PROVE headers'[c] \in [parents : SUBSET Present', work : Work]
    <3>1. CASE c \in Present
        BY <1>2, <1>4, <1>6, <3>1
    <3>2. CASE c = b
        BY <1>2, <1>3, <3>2
    <3> QED
        BY <1>2, <3>1, <3>2
  <2> QED
    BY <2>1, <2>2
<1>10. ASSUME NEW c \in Present', NEW d \in Present'
       PROVE  d \in children'[c] <=> c \in headers'[d].parents
  <2>1. \A x \in Present : headers[x].parents \subseteq Present
    BY <1>6
  <2>2. CASE c \in Present /\ d \in Present
    BY <1>3, <1>4, <1>6, <1>7, <2>2
  <2>3. CASE c \in Present /\ d = b
    BY <1>3, <1>5, <1>6, <1>7, <2>3
  <2>4. CASE c = b
    <3>1. CASE d \in Present
        BY <1>3, <1>4, <1>7, <2>1, <2>4, <3>1
    <3>2. CASE d = b
        BY <1>3, <1>5, <1>7, <2>4, <3>2
    <3> QED
        BY <1>2, <3>1, <3>2
  <2> QED
    BY <1>2, <2>2, <2>3, <2>4
<1>11. tips' = {c \in Present' : children'[c] = {}}
  <2>1. ASSUME NEW c \in Present' PROVE c \in tips' <=> children'[c] = {}
    <3>1. CASE c \in Present
        BY <1>3, <1>6, <1>7, <3>1
    <3>2. CASE c = b
        BY <1>3, <1>7, <3>2
    <3> QED
        BY <1>2, <3>1, <3>2
  <2>2. tips' \subseteq Present'
    BY <1>2, <1>3, <1>6
  <2> QED
    BY <2>1, <2>2
<1>12. /\ data'[b].selected_parent \in Present' /\ data'[b].blue_work \in 1..WorkMax
       /\ data'[b].topological_height \in Nat
  <2> DEFINE g == data'[b]
             sp == g.selected_parent
             x == data[sp].blue_work
             y == WorkOf(headers, g.mergeset_blues \ {sp}) + w
  <2>1. sp \in Present /\ g.topological_height \in Nat /\ g.blue_work = SaturatingAdd(x, y)
    BY <1>2, <1>3 DEF Judged, Selected
  <2>2. x \in 1..WorkMax
    BY <1>6, <2>1
  <2>3. y \in Nat
    <3>1. g.mergeset_blues \subseteq DOMAIN headers
        BY <1>2 DEF Judged, SizedIn
    <3>2. Worked(headers, g.mergeset_blues \ {sp})
        BY <3>1, WorkedSubset DEF DagInv, WellFormed
    <3>3. WorkOf(headers, g.mergeset_blues \ {sp}) \in Nat
        BY <3>2, WorkAgrees
    <3> QED
        BY <3>3, BoundsAssumption
  <2> HIDE DEF x, y, sp
  <2>4. SaturatingAdd(x, y) \in 1..WorkMax
    BY <2>2, <2>3, BoundsAssumption DEF SaturatingAdd
  <2> QED
    BY <1>2, <2>1, <2>4 DEF sp
<1>13. TypeOK'
  <2>1. \A c \in Present' : /\ data'[c].selected_parent \in Present'
                            /\ data'[c].blue_work \in 1..WorkMax
                            /\ data'[c].topological_height \in Nat
    BY <1>2, <1>4, <1>6, <1>12
  <2> QED
    BY <1>8, <1>9, <1>10, <1>11, <2>1 DEF TypeOK
<1>14. \A c \in Present' : children'[c] \subseteq Present'
    BY <1>2, <1>3, <1>6, <1>7
<1> QED
    BY <1>13, <1>14

LEMMA StepKeepsInvariant ==
    ASSUME DagInv, [Next]_vars
    PROVE  DagInv'
<1>1. CASE Next
  <2>1. PICK b \in Hash, ps \in ParentSets(Present), w \in Work : AddBlock(b, ps, w)
    BY <1>1 DEF Next
  <2>2. TypeOK' /\ \A c \in Present' : children'[c] \subseteq Present'
    BY <2>1, AddBlockKeepsType
  <2>3. Grows(headers, data, headers', data', b, ps, w)
    BY <2>1, AddBlockGrows
  <2>4. WellFormed(headers', data')
    <3>1. Grown(headers, data, headers', data', b, ps, w)
        BY <2>3, GrowthAgrees DEF DagInv
    <3> QED
        BY <3>1 DEF Grown
  <2>5. Rooted(headers', data') /\ AllJudged(headers', data')
    BY <2>3, GrowthJudges DEF DagInv
  <2> QED
    BY <2>2, <2>4, <2>5 DEF DagInv
<1>2. CASE UNCHANGED vars
    BY <1>2 DEF DagInv, TypeOK, Present, vars
<1> QED
    BY <1>1, <1>2

LEMMA DagInvariant == Spec => []DagInv
<1>1. Init => DagInv
    BY InitEstablishes
<1>2. DagInv /\ [Next]_vars => DagInv'
    BY StepKeepsInvariant
<1> QED
    BY <1>1, <1>2, PTL DEF Spec

(* Types; and a block's parents are in the store, its children mirror its  *)
(* parents and the tips are the blocks nothing builds on, whatever is      *)
(* added in whatever order (add_block).                                    *)
THEOREM TypeCorrect == Spec => []TypeOK
<1>1. DagInv => TypeOK
    BY DEF DagInv
<1> QED
    BY <1>1, DagInvariant, PTL

-----------------------------------------------------------------------------
(* Purity: what DataIsPureInThePast says, of any DAG. *)
Pure(hs, dt) ==
    \A b \in DOMAIN hs \ {Genesis} :
        dt[b] = ComputeGhostdag(Restrict(hs, PastIn(hs)[b]), Restrict(dt, PastIn(hs)[b]),
                                hs[b].parents, hs[b].work)

LEMMA GrowthIsPure ==
    ASSUME NEW hs, NEW dt, WellFormed(hs, dt), Pure(hs, dt),
           NEW hs2, NEW dt2, NEW b, NEW ps, NEW w, Grows(hs, dt, hs2, dt2, b, ps, w)
    PROVE  Pure(hs2, dt2)
<1>1. Grown(hs, dt, hs2, dt2, b, ps, w)
    BY GrowthAgrees
<1>2. /\ DOMAIN hs2 = DOMAIN hs \cup {b} /\ hs2[b].parents = ps /\ hs2[b].work = w
      /\ dt2[b] = ComputeGhostdag(hs, dt, ps, w)
      /\ \A c \in DOMAIN hs : /\ hs2[c] = hs[c] /\ dt2[c] = dt[c]
                              /\ PastIn(hs2)[c] = PastIn(hs)[c]
      /\ PastIn(hs2)[b] = ps \cup UNION {PastIn(hs)[p] : p \in ps}
      /\ SelectParent(dt, ps) \in ps
      /\ Layered(hs, dt) /\ Layered(hs2, dt2)
    BY <1>1 DEF Grown, Agree, Judged, Selected, WellFormed
<1>3. ps \subseteq DOMAIN hs
    BY DEF Grows
<1>4. ASSUME NEW P, P \subseteq DOMAIN hs
      PROVE  Restrict(hs2, P) = Restrict(hs, P) /\ Restrict(dt2, P) = Restrict(dt, P)
    BY <1>2, <1>4 DEF Restrict
<1>5. ASSUME NEW c \in DOMAIN hs2 \ {Genesis}
      PROVE  dt2[c] = ComputeGhostdag(Restrict(hs2, PastIn(hs2)[c]), Restrict(dt2, PastIn(hs2)[c]),
                                      hs2[c].parents, hs2[c].work)
  <2>1. CASE c \in DOMAIN hs
    <3> DEFINE P == PastIn(hs)[c]
    <3>1. P \subseteq DOMAIN hs
        BY <1>2, <2>1, PastIsClosed
    <3>2. dt[c] = ComputeGhostdag(Restrict(hs, P), Restrict(dt, P), hs[c].parents, hs[c].work)
        BY <2>1 DEF Pure
    <3>3. Restrict(hs2, P) = Restrict(hs, P) /\ Restrict(dt2, P) = Restrict(dt, P)
        BY <1>4, <3>1
    <3>4. PastIn(hs2)[c] = P /\ hs2[c] = hs[c] /\ dt2[c] = dt[c]
        BY <1>2, <2>1
    <3> QED
        BY <3>2, <3>3, <3>4
  <2>2. CASE c = b
    <3> DEFINE P == PastIn(hs2)[b]
    <3>1. P \subseteq DOMAIN hs /\ ps \subseteq P
        BY <1>2, <1>3, PastIsClosed
    <3>2. ClosedPart(hs, P)
      <4>1. \A x \in P : hs2[x].parents \subseteq P
          BY <1>2, PastIsClosed
      <4> HIDE DEF P
      <4> QED
          BY <1>2, <3>1, <4>1 DEF ClosedPart
    <3> HIDE DEF P
    <3>3. ComputeGhostdag(Restrict(hs, P), Restrict(dt, P), ps, w) = ComputeGhostdag(hs, dt, ps, w)
        BY <1>2, <3>1, <3>2, GhostdagIsLocal
    <3>4. Restrict(hs2, P) = Restrict(hs, P) /\ Restrict(dt2, P) = Restrict(dt, P)
        BY <1>4, <3>1
    <3>5. dt2[b] = ComputeGhostdag(Restrict(hs2, P), Restrict(dt2, P), hs2[b].parents, hs2[b].work)
        BY <1>2, <3>3, <3>4
    <3> QED
        BY <2>2, <3>5 DEF P
  <2> QED
    BY <1>2, <2>1, <2>2
<1> QED
    BY <1>5 DEF Pure

LEMMA PureInvariant == Spec => []Pure(headers, data)
<1> DEFINE P == Pure(headers, data)
<1>1. Init => P
  <2> SUFFICES ASSUME Init PROVE P
    OBVIOUS
  <2>1. DOMAIN headers = {Genesis}
    BY DEF Init
  <2> QED
    BY <2>1 DEF Pure
<1>2. P /\ DagInv /\ [Next]_vars => P'
  <2> SUFFICES ASSUME P, DagInv, [Next]_vars PROVE P'
    OBVIOUS
  <2>1. CASE Next
    <3>1. PICK b \in Hash, ps \in ParentSets(Present), w \in Work : AddBlock(b, ps, w)
        BY <2>1 DEF Next
    <3>2. Grows(headers, data, headers', data', b, ps, w)
        BY <3>1, AddBlockGrows
    <3>3. Pure(headers', data')
        BY <3>2, GrowthIsPure DEF DagInv
    <3> QED
        BY <3>3
  <2>2. CASE UNCHANGED vars
    BY <2>2 DEF vars, Pure
  <2> QED
    BY <2>1, <2>2
<1> QED
    BY <1>1, <1>2, DagInvariant, PTL DEF Spec

(* Insertion-order independence: what compute_ghostdag makes of a block    *)
(* depends on the block and its past alone, so two nodes that hold it give *)
(* it the same selected parent, colours, score and work, whatever else     *)
(* they hold and however it reached them.                                  *)
THEOREM DataIsPure == Spec => []DataIsPureInThePast
<1>1. Pure(headers, data) => DataIsPureInThePast
    BY DEF Pure, DataIsPureInThePast, Past, Present
<1> QED
    BY <1>1, PureInvariant, PTL

-----------------------------------------------------------------------------
(* The past of an ancestor is part of the past. *)
LEMMA PastIsTransitive ==
    ASSUME NEW hs, NEW dt, Layered(hs, dt), NEW b \in DOMAIN hs
    PROVE  \A c \in PastIn(hs)[b] : PastIn(hs)[c] \subseteq PastIn(hs)[b]
<1> DEFINE D == PastIn(hs)[b]
           h == [c \in D |-> dt[c].topological_height]
           S == {c \in D : PastIn(hs)[c] \subseteq D}
<1>1. D \subseteq DOMAIN hs /\ \A c \in D : hs[c].parents \subseteq D
    BY PastIsClosed
<1>2. \A c \in D : h[c] \in Nat
    BY <1>1 DEF Layered
<1>3. ASSUME NEW c \in D, \A x \in D : h[x] < h[c] => x \in S
      PROVE  c \in S
  <2>1. c \in DOMAIN hs /\ hs[c].parents \subseteq D
    BY <1>1
  <2>2. \A p \in hs[c].parents : p \in D /\ h[p] < h[c]
    BY <1>1, <2>1 DEF Layered
  <2>3. \A p \in hs[c].parents : PastIn(hs)[p] \subseteq D
    <3> HIDE DEF h, D
    <3> QED
        BY <1>3, <2>2
  <2>4. PastIn(hs)[c] = PastStep(hs, PastIn(hs), c)
    <3>1. PastIn(hs) = [x \in DOMAIN hs |-> PastStep(hs, PastIn(hs), x)]
        BY PastRecursion DEF Layered
    <3> QED
        BY <2>1, <3>1
  <2> HIDE DEF D
  <2>5. PastIn(hs)[c] \subseteq D
    BY <2>1, <2>3, <2>4 DEF PastStep
  <2> QED
    BY <2>5
<1>4. D \subseteq S
  <2>1. \A c \in D : (\A x \in D : h[x] < h[c] => x \in S) => c \in S
    BY <1>3
  <2> HIDE DEF D, h, S
  <2> QED
    BY <1>2, <2>1, HeightInduction
<1> QED
    BY <1>4

(* A DAG of which every block has been judged. *)
Dag(hs, dt) == WellFormed(hs, dt) /\ Rooted(hs, dt) /\ AllJudged(hs, dt)

Members(hs, dt, b) == Mergeset(PastIn(hs), hs[b].parents, dt[b].selected_parent)

(* A block's past is the selected parent's, the selected parent and the    *)
(* merge set; its chain is the selected parent's and itself.               *)
StepsFrom(hs, dt, b, sp) ==
    /\ sp \in DOMAIN hs /\ sp \in hs[b].parents /\ sp # b
    /\ dt[sp].topological_height < dt[b].topological_height
    /\ PastIn(hs)[b] = PastIn(hs)[sp] \cup {sp} \cup Members(hs, dt, b)
    /\ Members(hs, dt, b) \cap (PastIn(hs)[sp] \cup {sp}) = {}
    /\ sp \notin PastIn(hs)[sp] /\ b \notin PastIn(hs)[b]
    /\ ChainIn(dt, b) = {b} \cup ChainIn(dt, sp)

LEMMA PastSplits ==
    ASSUME NEW hs, NEW dt, Dag(hs, dt), NEW b \in DOMAIN hs \ {Genesis}
    PROVE  StepsFrom(hs, dt, b, dt[b].selected_parent)
<1> DEFINE sp == dt[b].selected_parent
           past == PastIn(hs)
<1>1. Layered(hs, dt) /\ DOMAIN dt = DOMAIN hs
    BY DEF Dag, WellFormed, Layered
<1>2. sp \in hs[b].parents
    BY DEF Dag, AllJudged, Judged, Selected
<1>3. /\ sp \in DOMAIN hs /\ sp # b
      /\ dt[sp].topological_height < dt[b].topological_height
      /\ dt[sp].topological_height \in Nat /\ dt[b].topological_height \in Nat
  <2>1. sp \in DOMAIN hs
    BY <1>1, <1>2 DEF Layered, ParentsWithin
  <2>2. dt[sp].topological_height < dt[b].topological_height /\ dt[b].topological_height \in Nat
    BY <1>1, <1>2 DEF Layered
  <2> QED
    BY <1>1, <2>1, <2>2 DEF Layered
<1>4. past[b] = hs[b].parents \cup UNION {past[p] : p \in hs[b].parents}
  <2>1. past = [x \in DOMAIN hs |-> PastStep(hs, past, x)]
    BY <1>1, PastRecursion DEF Layered
  <2> QED
    BY <2>1 DEF PastStep
<1>5. past[sp] \subseteq past[b] /\ sp \in past[b]
    BY <1>2, <1>4
<1>6. Members(hs, dt, b) = past[b] \ (past[sp] \cup {sp})
    BY <1>4 DEF Members, Mergeset
<1>7. \A x \in DOMAIN hs : x \notin past[x]
  <2> SUFFICES ASSUME NEW x \in DOMAIN hs, x \in past[x] PROVE FALSE
    OBVIOUS
  <2>1. dt[x].topological_height < dt[x].topological_height
    BY <1>1, PastIsClosed
  <2>2. dt[x].topological_height \in Nat
    BY <1>1 DEF Layered
  <2> QED
    BY <2>1, <2>2
<1>8. ChainIn(dt, b) = {b} \cup ChainIn(dt, sp)
  <2>1. \A x \in DOMAIN dt : dt[x].selected_parent \in DOMAIN dt
    BY <1>1 DEF Layered, ParentsWithin
  <2>2. ChainIn(dt, b) = ChainStep(dt, ChainOf(dt), b)
    BY <1>1, <2>1, ChainRecursion
  <2> QED
    BY <1>1, <1>3, <2>2 DEF ChainStep, ChainOf
<1> HIDE DEF sp, past
<1>9. past[b] = past[sp] \cup {sp} \cup Members(hs, dt, b)
    BY <1>5, <1>6
<1>10. Members(hs, dt, b) \cap (past[sp] \cup {sp}) = {}
    BY <1>6
<1> QED
    BY <1>2, <1>3, <1>7, <1>8, <1>9, <1>10 DEF StepsFrom, sp, past

(* The blues of a block's past: those it merges, and the selected          *)
(* parent's.                                                               *)
BluesOf(dt, b) == UNION {dt[c].mergeset_blues : c \in ChainIn(dt, b)}

LEMMA BluesOfGenesis ==
    ASSUME NEW hs, NEW dt, Dag(hs, dt)
    PROVE  BluesOf(dt, Genesis) = {} /\ ChainIn(dt, Genesis) = {Genesis} /\ PastIn(hs)[Genesis] = {}
<1>1. Layered(hs, dt) /\ DOMAIN dt = DOMAIN hs /\ Genesis \in DOMAIN hs
    BY DEF Dag, WellFormed, Layered, Rooted
<1>2. ChainIn(dt, Genesis) = {Genesis}
  <2>1. \A x \in DOMAIN dt : dt[x].selected_parent \in DOMAIN dt
    BY <1>1 DEF Layered, ParentsWithin
  <2>2. ChainIn(dt, Genesis) = ChainStep(dt, ChainOf(dt), Genesis)
    BY <1>1, <2>1, ChainRecursion
  <2> QED
    BY <2>2 DEF ChainStep, Dag, Rooted
<1>3. PastIn(hs)[Genesis] = {}
  <2>1. PastIn(hs) = [x \in DOMAIN hs |-> PastStep(hs, PastIn(hs), x)]
    BY <1>1, PastRecursion DEF Layered
  <2> QED
    BY <1>1, <2>1 DEF PastStep, Dag, Rooted
<1> QED
    BY <1>2, <1>3 DEF BluesOf, Dag, Rooted

LEMMA BluesArePast ==
    ASSUME NEW hs, NEW dt, Dag(hs, dt), NEW b \in DOMAIN hs
    PROVE  BluesOf(dt, b) \subseteq PastIn(hs)[b]
<1>1. Layered(hs, dt)
    BY DEF Dag, WellFormed
<1> SUFFICES ASSUME NEW c \in ChainIn(dt, b) PROVE dt[c].mergeset_blues \subseteq PastIn(hs)[b]
    BY DEF BluesOf
<1>2. c = b \/ c \in PastIn(hs)[b]
    BY <1>1, ChainIsInPast
<1>3. c \in DOMAIN hs
    BY <1>1, <1>2, PastIsClosed
<1>4. PastIn(hs)[c] \subseteq PastIn(hs)[b]
    BY <1>1, <1>2, PastIsTransitive
<1>5. CASE c = Genesis
    BY <1>5 DEF Dag, Rooted
<1>6. CASE c # Genesis
  <2> DEFINE sp == dt[c].selected_parent
  <2>1. Merged(hs, dt[c], Members(hs, dt, c), sp)
    BY <1>3, <1>6 DEF Dag, AllJudged, Judged, Members
  <2>2. StepsFrom(hs, dt, c, sp)
    BY <1>3, <1>6, PastSplits
  <2>3. dt[c].mergeset_blues \subseteq {sp} \cup Members(hs, dt, c)
    BY <2>1 DEF Merged
  <2>4. PastIn(hs)[c] = PastIn(hs)[sp] \cup {sp} \cup Members(hs, dt, c)
    BY <2>2 DEF StepsFrom
  <2> QED
    BY <1>4, <2>3, <2>4
<1> QED
    BY <1>5, <1>6

LEMMA BluesSplit ==
    ASSUME NEW hs, NEW dt, Dag(hs, dt), NEW b \in DOMAIN hs \ {Genesis},
           NEW sp, sp = dt[b].selected_parent
    PROVE  /\ BluesOf(dt, b) = dt[b].mergeset_blues \cup BluesOf(dt, sp)
           /\ dt[b].mergeset_blues \cap (BluesOf(dt, sp) \cup {sp}) = {sp}
           /\ dt[b].mergeset_blues \subseteq PastIn(hs)[b]
<1>1. StepsFrom(hs, dt, b, sp)
    BY PastSplits
<1>2. Merged(hs, dt[b], Members(hs, dt, b), sp)
    BY DEF Dag, AllJudged, Judged, Members
<1>3. sp \in dt[b].mergeset_blues /\ dt[b].mergeset_blues \subseteq {sp} \cup Members(hs, dt, b)
    BY <1>2 DEF Merged
<1>4. ChainIn(dt, b) = {b} \cup ChainIn(dt, sp)
    BY <1>1 DEF StepsFrom
<1>5. BluesOf(dt, b) = dt[b].mergeset_blues \cup BluesOf(dt, sp)
    BY <1>4 DEF BluesOf
<1>6. BluesOf(dt, sp) \subseteq PastIn(hs)[sp]
  <2>1. sp \in DOMAIN hs
    BY <1>1 DEF StepsFrom
  <2> QED
    BY <2>1, BluesArePast
<1>7. /\ Members(hs, dt, b) \cap (PastIn(hs)[sp] \cup {sp}) = {}
      /\ PastIn(hs)[b] = PastIn(hs)[sp] \cup {sp} \cup Members(hs, dt, b)
      /\ sp \notin PastIn(hs)[sp]
    BY <1>1 DEF StepsFrom
<1> QED
    BY <1>3, <1>5, <1>6, <1>7

(* The work of a block and of the blues of its past, as TotalWork counts   *)
(* it, is the selected parent's and what the block adds to it.             *)
Total(hs, dt, b) == WorkOf(hs, BluesOf(dt, b) \cup {b})

Added(hs, dt, b) ==
    WorkOf(hs, dt[b].mergeset_blues \ {dt[b].selected_parent}) + hs[b].work

LEMMA TotalIsTyped ==
    ASSUME NEW hs, NEW dt, Dag(hs, dt), NEW b \in DOMAIN hs
    PROVE  Worked(hs, BluesOf(dt, b) \cup {b}) /\ Total(hs, dt, b) \in Nat
<1>1. BluesOf(dt, b) \subseteq DOMAIN hs
    BY BluesArePast, PastIsClosed DEF Dag, WellFormed
<1>2. Worked(hs, BluesOf(dt, b) \cup {b})
    BY <1>1, WorkedSubset DEF Dag, WellFormed
<1> QED
    BY <1>2, WorkAgrees DEF Total

LEMMA WorkOfOne ==
    ASSUME NEW hs, NEW b, hs[b].work \in Nat
    PROVE  Worked(hs, {b}) /\ WorkOf(hs, {b}) = hs[b].work
<1>1. Worked(hs, {b}) /\ Worked(hs, {})
    BY FS_Singleton, FS_EmptySet DEF Worked
<1>2. WorkOf(hs, {}) = 0
  <2>1. PICK f : WorkFn(hs, {}, f) /\ WorkOf(hs, {}) = f[{}]
    BY <1>1, WorkRecursion
  <2> QED
    BY <2>1 DEF WorkFn
<1>3. WorkOf(hs, {b}) = hs[b].work + WorkOf(hs, {b} \ {b})
    BY <1>1, WorkAdd
<1>4. {b} \ {b} = {}
    OBVIOUS
<1> QED
    BY <1>1, <1>2, <1>3, <1>4

LEMMA TotalSplits ==
    ASSUME NEW hs, NEW dt, Dag(hs, dt), NEW b \in DOMAIN hs \ {Genesis},
           NEW sp, sp = dt[b].selected_parent
    PROVE  /\ Total(hs, dt, b) = Total(hs, dt, sp) + Added(hs, dt, b)
           /\ WorkOf(hs, dt[b].mergeset_blues \ {sp}) \in Nat
<1> DEFINE B == BluesOf(dt, sp) \cup {sp}
           M == dt[b].mergeset_blues \ {sp}
<1>1. /\ BluesOf(dt, b) = dt[b].mergeset_blues \cup BluesOf(dt, sp)
      /\ dt[b].mergeset_blues \cap (BluesOf(dt, sp) \cup {sp}) = {sp}
      /\ dt[b].mergeset_blues \subseteq PastIn(hs)[b]
    BY BluesSplit
<1>2. StepsFrom(hs, dt, b, sp)
    BY PastSplits
<1>3. sp \in DOMAIN hs /\ b \notin PastIn(hs)[b] /\ sp \in PastIn(hs)[b]
    BY <1>2 DEF StepsFrom
<1>4. PastIn(hs)[sp] \subseteq PastIn(hs)[b]
    BY <1>3, PastIsTransitive DEF Dag, WellFormed
<1>5. Worked(hs, B) /\ B \subseteq PastIn(hs)[b]
    BY <1>3, <1>4, TotalIsTyped, BluesArePast
<1>6. Worked(hs, M)
  <2>1. M \subseteq DOMAIN hs
    BY <1>1, PastIsClosed DEF Dag, WellFormed
  <2> QED
    BY <2>1, WorkedSubset DEF Dag, WellFormed
<1>7. hs[b].work \in Nat
    BY DEF Dag, WellFormed, Worked
<1>8. B \cap M = {} /\ (B \cup M) \cap {b} = {} /\ BluesOf(dt, b) \cup {b} = (B \cup M) \cup {b}
    BY <1>1, <1>3, <1>5
<1> HIDE DEF B, M
<1>9. /\ Worked(hs, B \cup M) /\ WorkOf(hs, B \cup M) = WorkOf(hs, B) + WorkOf(hs, M)
      /\ WorkOf(hs, B) \in Nat /\ WorkOf(hs, M) \in Nat
    BY <1>5, <1>6, <1>8, WorkUnion
<1>10. Worked(hs, {b}) /\ WorkOf(hs, {b}) = hs[b].work
    BY <1>7, WorkOfOne
<1>11. WorkOf(hs, (B \cup M) \cup {b}) = WorkOf(hs, B \cup M) + WorkOf(hs, {b})
    BY <1>8, <1>9, <1>10, WorkUnion
<1> DEFINE z == WorkOf(hs, (B \cup M) \cup {b})
           wb == WorkOf(hs, B)
           wm == WorkOf(hs, M)
           w == hs[b].work
<1>12. z = (wb + wm) + w /\ wb \in Nat /\ wm \in Nat /\ w \in Nat
    BY <1>7, <1>9, <1>10, <1>11
<1> HIDE DEF z, wb, wm, w
<1>13. z = wb + (wm + w)
    BY <1>12
<1>14. Total(hs, dt, b) = z /\ Total(hs, dt, sp) = wb /\ Added(hs, dt, b) = wm + w
    BY <1>8 DEF Total, Added, z, wb, wm, w, B, M
<1> QED
    BY <1>12, <1>13, <1>14 DEF wm, M

(* blue_work is that total, up to where it saturates. *)
Capped(n) == IF n > WorkMax THEN WorkMax ELSE n

LEMMA CappedAdds ==
    ASSUME NEW x \in Nat, NEW y \in Nat
    PROVE  SaturatingAdd(Capped(x), y) = Capped(x + y)
BY BoundsAssumption DEF SaturatingAdd, Capped

LEMMA WorkIsTotal ==
    ASSUME NEW hs, NEW dt, Dag(hs, dt), hs[Genesis].work <= WorkMax
    PROVE  \A b \in DOMAIN hs : dt[b].blue_work = Capped(Total(hs, dt, b))
<1> DEFINE D == DOMAIN hs
           h == [b \in D |-> dt[b].topological_height]
           S == {b \in D : dt[b].blue_work = Capped(Total(hs, dt, b))}
<1>1. \A b \in D : h[b] \in Nat
    BY DEF Dag, WellFormed, Layered
<1>2. ASSUME NEW b \in D, \A c \in D : h[c] < h[b] => c \in S
      PROVE  dt[b].blue_work = Capped(Total(hs, dt, b))
  <2>1. CASE b = Genesis
    <3>1. hs[b].work \in Nat
        BY DEF Dag, WellFormed, Worked
    <3>2. BluesOf(dt, b) \cup {b} = {b}
        BY <2>1, BluesOfGenesis
    <3>3. Total(hs, dt, b) = hs[b].work
        BY <3>1, <3>2, WorkOfOne DEF Total
    <3>4. Capped(hs[b].work) = hs[b].work
        BY <2>1, <3>1, BoundsAssumption DEF Capped
    <3> QED
        BY <2>1, <3>3, <3>4 DEF Dag, Rooted
  <2>2. CASE b # Genesis
    <3> DEFINE sp == dt[b].selected_parent
               x == Total(hs, dt, sp)
               y == Added(hs, dt, b)
    <3>1. sp \in D /\ h[sp] < h[b]
        BY <2>2, PastSplits DEF StepsFrom
    <3>2. dt[sp].blue_work = Capped(x)
      <4>1. sp \in S
        <5> HIDE DEF S, h, D, sp
        <5> QED
            BY <1>2, <3>1
      <4> QED
          BY <4>1
    <3>3. Total(hs, dt, b) = x + y /\ WorkOf(hs, dt[b].mergeset_blues \ {sp}) \in Nat
        BY <2>2, TotalSplits
    <3>4. x \in Nat /\ y \in Nat
      <4>1. hs[b].work \in Nat
          BY DEF Dag, WellFormed, Worked
      <4>2. x \in Nat
          BY <3>1, TotalIsTyped
      <4> DEFINE m == WorkOf(hs, dt[b].mergeset_blues \ {sp})
                 w == hs[b].work
      <4>3. m \in Nat /\ w \in Nat /\ y = m + w
          BY <3>3, <4>1 DEF Added
      <4> HIDE DEF m, w, x, y
      <4> QED
          BY <4>2, <4>3
    <3>5. dt[b].blue_work = SaturatingAdd(dt[sp].blue_work, y)
        BY <2>2 DEF Dag, AllJudged, Judged, Added
    <3> HIDE DEF x, y, sp
    <3> QED
        BY <3>2, <3>3, <3>4, <3>5, CappedAdds
  <2> QED
    BY <2>1, <2>2
<1>3. D \subseteq S
  <2>1. \A b \in D : (\A c \in D : h[c] < h[b] => c \in S) => b \in S
    BY <1>2
  <2> HIDE DEF D, h, S
  <2> QED
    BY <1>1, <2>1, HeightInduction
<1> QED
    BY <1>3

-----------------------------------------------------------------------------
(* The blue work carried from block to block is the work of the blue past  *)
(* and the block, every block weighed once, capped where U256 saturates.   *)
WorkIsCarriedExactly ==
    \A b \in Present : data[b].blue_work = Capped(TotalWork(b))

LEMMA InvariantWeighs ==
    ASSUME DagInv
    PROVE  /\ Dag(headers, data)
           /\ \A b \in Present : /\ TotalWork(b) = Total(headers, data, b)
                                 /\ data[b].blue_work = Capped(TotalWork(b))
<1>1. Dag(headers, data)
    BY DEF DagInv, Dag
<1>2. \A b \in Present : TotalWork(b) = Total(headers, data, b)
    BY DEF TotalWork, Total, BluePast, BluesOf, Chain
<1>3. headers[Genesis].work <= WorkMax
  <2>1. Genesis \in Present /\ headers \in [Present -> [parents : SUBSET Present, work : Work]]
    BY DEF DagInv, Rooted, TypeOK, Present
  <2>2. headers[Genesis].work \in Work
    BY <2>1
  <2> QED
    BY <2>2, BoundsAssumption
<1>4. \A b \in Present : data[b].blue_work = Capped(Total(headers, data, b))
    BY <1>1, <1>3, WorkIsTotal DEF Present
<1> QED
    BY <1>1, <1>2, <1>4

(* What is carried is exact: no block of the past is weighed twice or      *)
(* forgotten although it was merged by another chain block (blue_work of   *)
(* compute_ghostdag).                                                      *)
THEOREM WorkIsExact == Spec => []WorkIsCarriedExactly
<1>1. DagInv => WorkIsCarriedExactly
    BY InvariantWeighs DEF WorkIsCarriedExactly
<1> QED
    BY <1>1, DagInvariant, PTL

(* No total has reached the point where accumulated work saturates.  There *)
(* a block may weigh no more than its parents, and the hash decides.       *)
Unsaturated == \A b \in Present : TotalWork(b) <= WorkMax

(* A block outweighs its parents. *)
LEMMA ChildrenWeighMore ==
    ASSUME DagInv, Unsaturated, NEW c \in Present, NEW b \in headers[c].parents
    PROVE  data[b].blue_work < data[c].blue_work
<1> DEFINE sp == data[c].selected_parent
<1>1. Dag(headers, data)
    BY InvariantWeighs
<1>2. c \in DOMAIN headers \ {Genesis}
    BY DEF DagInv, Rooted, Present
<1>3. /\ Selected(data, headers[c].parents, sp)
      /\ sp \in Present
      /\ b \in Present
    BY <1>1, <1>2 DEF Dag, AllJudged, Judged, Selected, WellFormed, Layered, ParentsWithin, Present
<1>4. \A x \in Present : data[x].blue_work = TotalWork(x) /\ TotalWork(x) \in Nat
  <2> TAKE x \in Present
  <2>1. TotalWork(x) = Total(headers, data, x) /\ data[x].blue_work = Capped(TotalWork(x))
    BY InvariantWeighs
  <2>2. Total(headers, data, x) \in Nat
    BY <1>1, TotalIsTyped DEF Present
  <2>3. TotalWork(x) <= WorkMax
    BY DEF Unsaturated
  <2> QED
    BY <2>1, <2>2, <2>3, BoundsAssumption DEF Capped
<1>5. data[sp].blue_work = data[b].blue_work \/ data[sp].blue_work > data[b].blue_work
    BY <1>3 DEF Selected, Heavier
<1>6. TotalWork(c) = TotalWork(sp) + Added(headers, data, c)
  <2>1. Total(headers, data, c) = Total(headers, data, sp) + Added(headers, data, c)
    BY <1>1, <1>2, TotalSplits
  <2> QED
    BY <1>3, <2>1, InvariantWeighs
<1>7. Added(headers, data, c) \in Nat /\ Added(headers, data, c) > 0
  <2> DEFINE m == WorkOf(headers, data[c].mergeset_blues \ {sp})
             w == headers[c].work
  <2>1. m \in Nat
    BY <1>1, <1>2, TotalSplits
  <2>2. w \in Nat /\ w > 0
    <3>1. headers \in [Present -> [parents : SUBSET Present, work : Work]]
        BY DEF DagInv, TypeOK
    <3>2. w \in Work
        BY <3>1
    <3>3. \A x \in Work : x \in Nat /\ x > 0
        BY BoundsAssumption
    <3> QED
        BY <3>2, <3>3
  <2>3. Added(headers, data, c) = m + w
    BY DEF Added
  <2> HIDE DEF m, w
  <2> QED
    BY <2>1, <2>2, <2>3
<1> DEFINE tc == TotalWork(c)
           ts == TotalWork(sp)
           a == Added(headers, data, c)
           wb == data[b].blue_work
<1>8. /\ tc = ts + a /\ a \in Nat /\ a > 0 /\ ts \in Nat /\ wb \in Nat /\ (ts = wb \/ ts > wb)
      /\ data[c].blue_work = tc
    BY <1>3, <1>4, <1>5, <1>6, <1>7
<1> HIDE DEF tc, ts, a, wb
<1>9. wb < tc
    BY <1>8
<1> QED
    BY <1>8, <1>9 DEF wb

(* The fork choice: while accumulated work has not saturated,              *)
(* virtual_selected_parent, which looks at the tips only and at totals     *)
(* carried from block to block, finds the heaviest block of the store by   *)
(* work counted afresh.                                                    *)
THEOREM ForkChoiceIsHeaviest == Spec => [](Unsaturated => HeadIsHeaviest)
<1>1. ASSUME DagInv, Unsaturated PROVE HeadIsHeaviest
  <2> DEFINE H == Heaviest(data, Present)
             V == VirtualSelectedParent
  <2>1. /\ Weighed(data, Present) /\ IsFiniteSet(Present) /\ Genesis \in Present
        /\ tips = {b \in Present : children[b] = {}}
        /\ \A b \in Present : children[b] \subseteq Present
        /\ \A b, c \in Present : c \in children[b] <=> b \in headers[c].parents
    BY <1>1 DEF DagInv, TypeOK, WellFormed, Worked, Rooted, Present
  <2>2. H \in Present /\ \A c \in Present \ {H} : Heavier(data, H, c)
    BY <2>1, HeaviestExists
  <2> HIDE DEF H
  <2>3. H \in tips
    <3> SUFFICES ASSUME children[H] # {} PROVE FALSE
        BY <2>1, <2>2
    <3>1. PICK c \in children[H] : TRUE
        OBVIOUS
    <3>2. c \in Present /\ H \in headers[c].parents
        BY <2>1, <2>2, <3>1
    <3>3. data[H].blue_work < data[c].blue_work
        BY <1>1, <3>2, ChildrenWeighMore
    <3>4. data[H].blue_work \in Nat /\ data[c].blue_work \in Nat
        BY <2>1, <2>2, <3>2 DEF Weighed
    <3>5. c # H
        BY <3>3, <3>4
    <3>6. Heavier(data, H, c)
        BY <2>2, <3>2, <3>5
    <3> QED
        BY <3>3, <3>4, <3>6 DEF Heavier
  <2>4. V \in tips /\ \A c \in tips \ {V} : Heavier(data, V, c)
    <3>1. tips \in SUBSET Present /\ tips # {}
        BY <2>1, <2>3
    <3>2. IsFiniteSet(tips) /\ Weighed(data, tips)
        BY <2>1, <3>1, FS_Subset DEF Weighed
    <3> QED
        BY <3>1, <3>2, HeaviestExists DEF VirtualSelectedParent
  <2> HIDE DEF V
  <2>5. V = H
    <3> SUFFICES ASSUME V # H PROVE FALSE
        OBVIOUS
    <3>1. V \in Present
        BY <2>1, <2>4
    <3>2. Heavier(data, V, H) /\ Heavier(data, H, V)
        BY <2>2, <2>3, <2>4, <3>1
    <3> QED
        BY <2>1, <2>2, <3>1, <3>2, HeavierIsTotal
  <2>6. ASSUME NEW b \in Present \ {V}
        PROVE  \/ TotalWork(b) < TotalWork(V)
               \/ TotalWork(b) = TotalWork(V) /\ b < V
    <3>1. Heavier(data, V, b) /\ V \in Present
        BY <2>2, <2>5
    <3>2. \A x \in Present : data[x].blue_work = TotalWork(x) /\ TotalWork(x) \in Nat
      <4> TAKE x \in Present
      <4>1. TotalWork(x) = Total(headers, data, x) /\ data[x].blue_work = Capped(TotalWork(x))
          BY <1>1, InvariantWeighs
      <4>2. Total(headers, data, x) \in Nat
          BY <1>1, InvariantWeighs, TotalIsTyped DEF Present
      <4>3. TotalWork(x) <= WorkMax
          BY <1>1 DEF Unsaturated
      <4> QED
          BY <4>1, <4>2, <4>3, BoundsAssumption DEF Capped
    <3>3. b \in Nat /\ V \in Nat
        BY <2>1, <3>1 DEF Weighed
    <3> DEFINE tb == TotalWork(b)
               tv == TotalWork(V)
    <3>4. tb \in Nat /\ tv \in Nat /\ (tv > tb \/ (tv = tb /\ V > b))
        BY <3>1, <3>2 DEF Heavier
    <3> HIDE DEF tb, tv
    <3>5. tb < tv \/ (tb = tv /\ b < V)
        BY <3>3, <3>4
    <3> QED
        BY <3>5 DEF tb, tv
  <2> QED
    BY <2>6 DEF HeadIsHeaviest, V
<1>2. DagInv => (Unsaturated => HeadIsHeaviest)
    BY <1>1
<1> QED
    BY <1>2, DagInvariant, PTL

-----------------------------------------------------------------------------
(* Execution order.  FlattenSeq as a loop over what it joins. *)
Joins(f, seqs, U) ==
    /\ f \in [1..Len(seqs) -> Seq(U)]
    /\ f[1] = seqs[1]
    /\ \A n \in 2..Len(seqs) : f[n] = f[n - 1] \o seqs[n]

LEMMA FlattenJoins ==
    ASSUME NEW U, NEW seqs \in Seq(Seq(U)), Len(seqs) > 0
    PROVE  \E f : Joins(f, seqs, U) /\ FlattenSeq(seqs) = f[Len(seqs)]
<1> DEFINE N == Len(seqs)
           X == Seq(U)
           F == [e \in (1..N - 1) \X X |-> e[2] \o seqs[e[1] + 1]]
           IsRun(f) == f = [i \in 1..N |-> IF i = 1 THEN seqs[i] ELSE f[i - 1] \o seqs[i]]
<1>1. N \in Nat /\ N > 0 /\ \A i \in 1..N : seqs[i] \in X
    OBVIOUS
<1>2. \A n \in 1..N - 1 : \A x \in X : x \o seqs[n + 1] \in X
  <2> TAKE n \in 1..N - 1
  <2>1. seqs[n + 1] \in X
    BY <1>1
  <2> QED
    BY <2>1
<1>3. \A n \in 1..N - 1 : \A x \in X : F[<<n, x>>] = x \o seqs[n + 1]
    OBVIOUS
<1>4. PICK r : RunOf(r, F, N - 1, X, seqs[1])
  <2>1. StaysIn(F, N - 1, X)
    BY <1>2, <1>3 DEF StaysIn
  <2>2. N - 1 \in Nat /\ seqs[1] \in X
    BY <1>1
  <2> HIDE DEF F, N, X
  <2> QED
    BY <2>1, <2>2, Iteration
<1> HIDE DEF F, X
<1>5. /\ r \in [0..N - 1 -> X] /\ r[0] = seqs[1]
      /\ \A n \in 1..N - 1 : r[n] = r[n - 1] \o seqs[n + 1]
  <2>1. ASSUME NEW n \in 1..N - 1 PROVE r[n - 1] \in X
    <3>1. n - 1 \in 0..N - 1
        BY <1>1
    <3>2. r \in [0..N - 1 -> X]
        BY <1>4 DEF RunOf
    <3> HIDE DEF N
    <3> QED
        BY <3>1, <3>2
  <2> HIDE DEF N
  <2> QED
    BY <1>3, <1>4, <2>1 DEF RunOf
<1> DEFINE f == [i \in 1..N |-> r[i - 1]]
<1>6. f \in [1..N -> X] /\ f[1] = seqs[1]
    BY <1>1, <1>5
<1>7. ASSUME NEW n \in 2..N PROVE f[n] = f[n - 1] \o seqs[n]
  <2>1. n - 1 \in 1..N - 1 /\ n - 1 \in 1..N /\ n \in 1..N /\ (n - 1) + 1 = n
    BY <1>1
  <2>2. r[n - 1] = r[(n - 1) - 1] \o seqs[n]
    BY <1>5, <2>1
  <2> QED
    BY <2>1, <2>2
<1> HIDE DEF f
<1>8. IsRun(f)
  <2>1. \A i \in 1..N : f[i] = IF i = 1 THEN seqs[i] ELSE f[i - 1] \o seqs[i]
    <3> TAKE i \in 1..N
    <3>1. i = 1 \/ i \in 2..N
        BY <1>1
    <3> QED
        BY <1>6, <1>7, <3>1
  <2> QED
    BY <1>6, <2>1
<1> DEFINE chosen == CHOOSE g : IsRun(g)
<1>9. IsRun(chosen)
  <2> HIDE DEF IsRun
  <2> QED
    BY <1>8
<1>10. FlattenSeq(seqs) = chosen[N]
    BY <1>1 DEF FlattenSeq
<1> HIDE DEF chosen
<1>11. chosen = f
  <2>1. \A i \in 1..N : chosen[i] = IF i = 1 THEN seqs[i] ELSE chosen[i - 1] \o seqs[i]
    BY <1>9
  <2> DEFINE Same == {n \in Nat : n < N => chosen[n + 1] = f[n + 1]}
  <2>2. 0 \in Same
    BY <1>1, <1>6, <2>1
  <2>3. ASSUME NEW n \in Nat, n \in Same PROVE n + 1 \in Same
    <3> SUFFICES ASSUME n + 1 < N PROVE chosen[(n + 1) + 1] = f[(n + 1) + 1]
        OBVIOUS
    <3>1. /\ (n + 1) + 1 \in 2..N /\ (n + 1) + 1 \in 1..N /\ (n + 1) + 1 # 1
          /\ ((n + 1) + 1) - 1 = n + 1 /\ n < N
        BY <1>1
    <3>2. chosen[n + 1] = f[n + 1]
        BY <2>3, <3>1
    <3>3. f[(n + 1) + 1] = f[n + 1] \o seqs[(n + 1) + 1]
        BY <1>7, <3>1
    <3>4. chosen[(n + 1) + 1] = chosen[n + 1] \o seqs[(n + 1) + 1]
        BY <2>1, <3>1
    <3> QED
        BY <3>2, <3>3, <3>4
  <2>4. Nat \subseteq Same
    <3> HIDE DEF Same
    <3> QED
        BY <2>2, <2>3, Counting
  <2>5. \A i \in 1..N : chosen[i] = f[i]
    <3> TAKE i \in 1..N
    <3>1. i - 1 \in Nat /\ i - 1 < N /\ (i - 1) + 1 = i
        BY <1>1
    <3>2. i - 1 \in Same
        BY <2>4, <3>1
    <3> HIDE DEF N
    <3> QED
        BY <3>1, <3>2
  <2>6. chosen = [i \in 1..N |-> chosen[i]] /\ f = [i \in 1..N |-> f[i]]
    BY <1>6, <1>9
  <2> QED
    BY <2>5, <2>6
<1> QED
    BY <1>6, <1>7, <1>10, <1>11 DEF Joins, X

(* One sequence more is appended. *)
LEMMA FlattenAppends ==
    ASSUME NEW U, NEW s \in Seq(Seq(U)), NEW t \in Seq(Seq(U)), Len(s) > 0,
           Len(t) = Len(s) + 1, \A i \in 1..Len(s) : t[i] = s[i]
    PROVE  /\ FlattenSeq(t) = FlattenSeq(s) \o t[Len(t)]
           /\ FlattenSeq(s) \in Seq(U)
<1>1. PICK f : Joins(f, s, U) /\ FlattenSeq(s) = f[Len(s)]
    BY FlattenJoins
<1>2. Len(s) \in Nat /\ Len(t) > 0
    OBVIOUS
<1>3. PICK g : Joins(g, t, U) /\ FlattenSeq(t) = g[Len(t)]
    BY <1>2, FlattenJoins
<1> DEFINE N == Len(s)
           Same == {n \in Nat : n < N => g[n + 1] = f[n + 1]}
<1>4. 0 \in Same
    BY <1>1, <1>2, <1>3 DEF Joins
<1>5. ASSUME NEW n \in Nat, n \in Same PROVE n + 1 \in Same
  <2> SUFFICES ASSUME n + 1 < N PROVE g[(n + 1) + 1] = f[(n + 1) + 1]
    OBVIOUS
  <2>1. /\ (n + 1) + 1 \in 2..Len(s) /\ (n + 1) + 1 \in 2..Len(t) /\ (n + 1) + 1 \in 1..Len(s)
        /\ ((n + 1) + 1) - 1 = n + 1 /\ n < N
    BY <1>2
  <2>2. g[n + 1] = f[n + 1]
    BY <1>5, <2>1
  <2>3. f[(n + 1) + 1] = f[n + 1] \o s[(n + 1) + 1]
    BY <1>1, <2>1 DEF Joins
  <2>4. g[(n + 1) + 1] = g[n + 1] \o t[(n + 1) + 1]
    BY <1>3, <2>1 DEF Joins
  <2>5. t[(n + 1) + 1] = s[(n + 1) + 1]
    BY <2>1
  <2> QED
    BY <2>2, <2>3, <2>4, <2>5
<1>6. Nat \subseteq Same
  <2> HIDE DEF Same
  <2> QED
    BY <1>4, <1>5, Counting
<1>7. g[N] = f[N]
  <2>1. N - 1 \in Same /\ N - 1 < N /\ (N - 1) + 1 = N
    BY <1>2, <1>6
  <2> QED
    BY <2>1
<1>8. g[Len(t)] = g[N] \o t[Len(t)]
  <2>1. Len(t) \in 2..Len(t) /\ Len(t) - 1 = N
    BY <1>2
  <2> QED
    BY <1>3, <2>1 DEF Joins
<1>9. f[N] \in Seq(U)
  <2>1. N \in 1..N
    BY <1>2
  <2>2. f \in [1..N -> Seq(U)]
    BY <1>1 DEF Joins
  <2> HIDE DEF N
  <2> QED
    BY <2>1, <2>2
<1> QED
    BY <1>1, <1>3, <1>7, <1>8, <1>9

(* The blocks of a selected chain are told apart by how long the chain to  *)
(* them is.                                                                *)
Depth(dt, c) == Cardinality(ChainIn(dt, c))

Nth(dt, b, i) == CHOOSE c \in ChainIn(dt, b) : Depth(dt, c) = i

Ranked(dt, b) ==
    /\ IsFiniteSet(ChainIn(dt, b)) /\ Depth(dt, b) \in Nat \ {0} /\ b \in ChainIn(dt, b)
    /\ \A c \in ChainIn(dt, b) : Depth(dt, c) \in 1..Depth(dt, b)
    /\ \A c, d \in ChainIn(dt, b) : Depth(dt, c) = Depth(dt, d) => c = d
    /\ \A i \in 1..Depth(dt, b) : \E c \in ChainIn(dt, b) : Depth(dt, c) = i

LEMMA RankedExtends ==
    ASSUME NEW dt, NEW b, NEW sp, Ranked(dt, sp), b \notin ChainIn(dt, sp),
           ChainIn(dt, b) = {b} \cup ChainIn(dt, sp)
    PROVE  Ranked(dt, b) /\ Depth(dt, b) = Depth(dt, sp) + 1
<1> DEFINE C == ChainIn(dt, sp)
           n == Depth(dt, sp)
<1>1. IsFiniteSet(C) /\ n \in Nat \ {0}
    BY DEF Ranked
<1>2. IsFiniteSet(ChainIn(dt, b)) /\ Depth(dt, b) = n + 1
  <2>1. IsFiniteSet(C \cup {b}) /\ Cardinality(C \cup {b}) = Cardinality(C) + 1
    BY <1>1, FS_AddElement
  <2>2. ChainIn(dt, b) = C \cup {b}
    OBVIOUS
  <2> QED
    BY <2>1, <2>2 DEF Depth
<1>3. /\ \A c \in C : Depth(dt, c) \in 1..n
      /\ \A c, d \in C : Depth(dt, c) = Depth(dt, d) => c = d
      /\ \A i \in 1..n : \E c \in C : Depth(dt, c) = i
    BY DEF Ranked
<1> HIDE DEF n
<1>4. \A c \in ChainIn(dt, b) : c = b \/ c \in C
    OBVIOUS
<1> HIDE DEF C
<1>5. \A c \in ChainIn(dt, b) : Depth(dt, c) \in 1..n + 1
  <2> TAKE c \in ChainIn(dt, b)
  <2>1. CASE c = b
    BY <1>1, <1>2, <2>1
  <2>2. CASE c \in C
    BY <1>1, <1>3, <2>2
  <2> QED
    BY <1>4, <2>1, <2>2
<1>6. ASSUME NEW c \in ChainIn(dt, b), NEW d \in ChainIn(dt, b), Depth(dt, c) = Depth(dt, d)
      PROVE  c = d
  <2>1. \A x \in C : Depth(dt, x) # n + 1
    BY <1>1, <1>3
  <2> QED
    BY <1>2, <1>3, <1>4, <1>6, <2>1
<1>7. ASSUME NEW i \in 1..n + 1 PROVE \E c \in ChainIn(dt, b) : Depth(dt, c) = i
  <2>1. i \in 1..n \/ i = n + 1
    BY <1>1
  <2>2. \A c \in C : c \in ChainIn(dt, b)
    BY DEF C
  <2>3. b \in ChainIn(dt, b)
    OBVIOUS
  <2> QED
    BY <1>2, <1>3, <2>1, <2>2, <2>3
<1>8. b \in ChainIn(dt, b)
    OBVIOUS
<1> QED
    BY <1>1, <1>2, <1>5, <1>6, <1>7, <1>8 DEF Ranked, n

LEMMA ChainIsRanked ==
    ASSUME NEW hs, NEW dt, Dag(hs, dt)
    PROVE  \A b \in DOMAIN hs : Ranked(dt, b)
<1> DEFINE D == DOMAIN hs
           h == [b \in D |-> dt[b].topological_height]
           S == {b \in D : Ranked(dt, b)}
<1>1. \A b \in D : h[b] \in Nat
    BY DEF Dag, WellFormed, Layered
<1>2. ASSUME NEW b \in D, \A c \in D : h[c] < h[b] => c \in S
      PROVE  Ranked(dt, b)
  <2>1. CASE b = Genesis
    <3>1. ChainIn(dt, b) = {b}
        BY <2>1, BluesOfGenesis
    <3>2. IsFiniteSet({b}) /\ Cardinality({b}) = 1
        BY FS_Singleton
    <3> QED
        BY <3>1, <3>2 DEF Ranked, Depth
  <2>2. CASE b # Genesis
    <3> DEFINE sp == dt[b].selected_parent
    <3>1. StepsFrom(hs, dt, b, sp)
        BY <2>2, PastSplits
    <3>2. sp \in D /\ h[sp] < h[b]
        BY <3>1 DEF StepsFrom
    <3>3. Ranked(dt, sp)
      <4>1. sp \in S
        <5> HIDE DEF S, h, D, sp
        <5> QED
            BY <1>2, <3>2
      <4> QED
          BY <4>1
    <3>4. b \notin ChainIn(dt, sp)
      <4>1. ChainIn(dt, sp) \subseteq {sp} \cup PastIn(hs)[sp]
          BY <3>2, ChainIsInPast DEF Dag, WellFormed
      <4> QED
          BY <3>1, <4>1 DEF StepsFrom
    <3> QED
        BY <3>1, <3>3, <3>4, RankedExtends DEF StepsFrom
  <2> QED
    BY <2>1, <2>2
<1>3. D \subseteq S
  <2>1. \A b \in D : (\A c \in D : h[c] < h[b] => c \in S) => b \in S
    BY <1>2
  <2> HIDE DEF D, h, S
  <2> QED
    BY <1>1, <2>1, HeightInduction
<1> QED
    BY <1>3

LEMMA NthIsRanked ==
    ASSUME NEW dt, NEW b, Ranked(dt, b), NEW c \in ChainIn(dt, b), NEW i, Depth(dt, c) = i
    PROVE  Nth(dt, b, i) = c
<1>1. Nth(dt, b, i) \in ChainIn(dt, b) /\ Depth(dt, Nth(dt, b, i)) = i
    BY DEF Nth
<1> QED
    BY <1>1 DEF Ranked

(* The order a block's selected chain is executed in, and the step that    *)
(* extends the selected parent's.                                          *)
Base(dt, c) == Append(dt[c].mergeset_ordered, c)

Steps(dt, b) == [i \in 1..Depth(dt, b) |-> Base(dt, Nth(dt, b, i))]

OrderOf(dt, b) == FlattenSeq(Steps(dt, b))

LEMMA BaseIsTyped ==
    ASSUME NEW hs, NEW dt, Dag(hs, dt), NEW c \in DOMAIN hs
    PROVE  Base(dt, c) \in Seq(DOMAIN hs)
<1>1. dt[c].mergeset_ordered \in Seq(DOMAIN hs)
  <2>1. CASE c = Genesis
    <3>1. dt[c].mergeset_ordered = <<>>
        BY <2>1 DEF Dag, Rooted
    <3>2. <<>> \in Seq(DOMAIN hs)
        OBVIOUS
    <3> QED
        BY <3>1, <3>2
  <2>2. CASE c # Genesis
    <3>1. dt[c].mergeset_ordered \in Seq(Members(hs, dt, c))
        BY <2>2 DEF Dag, AllJudged, Judged, Merged, Members
    <3>2. Members(hs, dt, c) \subseteq PastIn(hs)[c]
        BY <2>2, PastSplits DEF StepsFrom
    <3>3. PastIn(hs)[c] \subseteq DOMAIN hs
        BY PastIsClosed DEF Dag, WellFormed
    <3> QED
        BY <3>1, <3>2, <3>3
  <2> QED
    BY <2>1, <2>2
<1> QED
    BY <1>1 DEF Base

LEMMA StepsAreTyped ==
    ASSUME NEW hs, NEW dt, Dag(hs, dt), NEW b \in DOMAIN hs
    PROVE  /\ Steps(dt, b) \in Seq(Seq(DOMAIN hs))
           /\ Len(Steps(dt, b)) = Depth(dt, b) /\ Depth(dt, b) \in Nat \ {0}
<1>1. Ranked(dt, b)
    BY ChainIsRanked
<1>2. ChainIn(dt, b) \subseteq DOMAIN hs
    BY ChainIsInPast, PastIsClosed DEF Dag, WellFormed
<1>3. ASSUME NEW i \in 1..Depth(dt, b) PROVE Base(dt, Nth(dt, b, i)) \in Seq(DOMAIN hs)
  <2>1. PICK c \in ChainIn(dt, b) : Depth(dt, c) = i
    BY <1>1 DEF Ranked
  <2>2. Nth(dt, b, i) = c
    BY <1>1, <2>1, NthIsRanked
  <2> QED
    BY <1>2, <2>2, BaseIsTyped
<1>4. Depth(dt, b) \in Nat \ {0}
    BY <1>1 DEF Ranked
<1> DEFINE n == Depth(dt, b)
           X == Seq(DOMAIN hs)
<1>5. Steps(dt, b) \in [1..n -> X] /\ n \in Nat
    BY <1>3, <1>4 DEF Steps
<1> HIDE DEF n, X
<1>6. Steps(dt, b) \in Seq(X) /\ Len(Steps(dt, b)) = n
    BY <1>5
<1> QED
    BY <1>4, <1>6 DEF X, n

LEMMA OrderExtends ==
    ASSUME NEW hs, NEW dt, Dag(hs, dt), NEW b \in DOMAIN hs \ {Genesis},
           NEW sp, sp = dt[b].selected_parent
    PROVE  /\ OrderOf(dt, b) = OrderOf(dt, sp) \o Base(dt, b)
           /\ OrderOf(dt, sp) \in Seq(DOMAIN hs)
<1>1. StepsFrom(hs, dt, b, sp)
    BY PastSplits
<1>2. sp \in DOMAIN hs /\ ChainIn(dt, b) = {b} \cup ChainIn(dt, sp)
    BY <1>1 DEF StepsFrom
<1>3. Ranked(dt, b) /\ Ranked(dt, sp)
    BY <1>2, ChainIsRanked
<1>4. Depth(dt, b) = Depth(dt, sp) + 1
  <2>1. b \notin ChainIn(dt, sp)
    <3>1. ChainIn(dt, sp) \subseteq {sp} \cup PastIn(hs)[sp]
        BY <1>2, ChainIsInPast DEF Dag, WellFormed
    <3> QED
        BY <1>1, <3>1 DEF StepsFrom
  <2> QED
    BY <1>2, <1>3, <2>1, RankedExtends
<1> DEFINE s == Steps(dt, sp)
           t == Steps(dt, b)
           n == Depth(dt, sp)
<1>5. /\ s \in Seq(Seq(DOMAIN hs)) /\ Len(s) = n /\ n \in Nat \ {0}
      /\ t \in Seq(Seq(DOMAIN hs)) /\ Len(t) = n + 1
    BY <1>2, <1>4, StepsAreTyped
<1>6. ASSUME NEW i \in 1..n PROVE t[i] = s[i]
  <2>1. PICK c \in ChainIn(dt, sp) : Depth(dt, c) = i
    BY <1>3 DEF Ranked
  <2>2. Nth(dt, sp, i) = c /\ Nth(dt, b, i) = c
    BY <1>2, <1>3, <2>1, NthIsRanked
  <2>3. i \in 1..n + 1
    BY <1>5
  <2> QED
    BY <1>4, <2>2, <2>3 DEF Steps
<1>7. t[n + 1] = Base(dt, b)
  <2>1. Nth(dt, b, n + 1) = b
    BY <1>2, <1>3, <1>4, NthIsRanked
  <2>2. n + 1 \in 1..n + 1
    BY <1>5
  <2> QED
    BY <1>4, <2>1, <2>2 DEF Steps
<1> HIDE DEF s, t, n
<1>8. FlattenSeq(t) = FlattenSeq(s) \o t[Len(t)] /\ FlattenSeq(s) \in Seq(DOMAIN hs)
  <2>1. Len(s) > 0 /\ Len(t) = Len(s) + 1 /\ \A i \in 1..Len(s) : t[i] = s[i]
    BY <1>5, <1>6
  <2> QED
    BY <1>5, <2>1, FlattenAppends
<1> QED
    BY <1>5, <1>7, <1>8 DEF OrderOf, s, t

(* In a merge set in order, not only parents but all ancestors come first: *)
(* an ancestor reached through a block outside the merge set would be in   *)
(* the selected parent's past.                                             *)
LEMMA AncestorsFirst ==
    ASSUME NEW hs, NEW dt, Dag(hs, dt), NEW b \in DOMAIN hs \ {Genesis},
           NEW s, s = dt[b].mergeset_ordered
    PROVE  \A j \in 1..Len(s) : \A i \in 1..Len(s) : s[i] \in PastIn(hs)[s[j]] => i < j
<1> DEFINE M == Members(hs, dt, b)
           past == PastIn(hs)
           sp == dt[b].selected_parent
           N == Len(s)
           Good == {n \in Nat : \A j \in 1..N : j <= n =>
                        \A i \in 1..N : s[i] \in past[s[j]] => i < j}
<1>1. s \in Seq(M) /\ Lists(s, M) /\ ParentsFirst(hs, M, s)
    BY DEF Dag, AllJudged, Judged, Merged, Members
<1>2. StepsFrom(hs, dt, b, sp)
    BY PastSplits
<1>3. Layered(hs, dt)
    BY DEF Dag, WellFormed
<1>4. /\ sp \in DOMAIN hs /\ past[b] = past[sp] \cup {sp} \cup M
      /\ M \cap (past[sp] \cup {sp}) = {}
    BY <1>2 DEF StepsFrom
<1>5. /\ past[b] \subseteq DOMAIN hs
      /\ \A c \in past[b] : hs[c].parents \subseteq past[b]
      /\ \A c \in past[sp] : past[c] \subseteq past[sp]
    BY <1>3, <1>4, PastIsClosed, PastIsTransitive
<1>6. N \in Nat /\ \A j \in 1..N : s[j] \in M
    BY <1>1
<1>7. 0 \in Good
    BY <1>6
<1>8. ASSUME NEW n \in Nat, n \in Good PROVE n + 1 \in Good
  <2>1. ASSUME n + 1 \in 1..N, NEW i \in 1..N, s[i] \in past[s[n + 1]]
        PROVE  i < n + 1
    <3> DEFINE c == s[n + 1]
    <3>1. c \in M /\ s[i] \in M /\ c \in DOMAIN hs
        BY <1>4, <1>5, <1>6, <2>1
    <3>2. \A p \in hs[c].parents \cap M : \E k \in 1..n : s[k] = p
        <4>1. \A p \in hs[c].parents \cap M : \E k \in 1..((n + 1) - 1) : s[k] = p
            BY <1>1, <2>1 DEF ParentsFirst
        <4> QED
            BY <4>1
    <3>3. past[c] = hs[c].parents \cup UNION {past[p] : p \in hs[c].parents}
        <4>1. past = [x \in DOMAIN hs |-> PastStep(hs, past, x)]
            BY <1>3, PastRecursion DEF Layered
        <4> HIDE DEF past, c
        <4> QED
            BY <3>1, <4>1 DEF PastStep
    <3>4. CASE s[i] \in hs[c].parents
        <4>1. PICK k \in 1..n : s[k] = s[i]
            BY <3>1, <3>2, <3>4
        <4>2. k \in 1..N
            BY <1>6, <2>1
        <4>3. k = i
            BY <1>1, <4>1, <4>2 DEF Lists
        <4> QED
            BY <4>3
    <3>5. CASE s[i] \notin hs[c].parents
        <4>1. PICK p \in hs[c].parents : s[i] \in past[p]
            <5> HIDE DEF past, c
            <5> QED
                BY <2>1, <3>3, <3>5 DEF c
        <4>2. p \in past[b]
            BY <1>4, <1>5, <3>1
        <4>3. p \notin past[sp] /\ p # sp
            BY <1>4, <1>5, <3>1, <4>1
        <4>4. p \in M
            BY <1>4, <4>2, <4>3
        <4>5. PICK k \in 1..n : s[k] = p
            BY <3>2, <4>4
        <4>6. k \in 1..N /\ k <= n
            BY <1>6, <2>1
        <4>7. i < k
            BY <1>8, <4>1, <4>5, <4>6
        <4> QED
            BY <4>7
    <3> QED
        BY <3>4, <3>5
  <2>2. ASSUME NEW j \in 1..N, j <= n + 1, NEW i \in 1..N, s[i] \in past[s[j]]
        PROVE  i < j
    <3>1. CASE j = n + 1
        BY <2>1, <2>2, <3>1
    <3>2. CASE j <= n
        BY <1>8, <2>2, <3>2
    <3> QED
        BY <1>6, <2>2, <3>1, <3>2
  <2> QED
    BY <2>2
<1>9. Nat \subseteq Good
  <2> HIDE DEF Good
  <2> QED
    BY <1>7, <1>8, Counting
<1>10. N \in Good
  <2> HIDE DEF Good
  <2> QED
    BY <1>6, <1>9
<1>11. \A j \in 1..N : j <= N
    BY <1>6
<1> QED
    BY <1>10, <1>11

Joined(u, v, w) ==
    /\ Range(w) = Range(u) \cup Range(v)
    /\ Len(w) = Len(u) + Len(v)
    /\ \A k \in 1..Len(w) :
         \/ k \in 1..Len(u) /\ w[k] = u[k]
         \/ k - Len(u) \in 1..Len(v) /\ w[k] = v[k - Len(u)]

LEMMA ConcatJoins ==
    ASSUME NEW S, NEW u \in Seq(S), NEW v \in Seq(S)
    PROVE  Joined(u, v, u \o v)
<1> DEFINE w == u \o v
           m == Len(u)
           n == Len(v)
<1>1. m \in Nat /\ n \in Nat /\ DOMAIN u = 1..m /\ DOMAIN v = 1..n
    OBVIOUS
<1>2. Len(w) = m + n /\ DOMAIN w = 1..m + n
    OBVIOUS
<1>3. \A k \in 1..m : w[k] = u[k]
    OBVIOUS
<1>4. \A k \in 1..n : w[m + k] = v[k]
    OBVIOUS
<1> HIDE DEF w, m, n
<1>5. ASSUME NEW k \in 1..m + n
      PROVE  \/ k \in 1..m /\ w[k] = u[k]
             \/ k - m \in 1..n /\ w[k] = v[k - m]
  <2>1. CASE k <= m
    <3>1. k \in 1..m
        BY <1>1, <2>1
    <3> QED
        BY <1>3, <3>1
  <2>2. CASE k > m
    <3>1. k - m \in 1..n /\ m + (k - m) = k
        BY <1>1, <2>2
    <3> QED
        BY <1>4, <3>1
  <2> QED
    BY <1>1, <2>1, <2>2
<1>6. Range(w) \subseteq Range(u) \cup Range(v)
    BY <1>1, <1>2, <1>5 DEF Range
<1>7. Range(u) \subseteq Range(w)
  <2>1. \A k \in 1..m : k \in 1..m + n
    BY <1>1
  <2> QED
    BY <1>1, <1>2, <1>3, <2>1 DEF Range
<1>8. Range(v) \subseteq Range(w)
  <2>1. \A k \in 1..n : m + k \in 1..m + n
    BY <1>1
  <2> QED
    BY <1>1, <1>2, <1>4, <2>1 DEF Range
<1>9. Range(w) = Range(u) \cup Range(v)
    BY <1>6, <1>7, <1>8
<1> QED
    BY <1>2, <1>5, <1>9 DEF Joined, w, m, n

(* What executing the selected chain of `b` should run. *)
Executed(hs, b, order) ==
    /\ order \in Seq(DOMAIN hs)
    /\ Range(order) = PastIn(hs)[b] \cup {b}
    /\ Len(order) = Cardinality(PastIn(hs)[b]) + 1
    /\ \A i, j \in 1..Len(order) : order[i] \in PastIn(hs)[order[j]] => i < j

LEMMA GenesisExecutes ==
    ASSUME NEW hs, NEW dt, Dag(hs, dt)
    PROVE  Executed(hs, Genesis, OrderOf(dt, Genesis))
<1>1. Genesis \in DOMAIN hs
    BY DEF Dag, Rooted
<1>2. ChainIn(dt, Genesis) = {Genesis} /\ PastIn(hs)[Genesis] = {}
    BY BluesOfGenesis
<1>3. Depth(dt, Genesis) = 1
    BY <1>2, FS_Singleton DEF Depth
<1>4. /\ Steps(dt, Genesis) \in Seq(Seq(DOMAIN hs)) /\ Len(Steps(dt, Genesis)) = 1
      /\ Len(Steps(dt, Genesis)) > 0
  <2>1. Steps(dt, Genesis) \in Seq(Seq(DOMAIN hs)) /\ Len(Steps(dt, Genesis)) = 1
    BY <1>1, <1>3, StepsAreTyped
  <2> QED
    BY <2>1
<1>5. PICK f : /\ Joins(f, Steps(dt, Genesis), DOMAIN hs)
               /\ FlattenSeq(Steps(dt, Genesis)) = f[Len(Steps(dt, Genesis))]
    BY <1>4, FlattenJoins
<1>6. OrderOf(dt, Genesis) = Steps(dt, Genesis)[1]
    BY <1>4, <1>5 DEF Joins, OrderOf
<1>7. Nth(dt, Genesis, 1) = Genesis
    BY <1>1, <1>2, <1>3, ChainIsRanked, NthIsRanked
<1>8. Steps(dt, Genesis)[1] = Base(dt, Genesis)
  <2>1. 1 \in 1..1
    OBVIOUS
  <2> QED
    BY <1>3, <1>7, <2>1 DEF Steps
<1>9. Base(dt, Genesis) = <<Genesis>>
  <2>1. dt[Genesis].mergeset_ordered = <<>>
    BY DEF Dag, Rooted
  <2>2. Append(<<>>, Genesis) = <<Genesis>>
    OBVIOUS
  <2> QED
    BY <2>1, <2>2 DEF Base
<1>10. OrderOf(dt, Genesis) = <<Genesis>>
    BY <1>6, <1>8, <1>9
<1> DEFINE o == <<Genesis>>
<1>11. /\ o \in Seq(DOMAIN hs) /\ Len(o) = 1 /\ o[1] = Genesis /\ DOMAIN o = {1}
       /\ 1..1 = {1}
    BY <1>1
<1>12. Range(o) = {Genesis}
    BY <1>11 DEF Range
<1> HIDE DEF o
<1>13. Cardinality({}) = 0
    BY FS_EmptySet
<1>14. \A i, j \in 1..Len(o) : o[i] \in PastIn(hs)[o[j]] => i < j
    BY <1>2, <1>11
<1>15. Executed(hs, Genesis, o)
    BY <1>2, <1>11, <1>12, <1>13, <1>14 DEF Executed
<1> QED
    BY <1>10, <1>15 DEF o

LEMMA ExecutedExtends ==
    ASSUME NEW hs, NEW dt, Dag(hs, dt), NEW b \in DOMAIN hs \ {Genesis},
           NEW sp, sp = dt[b].selected_parent, NEW u, Executed(hs, sp, u)
    PROVE  Executed(hs, b, u \o Base(dt, b))
<1> DEFINE s == dt[b].mergeset_ordered
           v == Base(dt, b)
           M == Members(hs, dt, b)
           past == PastIn(hs)
           D == DOMAIN hs
           order == u \o v
<1>1. StepsFrom(hs, dt, b, sp)
    BY PastSplits
<1>2. /\ sp \in D /\ past[b] = past[sp] \cup {sp} \cup M /\ M \cap (past[sp] \cup {sp}) = {}
      /\ b \notin past[b]
    BY <1>1 DEF StepsFrom
<1>3. s \in Seq(M) /\ Lists(s, M)
    BY DEF Dag, AllJudged, Judged, Merged, Members
<1>4. /\ u \in Seq(D) /\ Range(u) = past[sp] \cup {sp} /\ Len(u) = Cardinality(past[sp]) + 1
      /\ \A i, j \in 1..Len(u) : u[i] \in past[u[j]] => i < j
    BY DEF Executed
<1>5. /\ Layered(hs, dt) /\ past[b] \subseteq D /\ IsFiniteSet(D)
      /\ \A c \in past[sp] : past[c] \subseteq past[sp]
      /\ \A c \in past[b] : past[c] \subseteq past[b]
    BY <1>2, PastIsClosed, PastIsTransitive DEF Dag, WellFormed, Worked
<1>6. s \in Seq(D) /\ b \in D
    BY <1>2, <1>3, <1>5
<1>7. v \in Seq(D) /\ Range(v) = M \cup {b} /\ Len(v) = Len(s) + 1
  <2>1. v \in Seq(D) /\ Len(v) = Len(s) + 1
    BY <1>6 DEF Base
  <2>2. Range(v) = Range(s) \cup {b}
    BY <1>6, RangeOfAppend DEF Base
  <2>3. Range(s) = M
    <3>1. DOMAIN s = 1..Len(s)
        BY <1>3
    <3> QED
        BY <1>3, <3>1 DEF Range, Lists
  <2> QED
    BY <2>1, <2>2, <2>3
<1>8. \A k \in 1..Len(v) : \/ k \in 1..Len(s) /\ v[k] = s[k] /\ v[k] \in M
                           \/ k = Len(s) + 1 /\ v[k] = b
  <2> TAKE k \in 1..Len(v)
  <2>1. k \in 1..Len(s) \/ k = Len(s) + 1
    BY <1>6, <1>7
  <2>2. CASE k \in 1..Len(s)
    BY <1>3, <1>6, <2>2 DEF Base
  <2>3. CASE k = Len(s) + 1
    BY <1>6, <2>3 DEF Base
  <2> QED
    BY <2>1, <2>2, <2>3
<1>9. \A i, j \in 1..Len(s) : s[i] \in past[s[j]] => i < j
    BY AncestorsFirst
<1> HIDE DEF s, v, M, past, D
<1>10. /\ Range(order) = Range(u) \cup Range(v) /\ Len(order) = Len(u) + Len(v)
       /\ \A k \in 1..Len(order) :
            \/ k \in 1..Len(u) /\ order[k] = u[k]
            \/ k - Len(u) \in 1..Len(v) /\ order[k] = v[k - Len(u)]
  <2>1. Joined(u, v, order)
    BY <1>4, <1>7, ConcatJoins
  <2> HIDE DEF order
  <2> QED
    BY <2>1 DEF Joined
<1>11. order \in Seq(D) /\ Len(u) \in Nat /\ Len(v) \in Nat /\ Len(s) \in Nat
    BY <1>4, <1>6, <1>7
<1>12. Range(order) = past[b] \cup {b}
    BY <1>2, <1>4, <1>7, <1>10
<1>13. Len(order) = Cardinality(past[b]) + 1
  <2>1. IsFiniteSet(past[sp]) /\ IsFiniteSet(M) /\ IsFiniteSet(past[sp] \cup {sp})
    <3>1. past[sp] \in SUBSET D /\ M \in SUBSET D /\ past[sp] \cup {sp} \in SUBSET D
        BY <1>2, <1>5
    <3> QED
        BY <1>5, <3>1, FS_Subset
  <2>2. Cardinality(past[sp] \cup {sp}) = Cardinality(past[sp]) + 1
    <3>1. sp \notin past[sp]
        BY <1>1 DEF StepsFrom, past
    <3> QED
        BY <2>1, <3>1, FS_AddElement
  <2>3. Cardinality((past[sp] \cup {sp}) \cup M)
            = Cardinality(past[sp] \cup {sp}) + Cardinality(M) - Cardinality((past[sp] \cup {sp}) \cap M)
    BY <2>1, FS_Union
  <2>4. (past[sp] \cup {sp}) \cap M = {} /\ (past[sp] \cup {sp}) \cup M = past[b]
    BY <1>2
  <2>5. Cardinality(past[sp]) \in Nat /\ Cardinality(M) \in Nat /\ Cardinality({}) = 0
    BY <2>1, FS_CardinalityType, FS_EmptySet
  <2>6. Len(s) = Cardinality(M)
    BY <1>3 DEF Lists
  <2> DEFINE cp == Cardinality(past[sp])
             cm == Cardinality(M)
             cb == Cardinality(past[b])
             cs == Cardinality(past[sp] \cup {sp})
  <2>10. cb = cs + cm - Cardinality({})
    BY <2>3, <2>4
  <2>11. cs = cp + 1
    BY <2>2
  <2>12. cp \in Nat /\ cm \in Nat /\ Cardinality({}) = 0
    BY <2>5
  <2>7. cp \in Nat /\ cm \in Nat /\ cb = ((cp + 1) + cm) - 0
    <3> HIDE DEF cp, cm, cb, cs
    <3> QED
        BY <2>10, <2>11, <2>12
  <2>9. Len(u) = cp + 1 /\ Len(v) = cm + 1 /\ Len(order) = Len(u) + Len(v)
    BY <1>4, <1>7, <1>10, <2>6
  <2> HIDE DEF cp, cm, cb, order
  <2>8. Len(order) = cb + 1
    BY <2>7, <2>9
  <2> QED
    BY <2>8 DEF cb
<1>14. ASSUME NEW i \in 1..Len(order), NEW j \in 1..Len(order), order[i] \in past[order[j]]
       PROVE  i < j
  <2> DEFINE m == Len(u)
             x == order[i]
             y == order[j]
  <2>1. m \in Nat /\ i \in Nat /\ j \in Nat
    BY <1>11
  <2>2. (i \in 1..m /\ x = u[i]) \/ (i - m \in 1..Len(v) /\ x = v[i - m])
    BY <1>10
  <2>3. (j \in 1..m /\ y = u[j]) \/ (j - m \in 1..Len(v) /\ y = v[j - m])
    BY <1>10
  <2>4. x \in past[y]
    BY <1>14
  <2> HIDE DEF x, y, m, order
  <2>5. CASE i \in 1..m /\ x = u[i] /\ j \in 1..m /\ y = u[j]
    BY <1>4, <2>4, <2>5 DEF m
  <2>6. CASE i \in 1..m /\ j - m \in 1..Len(v)
    BY <1>11, <2>1, <2>6
  <2>7. CASE i - m \in 1..Len(v) /\ x = v[i - m] /\ j \in 1..m /\ y = u[j]
    <3>1. x \in M \/ x = b
        BY <1>8, <2>7
    <3>2. y \in Range(u)
        <4>1. DOMAIN u = 1..m
            BY <1>4 DEF m
        <4> QED
            BY <2>7, <4>1 DEF Range
    <3>3. x \in past[sp]
        BY <1>4, <1>5, <2>4, <3>2
    <3> QED
        BY <1>2, <3>1, <3>3
  <2>8. CASE i - m \in 1..Len(v) /\ x = v[i - m] /\ j - m \in 1..Len(v) /\ y = v[j - m]
    <3> DEFINE p == i - m
               q == j - m
    <3>1. p \in 1..Len(v) /\ x = v[p] /\ q \in 1..Len(v) /\ y = v[q]
        BY <2>8
    <3>2. p < q => i < j
        BY <2>1
    <3> HIDE DEF p, q
    <3>3. CASE q \in 1..Len(s) /\ v[q] = s[q] /\ v[q] \in M
        <4>1. x \in past[b]
            BY <1>2, <1>5, <2>4, <3>1, <3>3
        <4>2. p \in 1..Len(s) /\ x = s[p]
            BY <1>2, <1>8, <3>1, <4>1
        <4>3. p < q
            BY <1>9, <2>4, <3>1, <3>3, <4>2
        <4> QED
            BY <3>2, <4>3
    <3>4. CASE q = Len(s) + 1 /\ v[q] = b
        <4>1. x # b
            BY <1>2, <2>4, <3>1, <3>4
        <4>2. p \in 1..Len(s)
            BY <1>8, <3>1, <4>1
        <4>3. p < q
            BY <1>11, <3>4, <4>2
        <4> QED
            BY <3>2, <4>3
    <3> QED
        BY <1>8, <3>1, <3>3, <3>4
  <2> QED
    BY <2>2, <2>3, <2>5, <2>6, <2>7, <2>8
<1> HIDE DEF order
<1>15. Executed(hs, b, order)
    BY <1>11, <1>12, <1>13, <1>14 DEF Executed, past, D
<1> QED
    BY <1>15 DEF order, v

LEMMA OrderExecutes ==
    ASSUME NEW hs, NEW dt, Dag(hs, dt)
    PROVE  \A b \in DOMAIN hs : Executed(hs, b, OrderOf(dt, b))
<1> DEFINE D == DOMAIN hs
           h == [b \in D |-> dt[b].topological_height]
           S == {b \in D : Executed(hs, b, OrderOf(dt, b))}
<1>1. \A b \in D : h[b] \in Nat
    BY DEF Dag, WellFormed, Layered
<1>2. ASSUME NEW b \in D, \A c \in D : h[c] < h[b] => c \in S
      PROVE  Executed(hs, b, OrderOf(dt, b))
  <2>1. CASE b = Genesis
    BY <2>1, GenesisExecutes
  <2>2. CASE b # Genesis
    <3> DEFINE sp == dt[b].selected_parent
    <3>1. sp \in D /\ h[sp] < h[b]
        BY <2>2, PastSplits DEF StepsFrom
    <3>2. Executed(hs, sp, OrderOf(dt, sp))
      <4>1. sp \in S
        <5> HIDE DEF S, h, D, sp
        <5> QED
            BY <1>2, <3>1
      <4> QED
          BY <4>1
    <3>3. OrderOf(dt, b) = OrderOf(dt, sp) \o Base(dt, b)
        BY <2>2, OrderExtends
    <3>4. Executed(hs, b, OrderOf(dt, sp) \o Base(dt, b))
        BY <2>2, <3>2, ExecutedExtends
    <3> QED
        BY <3>3, <3>4
  <2> QED
    BY <2>1, <2>2
<1>3. D \subseteq S
  <2>1. \A b \in D : (\A c \in D : h[c] < h[b] => c \in S) => b \in S
    BY <1>2
  <2> HIDE DEF D, h, S
  <2> QED
    BY <1>1, <2>1, HeightInduction
<1> QED
    BY <1>3

(* The ledger is complete, has no duplicates and respects the past:        *)
(* executing the merge sets along the selected chain of any block          *)
(* (base_sequence of its chain blocks) runs every block of its past exactly*)
(* once, and none before an ancestor of its own.                           *)
THEOREM LedgerIsComplete == Spec => []PastIsExecutedOnce
<1>1. ASSUME DagInv PROVE PastIsExecutedOnce
  <2> SUFFICES ASSUME NEW b \in Present
               PROVE  /\ Range(ExecutionOrder(b)) = Past(b) \cup {b}
                      /\ Len(ExecutionOrder(b)) = Cardinality(Past(b)) + 1
                      /\ \A i, j \in 1..Len(ExecutionOrder(b)) :
                            ExecutionOrder(b)[i] \in Past(ExecutionOrder(b)[j]) => i < j
    BY DEF PastIsExecutedOnce
  <2>1. ExecutionOrder(b) = OrderOf(data, b)
    BY DEF ExecutionOrder, OrderOf, Steps, Base, BaseSequence, Nth, Depth, Chain
  <2>2. Executed(headers, b, OrderOf(data, b))
    BY <1>1, InvariantWeighs, OrderExecutes DEF Present
  <2> QED
    BY <2>1, <2>2 DEF Executed, Past
<1>2. DagInv => PastIsExecutedOnce
    BY <1>1
<1> QED
    BY <1>2, DagInvariant, PTL

-----------------------------------------------------------------------------
(* Anticone sizes.  In a DAG whose data is pure, a block's data is what    *)
(* compute_ghostdag gives in the whole DAG.                                *)
LEMMA Recomputed ==
    ASSUME NEW hs, NEW dt, Dag(hs, dt), Pure(hs, dt), NEW b \in DOMAIN hs \ {Genesis}
    PROVE  dt[b] = ComputeGhostdag(hs, dt, hs[b].parents, hs[b].work)
<1> DEFINE P == PastIn(hs)[b]
           ps == hs[b].parents
<1>1. Layered(hs, dt)
    BY DEF Dag, WellFormed
<1>2. P \subseteq DOMAIN hs /\ ps \subseteq P /\ \A c \in P : hs[c].parents \subseteq P
    BY <1>1, PastIsClosed
<1>3. SelectParent(dt, ps) \in ps
    BY DEF Dag, AllJudged, Judged, Selected
<1>4. dt[b] = ComputeGhostdag(Restrict(hs, P), Restrict(dt, P), ps, hs[b].work)
    BY DEF Pure
<1> HIDE DEF P, ps
<1>5. ClosedPart(hs, P)
    BY <1>2 DEF ClosedPart
<1>6. ComputeGhostdag(Restrict(hs, P), Restrict(dt, P), ps, hs[b].work)
          = ComputeGhostdag(hs, dt, ps, hs[b].work)
    BY <1>1, <1>2, <1>3, <1>5, GhostdagIsLocal
<1> QED
    BY <1>4, <1>6 DEF ps

(* No block is a merged blue of two blocks of one selected chain. *)
BluesApart(dt, C) ==
    \A x, z \in C : x # z => dt[x].mergeset_blues \cap dt[z].mergeset_blues = {}

LEMMA ChainBluesApart ==
    ASSUME NEW hs, NEW dt, Dag(hs, dt)
    PROVE  \A b \in DOMAIN hs : BluesApart(dt, ChainIn(dt, b))
<1> DEFINE D == DOMAIN hs
           h == [b \in D |-> dt[b].topological_height]
           S == {b \in D : BluesApart(dt, ChainIn(dt, b))}
<1>1. \A b \in D : h[b] \in Nat
    BY DEF Dag, WellFormed, Layered
<1>2. ASSUME NEW b \in D, \A c \in D : h[c] < h[b] => c \in S
      PROVE  BluesApart(dt, ChainIn(dt, b))
  <2>1. CASE b = Genesis
    <3>1. ChainIn(dt, b) = {b}
        BY <2>1, BluesOfGenesis
    <3> QED
        BY <3>1 DEF BluesApart
  <2>2. CASE b # Genesis
    <3> DEFINE sp == dt[b].selected_parent
    <3>1. StepsFrom(hs, dt, b, sp)
        BY <2>2, PastSplits
    <3>2. sp \in D /\ h[sp] < h[b]
        BY <3>1 DEF StepsFrom
    <3>3. BluesApart(dt, ChainIn(dt, sp))
      <4>1. sp \in S
        <5> HIDE DEF S, h, D, sp
        <5> QED
            BY <1>2, <3>2
      <4> QED
          BY <4>1
    <3>4. dt[b].mergeset_blues \cap BluesOf(dt, sp) = {}
      <4>1. dt[b].mergeset_blues \cap (BluesOf(dt, sp) \cup {sp}) = {sp}
          BY <2>2, BluesSplit
      <4>2. sp \notin BluesOf(dt, sp)
          BY <3>1, <3>2, BluesArePast DEF StepsFrom
      <4> QED
          BY <4>1, <4>2
    <3>5. \A z \in ChainIn(dt, sp) : dt[z].mergeset_blues \subseteq BluesOf(dt, sp)
        BY DEF BluesOf
    <3>6. ChainIn(dt, b) = {b} \cup ChainIn(dt, sp)
        BY <3>1 DEF StepsFrom
    <3> QED
        BY <3>3, <3>4, <3>5, <3>6 DEF BluesApart
  <2> QED
    BY <2>1, <2>2
<1>3. D \subseteq S
  <2>1. \A b \in D : (\A c \in D : h[c] < h[b] => c \in S) => b \in S
    BY <1>2
  <2> HIDE DEF D, h, S
  <2> QED
    BY <1>1, <2>1, HeightInduction
<1> QED
    BY <1>3

(* The blues found concurrent with a candidate are those outside its past, *)
(* each found once, those of this merge set with the running count.        *)
Found(conc, blues, older, sizes, P) ==
    /\ {e.blue : e \in conc} = (blues \cup older) \ P
    /\ \A e, f \in conc : e.blue = f.blue => e = f
    /\ \A e \in conc : e.blue \in blues => e.existing = sizes[e.blue]

LEMMA ConcurrentBluesAreFound ==
    ASSUME NEW past, NEW chain, NEW c, NEW blues, NEW sizes, NEW older,
           older = UNION {chain[x].mergeset_blues : x \in DOMAIN chain},
           blues \cap older = {},
           BluesApart(chain, DOMAIN chain),
           \A x \in DOMAIN chain \cap past[c] : chain[x].mergeset_blues \subseteq past[c]
    PROVE  Found(ConcurrentBlues(past, chain, c, blues, sizes), blues, older, sizes, past[c])
<1> DEFINE conc == ConcurrentBlues(past, chain, c, blues, sizes)
           own == Concurrent(past, c, blues, sizes)
           From(x) == Concurrent(past, c, chain[x].mergeset_blues, chain[x].blues_anticone_sizes)
           D == DOMAIN chain \ past[c]
<1>1. \A e : e \in conc <=> (e \in own \/ \E x \in D : e \in From(x))
    BY DEF ConcurrentBlues
<1>2. \A e \in own : e.blue \in blues \ past[c] /\ e = [blue |-> e.blue, existing |-> sizes[e.blue]]
    BY DEF Concurrent
<1>3. \A x : \A e \in From(x) :
          /\ e.blue \in chain[x].mergeset_blues \ past[c]
          /\ e = [blue |-> e.blue, existing |-> chain[x].blues_anticone_sizes[e.blue]]
    BY DEF Concurrent
<1>4. \A y \in blues \ past[c] : \E e \in own : e.blue = y
  <2> TAKE y \in blues \ past[c]
  <2>1. [blue |-> y, existing |-> sizes[y]] \in own
    BY DEF Concurrent
  <2> QED
    BY <2>1
<1>5. \A x : \A y \in chain[x].mergeset_blues \ past[c] : \E e \in From(x) : e.blue = y
  <2> TAKE x
  <2> TAKE y \in chain[x].mergeset_blues \ past[c]
  <2>1. [blue |-> y, existing |-> chain[x].blues_anticone_sizes[y]] \in From(x)
    BY DEF Concurrent
  <2> QED
    BY <2>1
<1>6. \A y : y \in older <=> \E x \in DOMAIN chain : y \in chain[x].mergeset_blues
    OBVIOUS
<1> HIDE DEF conc, own, From
<1>7. {e.blue : e \in conc} \subseteq (blues \cup older) \ past[c]
    BY <1>1, <1>2, <1>3, <1>6
<1>8. ASSUME NEW y \in (blues \cup older) \ past[c] PROVE y \in {e.blue : e \in conc}
  <2>1. CASE y \in blues
    BY <1>1, <1>4, <2>1
  <2>2. CASE y \in older
    <3>1. PICK x \in DOMAIN chain : y \in chain[x].mergeset_blues
        BY <1>6, <2>2
    <3>2. x \in D
        BY <3>1
    <3> QED
        BY <1>1, <1>5, <3>1, <3>2
  <2> QED
    BY <2>1, <2>2
<1>9. ASSUME NEW e \in conc, NEW f \in conc, e.blue = f.blue PROVE e = f
  <2>1. CASE e \in own /\ f \in own
    BY <1>2, <1>9, <2>1
  <2>2. ASSUME NEW x \in D, e \in From(x) PROVE f \notin own
    BY <1>2, <1>3, <1>6, <1>9, <2>2
  <2>3. ASSUME NEW x \in D, f \in From(x) PROVE e \notin own
    BY <1>2, <1>3, <1>6, <1>9, <2>3
  <2>4. ASSUME NEW x \in D, NEW z \in D, e \in From(x), f \in From(z) PROVE e = f
    <3>1. x = z
        BY <1>3, <1>9, <2>4 DEF BluesApart
    <3> QED
        BY <1>3, <1>9, <2>4, <3>1
  <2> QED
    BY <1>1, <2>1, <2>2, <2>3, <2>4
<1>10. ASSUME NEW e \in conc, e.blue \in blues PROVE e.existing = sizes[e.blue]
  <2>1. e \in own
    BY <1>1, <1>3, <1>6, <1>10
  <2>2. e = [blue |-> e.blue, existing |-> sizes[e.blue]]
    BY <1>2, <2>1
  <2> QED
    BY <2>2
<1> HIDE DEF D
<1> QED
    BY <1>7, <1>8, <1>9, <1>10 DEF Found, conc


(* As many blues are found as there are blues outside the past. *)
LEMMA FoundIsCounted ==
    ASSUME NEW conc, IsFiniteSet(conc), NEW blues, NEW older, NEW sizes, NEW P,
           Found(conc, blues, older, sizes, P)
    PROVE  /\ IsFiniteSet((blues \cup older) \ P)
           /\ Cardinality((blues \cup older) \ P) = Cardinality(conc)
<1> DEFINE T == (blues \cup older) \ P
           g == [e \in conc |-> e.blue]
<1>1. {e.blue : e \in conc} = T /\ \A e, f \in conc : e.blue = f.blue => e = f
    BY DEF Found
<1> HIDE DEF T
<1>2. g \in [conc -> T]
    BY <1>1
<1>3. \A t \in T : \E e \in conc : g[e] = t
    BY <1>1
<1>4. \A e, f \in conc : g[e] = g[f] => e = f
    BY <1>1
<1> HIDE DEF g
<1>5. g \in Injection(conc, T)
    BY <1>2, <1>4 DEF Injection, IsInjective
<1>6. g \in Surjection(conc, T)
    BY <1>2, <1>3 DEF Surjection
<1>7. g \in Bijection(conc, T)
    BY <1>5, <1>6 DEF Bijection
<1>8. ExistsBijection(conc, T)
    BY <1>7 DEF ExistsBijection
<1> QED
    BY <1>8, FS_Bijection DEF T

(* What recounting leaves: the candidate's own count, one more for each    *)
(* blue of this merge set that is concurrent with it.                      *)
Recounted(new, sizes, blues, c, conc, P) ==
    /\ new[c] = Cardinality(conc)
    /\ \A b \in blues \ P : new[b] = sizes[b] + 1 /\ \E e \in conc : e.existing = sizes[b]
    /\ \A b \in blues \cap P : new[b] = sizes[b]

LEMMA RecountCounts ==
    ASSUME NEW conc, NEW blues, NEW older, NEW sizes, NEW P, NEW c, c \notin blues,
           blues \subseteq DOMAIN sizes, Found(conc, blues, older, sizes, P)
    PROVE  Recounted(Recount(sizes, c, conc), sizes, blues, c, conc, P)
<1> DEFINE D == DOMAIN sizes \cup {c} \cup {e.blue : e \in conc}
           R == Recount(sizes, c, conc)
           Entry(b) == CHOOSE e \in conc : e.blue = b
<1>1. \A b \in D : R[b] = IF b = c THEN Cardinality(conc)
                          ELSE IF \E e \in conc : e.blue = b THEN Entry(b).existing + 1
                               ELSE sizes[b]
    BY DEF Recount
<1>2. c \in D /\ blues \subseteq D
    OBVIOUS
<1> HIDE DEF D, R
<1>3. {e.blue : e \in conc} = (blues \cup older) \ P
    BY DEF Found
<1>4. R[c] = Cardinality(conc)
    BY <1>1, <1>2
<1>5. ASSUME NEW b \in blues \ P
      PROVE  R[b] = sizes[b] + 1 /\ \E e \in conc : e.existing = sizes[b]
  <2>1. \E e \in conc : e.blue = b
    BY <1>3
  <2>2. Entry(b) \in conc /\ Entry(b).blue = b
    BY <2>1
  <2> HIDE DEF Entry
  <2>3. Entry(b).existing = sizes[b]
    BY <2>2 DEF Found
  <2>4. R[b] = Entry(b).existing + 1
    BY <1>1, <1>2, <2>1
  <2> QED
    BY <2>2, <2>3, <2>4
<1>6. ASSUME NEW b \in blues \cap P PROVE R[b] = sizes[b]
  <2>1. ~ \E e \in conc : e.blue = b
    BY <1>3
  <2> QED
    BY <1>1, <1>2, <2>1
<1> QED
    BY <1>4, <1>5, <1>6 DEF Recounted, R

(* The blocks of `S` that are concurrent with `x`, and what a block in the *)
(* past of none of them changes.                                           *)
AnticoneIn(hs, x, S) == {y \in S \ {x} : x \notin PastIn(hs)[y] /\ y \notin PastIn(hs)[x]}

AnticonesGrow(hs, T, c) ==
    /\ AnticoneIn(hs, c, T \cup {c}) = T \ PastIn(hs)[c]
    /\ \A x \in T \cap PastIn(hs)[c] :
          AnticoneIn(hs, x, T \cup {c}) = AnticoneIn(hs, x, T)
    /\ \A x \in T \ PastIn(hs)[c] :
          AnticoneIn(hs, x, T \cup {c}) = AnticoneIn(hs, x, T) \cup {c}

OutsidePasts(hs, T, c) == c \notin T /\ \A y \in T : c \notin PastIn(hs)[y]

LEMMA AnticoneGrows ==
    ASSUME NEW hs, NEW T, NEW c, OutsidePasts(hs, T, c)
    PROVE  AnticonesGrow(hs, T, c)
    BY DEF AnticoneIn, AnticonesGrow, OutsidePasts

(* The blues coloured so far, with the blues `O` of the selected parent's  *)
(* past: the anticone size carried for each is exact and within k.         *)
Clustered(hs, O, acc) ==
    /\ acc.blues \subseteq DOMAIN acc.sizes
    /\ IsFiniteSet(acc.blues \cup O)
    /\ \A x \in acc.blues :
          /\ acc.sizes[x] = Cardinality(AnticoneIn(hs, x, acc.blues \cup O))
          /\ acc.sizes[x] <= K

(* The blues a candidate is compared with. *)
Comparable(hs, past, chain, acc, O, c) ==
    /\ past[c] = PastIn(hs)[c]
    /\ O = UNION {chain[x].mergeset_blues : x \in DOMAIN chain}
    /\ acc.blues \cap O = {} /\ c \notin acc.blues \cup O
    /\ \A y \in acc.blues \cup O : c \notin PastIn(hs)[y]
    /\ BluesApart(chain, DOMAIN chain)
    /\ \A x \in DOMAIN chain \cap past[c] : chain[x].mergeset_blues \subseteq past[c]


LEMMA CandidateClusters ==
    ASSUME NEW hs, NEW past, NEW chain, NEW acc, NEW O, NEW c, NEW U,
           Clustered(hs, O, acc), Comparable(hs, past, chain, acc, O, c),
           Counted(ConcurrentBlues(past, chain, c, acc.blues, acc.sizes), U)
    PROVE  Clustered(hs, O, ColourCandidate(past, chain, acc, c))
<1> DEFINE B == acc.blues
           T == B \cup O
           P == past[c]
           conc == ConcurrentBlues(past, chain, c, acc.blues, acc.sizes)
           R == Recount(acc.sizes, c, conc)
           new == ColourCandidate(past, chain, acc, c)
           Anti(x) == AnticoneIn(hs, x, T)
           Grown1(x) == AnticoneIn(hs, x, T \cup {c})
<1>1. /\ c \notin T /\ c \notin B /\ P = PastIn(hs)[c] /\ \A y \in T : c \notin PastIn(hs)[y]
      /\ B \subseteq DOMAIN acc.sizes /\ IsFiniteSet(T) /\ IsFiniteSet(conc)
    BY DEF Comparable, Clustered, Counted
<1>2. Found(conc, B, O, acc.sizes, P)
    BY ConcurrentBluesAreFound DEF Comparable
<1>3. new = IF StaysBlue(B, conc)
            THEN [blues |-> B \cup {c}, reds |-> acc.reds, sizes |-> R]
            ELSE [blues |-> B, reds |-> acc.reds \cup {c}, sizes |-> acc.sizes]
    BY DEF ColourCandidate
<1>4. \A x \in B : acc.sizes[x] = Cardinality(Anti(x)) /\ acc.sizes[x] <= K
    BY DEF Clustered
<1>5. DOMAIN acc.sizes \cup {c} \subseteq DOMAIN R
    BY DEF Recount
<1> HIDE DEF conc, new, P
<1>6. CASE ~ StaysBlue(B, conc)
  <2>1. new.blues = B /\ new.sizes = acc.sizes
    BY <1>3, <1>6
  <2> QED
    BY <2>1 DEF Clustered, new
<1>7. CASE StaysBlue(B, conc)
  <2> HIDE DEF R, B, T
  <2>1. new.blues = B \cup {c} /\ new.sizes = R
    BY <1>3, <1>7
  <2>2. Recounted(R, acc.sizes, B, c, conc, P)
    BY <1>1, <1>2, RecountCounts DEF R
  <2>3. /\ Grown1(c) = T \ P
        /\ \A x \in T \cap P : Grown1(x) = Anti(x)
        /\ \A x \in T \ P : Grown1(x) = Anti(x) \cup {c}
    <3>1. OutsidePasts(hs, T, c)
        BY <1>1 DEF OutsidePasts
    <3>2. AnticonesGrow(hs, T, c)
        BY <3>1, AnticoneGrows
    <3> QED
        BY <1>1, <3>2 DEF AnticonesGrow
  <2>4. Cardinality(T \ P) = Cardinality(conc) /\ Cardinality(conc) <= K
    BY <1>1, <1>2, <1>7, FoundIsCounted DEF StaysBlue, T
  <2>5. ASSUME NEW x \in B
        PROVE  R[x] = Cardinality(Grown1(x)) /\ R[x] <= K
    <3>1. x \in T /\ Anti(x) \subseteq T
        BY DEF T, AnticoneIn
    <3>2. IsFiniteSet(Anti(x)) /\ c \notin Anti(x) /\ Cardinality(Anti(x)) \in Nat
        BY <1>1, <3>1, FS_Subset, FS_CardinalityType
    <3>3. acc.sizes[x] = Cardinality(Anti(x)) /\ acc.sizes[x] <= K
        BY <1>4
    <3> HIDE DEF Anti, Grown1
    <3>4. CASE x \in P
        <4>1. R[x] = acc.sizes[x]
            BY <2>2, <3>4 DEF Recounted
        <4> QED
            BY <2>3, <3>1, <3>3, <3>4, <4>1
    <3>5. CASE x \notin P
        <4>1. R[x] = acc.sizes[x] + 1 /\ \E e \in conc : e.existing = acc.sizes[x]
            BY <2>2, <3>5 DEF Recounted
        <4>2. acc.sizes[x] < K
            BY <1>7, <4>1 DEF StaysBlue
        <4>3. Cardinality(Anti(x) \cup {c}) = Cardinality(Anti(x)) + 1
            BY <3>2, FS_AddElement
        <4>4. Grown1(x) = Anti(x) \cup {c}
            BY <2>3, <3>1, <3>5
        <4>5. K \in Nat
            BY BoundsAssumption
        <4>6. R[x] = Cardinality(Grown1(x))
            BY <3>3, <4>1, <4>3, <4>4
        <4> QED
            BY <3>2, <3>3, <4>1, <4>2, <4>5, <4>6
    <3> QED
        BY <3>4, <3>5
  <2>6. R[c] = Cardinality(Grown1(c)) /\ R[c] <= K
    BY <2>2, <2>3, <2>4 DEF Recounted
  <2>7. (B \cup {c}) \cup O = T \cup {c} /\ IsFiniteSet(T \cup {c})
    BY <1>1, FS_AddElement DEF T
  <2>8. B \cup {c} \subseteq DOMAIN R
    BY <1>1, <1>5
  <2>9. Clustered(hs, O, new)
    BY <2>1, <2>5, <2>6, <2>7, <2>8 DEF Clustered
  <2> QED
    BY <2>9 DEF new
<1> QED
    BY <1>6, <1>7


(* Every candidate can be compared when its turn comes, whatever was       *)
(* coloured blue before it.                                                *)
Earlier(sp, s, n) == {sp} \cup {s[j] : j \in 1..n}

InTurn(hs, past, chain, sp, s, O) ==
    \A n \in Nat : n + 1 <= Len(s) =>
        \A acc : acc.blues \subseteq Earlier(sp, s, n) =>
                    Comparable(hs, past, chain, acc, O, s[n + 1])

LEMMA ColourClusters ==
    ASSUME NEW hs, NEW past, NEW chain, NEW U, ChainSized(chain, U), NEW sp \in U,
           NEW s \in Seq(U), NEW O, Clustered(hs, O, FirstColour(sp)),
           InTurn(hs, past, chain, sp, s, O)
    PROVE  Clustered(hs, O, Colour(past, chain, sp, s))
<1>1. PICK f : ColourRun(past, chain, sp, s, U, f) /\ Colour(past, chain, sp, s) = f[Len(s)]
    BY ColourRuns
<1> DEFINE N == Len(s)
           Good(n) == f[n].blues \subseteq Earlier(sp, s, n) /\ Clustered(hs, O, f[n])
           G == {n \in Nat : n <= N => Good(n)}
<1>2. N \in Nat /\ \A n \in 0..N : f[n] \in ColourState(U)
  <2>1. f \in [0..N -> ColourState(U)]
    BY <1>1, Zenon DEF ColourRun
  <2>2. N \in Nat
    OBVIOUS
  <2> HIDE DEF N
  <2> QED
    BY <2>1, <2>2
<1>3. 0 \in G
  <2>1. f[0] = FirstColour(sp)
    BY <1>1 DEF ColourRun
  <2>2. FirstColour(sp).blues = {sp}
    BY DEF FirstColour
  <2> QED
    BY <2>1, <2>2 DEF Earlier
<1>4. ASSUME NEW n \in Nat, n \in G PROVE n + 1 \in G
  <2> SUFFICES ASSUME n + 1 <= N PROVE Good(n + 1)
    OBVIOUS
  <2> DEFINE c == s[n + 1]
             new == f[n + 1]
             acc == f[n]
             conc == ConcurrentBlues(past, chain, c, acc.blues, acc.sizes)
  <2>1. n + 1 \in 1..N /\ n \in 0..N /\ (n + 1) - 1 = n /\ c \in U
    BY <1>2
  <2>2. acc.blues \subseteq Earlier(sp, s, n) /\ Clustered(hs, O, acc)
    BY <1>2, <1>4, <2>1
  <2>3. new = ColourCandidate(past, chain, acc, c) /\ acc \in ColourState(U)
    BY <1>1, <1>2, <2>1 DEF ColourRun
  <2>4. Comparable(hs, past, chain, acc, O, c)
    BY <2>1, <2>2 DEF InTurn
  <2>5. SizedIn(acc.blues, acc.sizes, U)
    <3>1. /\ acc.blues \in SUBSET U /\ acc.sizes \in SizeMaps(U)
          /\ acc.blues \subseteq DOMAIN acc.sizes
        BY <2>3 DEF ColourState
    <3>2. \A b \in DOMAIN acc.sizes : acc.sizes[b] \in Nat
        BY <3>1 DEF SizeMaps
    <3> QED
        BY <3>1, <3>2 DEF SizedIn
  <2> HIDE DEF c, new, acc
  <2>6. Counted(conc, U)
    BY <2>5, ConcurrentBluesAreCounted
  <2>7. Clustered(hs, O, new)
    BY <2>2, <2>3, <2>4, <2>6, CandidateClusters
  <2>8. new.blues \subseteq acc.blues \cup {c}
    <3>1. Recoloured(ColourCandidate(past, chain, acc, c), acc, c, U)
        BY <2>1, <2>3, CandidateIsColoured
    <3> QED
        BY <2>3, <3>1 DEF Recoloured
  <2>9. Earlier(sp, s, n) \cup {c} \subseteq Earlier(sp, s, n + 1)
    <3>1. \A j \in 1..n : j \in 1..n + 1
        OBVIOUS
    <3>2. n + 1 \in 1..n + 1
        OBVIOUS
    <3> QED
        BY <3>1, <3>2 DEF Earlier, c
  <2>10. new.blues \subseteq Earlier(sp, s, n + 1)
    BY <2>2, <2>8, <2>9
  <2> QED
    BY <2>7, <2>10 DEF new
<1>5. Nat \subseteq G
  <2> HIDE DEF G
  <2> QED
    BY <1>3, <1>4, Counting
<1>6. Good(N)
  <2>1. N \in G
    <3> HIDE DEF G
    <3> QED
        BY <1>2, <1>5
  <2> HIDE DEF Good
  <2> QED
    BY <1>2, <2>1
<1> QED
    BY <1>1, <1>6

(* What a block recorded of its merge set is the colouring of it.          *)
ColouredAs(hs, dt, b, sp, members) ==
    LET colour == Colour(Restrict(PastIn(hs), members), Restrict(dt, ChainIn(dt, sp)), sp,
                         dt[b].mergeset_ordered)
    IN  dt[b].mergeset_blues = colour.blues /\ dt[b].blues_anticone_sizes = colour.sizes

LEMMA RecordsColouring ==
    ASSUME NEW hs, NEW dt, Dag(hs, dt), Pure(hs, dt), NEW b \in DOMAIN hs \ {Genesis}
    PROVE  ColouredAs(hs, dt, b, dt[b].selected_parent, Members(hs, dt, b))
<1> DEFINE ps == hs[b].parents
           sp == SelectParent(dt, ps)
           members == Mergeset(PastIn(hs), ps, sp)
           merged == TopologicalSort(Restrict(hs, members), Restrict(dt, members), members)
           colour == Colour(Restrict(PastIn(hs), members), Restrict(dt, ChainIn(dt, sp)), sp, merged)
           g == ComputeGhostdag(hs, dt, ps, hs[b].work)
<1>1. dt[b] = g
    BY Recomputed
<1>2. /\ g.selected_parent = sp /\ g.mergeset_ordered = merged
      /\ g.mergeset_blues = colour.blues /\ g.blues_anticone_sizes = colour.sizes
  <2> HIDE DEF members, merged, colour, sp
  <2>1. g = [selected_parent      |-> sp,
             blue_score           |-> dt[sp].blue_score + Cardinality(colour.blues),
             blue_work            |-> BlueWork(Restrict(hs, members), dt, sp, colour.blues, hs[b].work),
             mergeset_blues       |-> colour.blues,
             mergeset_reds        |-> colour.reds,
             mergeset_ordered     |-> merged,
             topological_height   |-> Max({dt[p].topological_height : p \in ps}) + 1,
             blues_anticone_sizes |-> colour.sizes]
    BY DEF ComputeGhostdag, members, merged, colour, sp
  <2> HIDE DEF g
  <2> QED
    BY <2>1
<1> HIDE DEF g, sp, merged
<1>3. dt[b].selected_parent = sp /\ dt[b].mergeset_ordered = merged
    BY <1>1, <1>2
<1> QED
    BY <1>1, <1>2, <1>3 DEF ColouredAs, Members


LEMMA CandidatesInTurn ==
    ASSUME NEW hs, NEW dt, Dag(hs, dt), NEW b \in DOMAIN hs \ {Genesis},
           NEW sp, sp = dt[b].selected_parent, NEW members, members = Members(hs, dt, b),
           NEW s, s = dt[b].mergeset_ordered
    PROVE  InTurn(hs, Restrict(PastIn(hs), members), Restrict(dt, ChainIn(dt, sp)), sp, s,
                  BluesOf(dt, sp))
<1> DEFINE past == PastIn(hs)
           within == Restrict(PastIn(hs), members)
           chain == Restrict(dt, ChainIn(dt, sp))
           O == BluesOf(dt, sp)
<1>1. StepsFrom(hs, dt, b, sp)
    BY PastSplits
<1>2. Layered(hs, dt) /\ sp \in DOMAIN hs /\ DOMAIN dt = DOMAIN hs
    BY <1>1 DEF Dag, WellFormed, Layered, StepsFrom
<1>3. members \cap (past[sp] \cup {sp}) = {}
    BY <1>1 DEF StepsFrom
<1>4. O \subseteq past[sp]
    BY <1>2, BluesArePast
<1>5. s \in Seq(members) /\ Lists(s, members)
  <2>1. Merged(hs, dt[b], Members(hs, dt, b), sp)
    BY DEF Dag, AllJudged, Judged, Members
  <2> QED
    BY <2>1 DEF Merged
<1>6. ChainIn(dt, sp) \subseteq DOMAIN hs
  <2>1. ChainIn(dt, sp) \subseteq {sp} \cup past[sp] /\ past[sp] \subseteq DOMAIN hs
    BY <1>2, ChainIsInPast, PastIsClosed
  <2> QED
    BY <1>2, <2>1
<1>7. \A c \in members : within[c] = past[c]
    BY DEF Restrict
<1>8. DOMAIN chain = ChainIn(dt, sp) /\ \A x \in ChainIn(dt, sp) : chain[x] = dt[x]
    BY DEF Restrict
<1>9. O = UNION {chain[x].mergeset_blues : x \in DOMAIN chain}
    BY <1>8 DEF BluesOf
<1>10. BluesApart(chain, DOMAIN chain)
  <2>1. BluesApart(dt, ChainIn(dt, sp))
    BY <1>2, ChainBluesApart
  <2> QED
    BY <1>8, <2>1 DEF BluesApart
<1>11. \A y \in past[sp] : past[y] \subseteq past[sp]
    BY <1>2, PastIsTransitive
<1>12. members \subseteq DOMAIN hs
  <2>1. past[b] \subseteq DOMAIN hs
    BY <1>2, PastIsClosed
  <2> QED
    BY <1>1, <2>1 DEF StepsFrom
<1>13. ASSUME NEW c \in members, NEW x \in ChainIn(dt, sp), x \in past[c]
       PROVE  dt[x].mergeset_blues \subseteq past[c]
  <2>1. x \in DOMAIN hs /\ c \in DOMAIN hs
    BY <1>6, <1>12
  <2>2. x \in ChainIn(dt, x)
    BY <1>2, <2>1, ChainIsInPast
  <2>3. dt[x].mergeset_blues \subseteq BluesOf(dt, x)
    BY <2>2 DEF BluesOf
  <2>4. BluesOf(dt, x) \subseteq past[x]
    BY <2>1, BluesArePast
  <2>5. past[x] \subseteq past[c]
    BY <1>2, <1>13, <2>1, PastIsTransitive
  <2> QED
    BY <2>3, <2>4, <2>5
<1>14. \A j, i \in 1..Len(s) : s[i] \in past[s[j]] => i < j
    BY AncestorsFirst
<1> HIDE DEF past, within, chain, O
<1>15. ASSUME NEW n \in Nat, n + 1 <= Len(s), NEW acc, acc.blues \subseteq Earlier(sp, s, n)
       PROVE  Comparable(hs, within, chain, acc, O, s[n + 1])
  <2> DEFINE c == s[n + 1]
  <2>1. n + 1 \in 1..Len(s) /\ c \in members /\ Len(s) \in Nat
    BY <1>5, <1>15
  <2>2. ASSUME NEW j \in 1..n
        PROVE  s[j] # c /\ c \notin past[s[j]] /\ s[j] \in members
    <3>1. j \in 1..Len(s) /\ j # n + 1 /\ ~ (n + 1 < j)
        BY <1>15, <2>1
    <3>2. s[j] # s[n + 1] /\ s[j] \in members
        BY <1>5, <2>1, <3>1 DEF Lists
    <3> QED
        BY <1>14, <2>1, <3>1, <3>2
  <2> HIDE DEF c
  <2>3. ASSUME NEW y \in acc.blues PROVE y # c /\ c \notin past[y] /\ y \notin O
    <3>1. CASE y = sp
        <4>1. sp \notin past[sp]
            BY <1>1 DEF StepsFrom, past
        <4> QED
            BY <1>3, <1>4, <2>1, <3>1, <4>1
    <3>2. CASE \E j \in 1..n : y = s[j]
        BY <1>3, <1>4, <2>2, <3>2
    <3> QED
        BY <1>15, <3>1, <3>2 DEF Earlier
  <2>4. ASSUME NEW y \in O PROVE y # c /\ c \notin past[y]
    BY <1>3, <1>4, <1>11, <2>1
  <2>5. within[c] = past[c] /\ \A x \in DOMAIN chain \cap within[c] : chain[x].mergeset_blues \subseteq within[c]
    BY <1>7, <1>8, <1>13, <2>1
  <2>6. Comparable(hs, within, chain, acc, O, c)
    BY <1>9, <1>10, <2>3, <2>4, <2>5 DEF Comparable, past
  <2> QED
    BY <2>6 DEF c
<1> QED
    BY <1>15 DEF InTurn, within, chain, O

(* The selected parent is concurrent with none of the blues of its past.   *)
LEMMA FirstColourClusters ==
    ASSUME NEW hs, NEW dt, Dag(hs, dt), NEW sp \in DOMAIN hs
    PROVE  Clustered(hs, BluesOf(dt, sp), FirstColour(sp))
<1> DEFINE O == BluesOf(dt, sp)
           past == PastIn(hs)
<1>1. O \subseteq past[sp]
    BY BluesArePast
<1>2. Layered(hs, dt) /\ IsFiniteSet(DOMAIN hs)
    BY DEF Dag, WellFormed, Worked
<1>3. past[sp] \subseteq DOMAIN hs
    BY <1>2, PastIsClosed
<1> HIDE DEF O, past
<1>4. IsFiniteSet({sp} \cup O)
    BY <1>1, <1>2, <1>3, FS_Subset
<1>5. AnticoneIn(hs, sp, {sp} \cup O) = {}
    BY <1>1 DEF AnticoneIn, past
<1>6. Cardinality({}) = 0 /\ 0 <= K
    BY FS_EmptySet, BoundsAssumption
<1>7. FirstColour(sp).blues = {sp} /\ FirstColour(sp).sizes = [x \in {sp} |-> 0]
    BY DEF FirstColour
<1>8. [x \in {sp} |-> 0][sp] = 0 /\ DOMAIN [x \in {sp} |-> 0] = {sp}
    OBVIOUS
<1> QED
    BY <1>4, <1>5, <1>6, <1>7, <1>8 DEF Clustered, O

LEMMA BlockClusters ==
    ASSUME NEW hs, NEW dt, Dag(hs, dt), Pure(hs, dt), NEW b \in DOMAIN hs,
           NEW x \in dt[b].mergeset_blues
    PROVE  /\ dt[b].blues_anticone_sizes[x] = Cardinality(AnticoneIn(hs, x, BluesOf(dt, b)))
           /\ dt[b].blues_anticone_sizes[x] <= K
<1>1. b # Genesis
    BY DEF Dag, Rooted
<1> DEFINE sp == dt[b].selected_parent
           members == Members(hs, dt, b)
           s == dt[b].mergeset_ordered
           within == Restrict(PastIn(hs), members)
           chain == Restrict(dt, ChainIn(dt, sp))
           colour == Colour(within, chain, sp, s)
           O == BluesOf(dt, sp)
           U == DOMAIN hs
<1>2. dt[b].mergeset_blues = colour.blues /\ dt[b].blues_anticone_sizes = colour.sizes
    BY <1>1, RecordsColouring DEF ColouredAs
<1>3. /\ sp \in U /\ Layered(hs, dt) /\ DOMAIN dt = U /\ IsFiniteSet(U)
      /\ PastIn(hs)[b] = PastIn(hs)[sp] \cup {sp} \cup members
    BY <1>1, PastSplits DEF StepsFrom, Dag, WellFormed, Worked, Layered
<1>4. ChainIn(dt, sp) \subseteq U
  <2>1. ChainIn(dt, sp) \subseteq {sp} \cup PastIn(hs)[sp] /\ PastIn(hs)[sp] \subseteq DOMAIN hs
    BY <1>3, ChainIsInPast, PastIsClosed
  <2> QED
    BY <1>3, <2>1
<1>5. ChainSized(chain, U)
  <2>1. DOMAIN chain = ChainIn(dt, sp) /\ \A z \in ChainIn(dt, sp) : chain[z] = dt[z]
    BY DEF Restrict
  <2>2. IsFiniteSet(ChainIn(dt, sp))
    BY <1>3, <1>4, FS_Subset
  <2>3. \A z \in U : SizedIn(dt[z].mergeset_blues, dt[z].blues_anticone_sizes, U)
    BY DEF Dag, WellFormed
  <2> HIDE DEF chain, sp, U
  <2> QED
    BY <1>3, <1>4, <2>1, <2>2, <2>3 DEF ChainSized
<1>6. s \in Seq(U)
  <2>1. Merged(hs, dt[b], Members(hs, dt, b), sp)
    BY <1>1 DEF Dag, AllJudged, Judged, Members
  <2>2. s \in Seq(members)
    BY <2>1 DEF Merged
  <2>3. members \subseteq U
    BY <1>3, PastIsClosed
  <2> HIDE DEF members, U, s
  <2> QED
    BY <2>2, <2>3
<1>7. Clustered(hs, O, FirstColour(sp))
    BY <1>3, FirstColourClusters
<1>8. InTurn(hs, within, chain, sp, s, O)
    BY <1>1, CandidatesInTurn
<1>9. BluesOf(dt, b) = dt[b].mergeset_blues \cup O
    BY <1>1, BluesSplit
<1> HIDE DEF sp, members, s, within, chain, O, U
<1>10. Clustered(hs, O, colour)
    BY <1>3, <1>5, <1>6, <1>7, <1>8, ColourClusters
<1> HIDE DEF colour
<1> QED
    BY <1>2, <1>9, <1>10 DEF Clustered

(* The anticone sizes are exact: for each blue a block merges, the size    *)
(* recorded with it is the number of blues of the block's past that are    *)
(* concurrent with it, and it is within k, although colour_candidate only  *)
(* adds to counts it finds along the selected chain.  Blues merged earlier *)
(* are not covered: their counts are not kept up, which is the known       *)
(* violation of the k-cluster rule (BlueSetIsKCluster).                    *)
THEOREM BluesCluster == Spec => []MergedBluesCluster
<1>1. ASSUME DagInv, Pure(headers, data) PROVE MergedBluesCluster
  <2> SUFFICES ASSUME NEW b \in Present, NEW x \in data[b].mergeset_blues
               PROVE  LET n == Cardinality(Anticone(x, BluePast(b)))
                      IN  data[b].blues_anticone_sizes[x] = n /\ n <= K
    BY DEF MergedBluesCluster
  <2>1. Dag(headers, data)
    BY <1>1, InvariantWeighs
  <2>2. Anticone(x, BluePast(b)) = AnticoneIn(headers, x, BluesOf(data, b))
    BY DEF Anticone, AnticoneIn, BluePast, BluesOf, Chain, Past
  <2>3. /\ data[b].blues_anticone_sizes[x]
              = Cardinality(AnticoneIn(headers, x, BluesOf(data, b)))
        /\ data[b].blues_anticone_sizes[x] <= K
    BY <1>1, <2>1, BlockClusters DEF Present
  <2> QED
    BY <2>2, <2>3
<1>2. DagInv /\ Pure(headers, data) => MergedBluesCluster
    BY <1>1
<1> QED
    BY <1>2, DagInvariant, PureInvariant, PTL
=============================================================================
