------------------------- MODULE ReachabilityProofs -------------------------
(***************************************************************************)
(* What is_ancestor_of answers is true, and stays true, for every DAG, any *)
(* number of readers and any capacity of the memo table.                   *)
(*                                                                         *)
(* There is no induction over paths: ancestry is membership in every       *)
(* parent-closed set, so a negative answer is proved by exhibiting one     *)
(* closed set that leaves the ancestor out (NotInPast), and the arrival of *)
(* a block is proved harmless by intersecting with the blocks that were    *)
(* there before (AddBlockKeepsPast).                                       *)
(***************************************************************************)
EXTENDS Reachability, FiniteSetTheorems, TLAPS

(* The blocks no higher than a given one, without it, are closed under     *)
(* taking parents.                                                         *)
LEMMA ShallowSetIsClosed ==
    ASSUME TypeOK, DagShape, NEW a \in Block
    PROVE  ParentClosed(parents, {y \in Block : y # a /\ height[y] <= height[a]})
<1> DEFINE S == {y \in Block : y # a /\ height[y] <= height[a]}
<1> SUFFICES ASSUME NEW b \in S, NEW p \in parents[b]
             PROVE  p \in S
    BY DEF ParentClosed
<1>1. b \in present /\ p \in Block
    BY DEF TypeOK, DagShape
<1>2. height[p] < height[b]
    BY <1>1 DEF DagShape
<1> QED
    BY <1>1, <1>2 DEF TypeOK

(* The height prune: a block no deeper than `a` does not have `a` in its   *)
(* past.                                                                   *)
LEMMA ShallowHasNot ==
    ASSUME TypeOK, DagShape, NEW a \in Block, NEW d \in present,
           height[d] <= height[a]
    PROVE  ~ InPast(a, d)
<1> DEFINE S == {y \in Block : y # a /\ height[y] <= height[a]}
<1>1. ParentClosed(parents, S)
    BY ShallowSetIsClosed
<1>2. \A p \in parents[d] : p \in Block /\ height[p] < height[d]
    BY DEF TypeOK, DagShape
<1>3. parents[d] \subseteq S
    BY <1>2 DEF TypeOK
<1> QED
    BY <1>1, <1>3 DEF InPast, Reaches

(* Ancestry is transitive over one more edge. *)
LEMMA ParentOfAncestor ==
    ASSUME NEW a, NEW x, NEW d, IsAncestor(x, d), a \in parents[x]
    PROVE  InPast(a, d)
<1> SUFFICES ASSUME NEW S \in SUBSET Block, ParentClosed(parents, S), parents[d] \subseteq S
             PROVE  a \in S
    BY DEF InPast, Reaches
<1>1. CASE x = d
    BY <1>1
<1>2. CASE InPast(x, d)
    BY <1>2 DEF InPast, Reaches, ParentClosed
<1> QED
    BY <1>1, <1>2 DEF IsAncestor

(* An exhausted search is conclusive: what it has seen, with every block   *)
(* too shallow to matter, is parent-closed and leaves the ancestor out.    *)
LEMMA ExhaustedHasNot ==
    ASSUME TypeOK, DagShape, Asked, NEW r \in Reader, Searching(r), queue[r] = {}
    PROVE  ~ IsAncestor(anc[r], desc[r])
<1> DEFINE a == anc[r]
           T == {y \in Block : y # a /\ height[y] <= height[a]}
           S == seen[r] \cup T
<1>1. a \in Block /\ seen[r] \subseteq Block
    BY DEF TypeOK
<1>2. \A x \in seen[r] : \A p \in parents[x] : p \in S
    BY <1>1 DEF Searching, TypeOK
<1>3. \A x \in T : \A p \in parents[x] : p \in S
    BY <1>1, ShallowSetIsClosed DEF ParentClosed
<1>4. S \in SUBSET Block /\ ParentClosed(parents, S) /\ parents[desc[r]] \subseteq S
    BY <1>1, <1>2, <1>3 DEF ParentClosed, Searching
<1>5. a \notin S
    BY DEF Searching
<1> QED
    BY <1>4, <1>5 DEF IsAncestor, InPast, Reaches, Searching

(* A block that arrives changes no past: it has no descendants yet.        *)
LEMMA AddBlockKeepsPast ==
    ASSUME TypeOK, DagShape, NEW b \in Block, NEW ps \in SUBSET Block,
           AddBlock(b, ps), NEW a \in Block, NEW d \in present
    PROVE  InPast(a, d)' <=> InPast(a, d)
<1>1. /\ b \notin present
      /\ parents' = [parents EXCEPT ![b] = ps]
      /\ parents[b] = {}
      /\ \A x \in present : parents'[x] = parents[x] /\ parents[x] \subseteq present
    BY DEF AddBlock, TypeOK, DagShape
<1>2. ASSUME InPast(a, d) PROVE InPast(a, d)'
    <2> SUFFICES ASSUME NEW S \in SUBSET Block, ParentClosed(parents', S), parents'[d] \subseteq S
                 PROVE  a \in S
        BY DEF InPast, Reaches
    <2>1. \A x \in Block : parents[x] \subseteq parents'[x]
        BY <1>1 DEF TypeOK
    <2>2. ParentClosed(parents, S) /\ parents[d] \subseteq S
        BY <2>1, <1>1 DEF ParentClosed
    <2> QED
        BY <1>2, <2>2 DEF InPast, Reaches
<1>3. ASSUME InPast(a, d)' PROVE InPast(a, d)
    <2> SUFFICES ASSUME NEW S \in SUBSET Block, ParentClosed(parents, S), parents[d] \subseteq S
                 PROVE  a \in S
        BY DEF InPast, Reaches
    <2>0. PICK S0 : S0 = S \cap present
        OBVIOUS
    <2>1. \A x \in S0 : parents'[x] \subseteq S0
        BY <2>0, <1>1 DEF ParentClosed
    <2>2. S0 \in SUBSET Block /\ ParentClosed(parents', S0) /\ parents'[d] \subseteq S0
        BY <2>0, <2>1, <1>1 DEF ParentClosed
    <2> QED
        BY <1>3, <2>0, <2>2 DEF InPast, Reaches
<1> QED
    BY <1>2, <1>3

(* ... nor any answer about the blocks that were there.                    *)
LEMMA AddBlockKeepsAncestry ==
    ASSUME TypeOK, DagShape, NEW b \in Block, NEW ps \in SUBSET Block,
           AddBlock(b, ps), NEW a \in Block, NEW d \in present
    PROVE  IsAncestor(a, d)' <=> IsAncestor(a, d)
BY AddBlockKeepsPast DEF IsAncestor

-----------------------------------------------------------------------------
(* A lone genesis satisfies the invariant.                                 *)
LEMMA InitIInv == Init => IInv
<1> SUFFICES ASSUME Init PROVE IInv
    OBVIOUS
<1>1. TypeOK
    BY GenesisIsBlock DEF Init, TypeOK
<1>2. DagShape
    BY GenesisIsBlock DEF Init, DagShape
<1>3. Asked
    BY GenesisIsBlock DEF Init, Asked
<1> QED
    BY <1>1, <1>2, <1>3 DEF Init, IInv, CacheIsTrue, AnswersAreTrue

(* Every step keeps the types.                                             *)
LEMMA TypeOKStep == TypeOK /\ Asked /\ [Next]_vars => TypeOK'
<1> SUFFICES ASSUME TypeOK, Asked, [Next]_vars PROVE TypeOK'
    OBVIOUS
<1>1. ASSUME NEW b \in Block, NEW ps \in SUBSET Block, AddBlock(b, ps)
      PROVE  TypeOK'
    BY <1>1 DEF AddBlock, TypeOK, search
<1>2. ASSUME NEW r \in Reader, NEW a \in present, NEW d \in present, Ask(r, a, d)
      PROVE  TypeOK'
    <2>1. CASE Finish(r, TRUE)
        BY <1>2, <2>1 DEF Ask, Finish, TypeOK, dag
    <2>2. CASE <<d, a>> \in DOMAIN cache /\ Finish(r, cache[<<d, a>>])
        BY <1>2, <2>2 DEF Ask, Finish, TypeOK, dag
    <2>3. CASE Conclude(r, FALSE)
        BY <1>2, <2>3 DEF Ask, Conclude, TypeOK, dag
    <2>4. CASE StartSearch(r, d)
        BY <1>2, <2>4 DEF Ask, StartSearch, TypeOK, dag
    <2> QED
        BY <1>2, <2>1, <2>2, <2>3, <2>4 DEF Ask
<1>3. ASSUME NEW r \in Reader, NEW x \in Block, Visit(r, x)
      PROVE  TypeOK'
    <2>1. Frontier(r, x) \subseteq Block
        BY DEF Frontier, TypeOK
    <2> QED
        BY <1>3, <2>1, ZenonT(60) DEF Visit, Conclude, TypeOK, dag
<1>4. ASSUME NEW r \in Reader, Exhaust(r)
      PROVE  TypeOK'
    BY <1>4 DEF Exhaust, Conclude, TypeOK, dag
<1>5. ASSUME NEW r \in Reader, Remember(r)
      PROVE  TypeOK'
    <2>1. Kept \subseteq DOMAIN cache
        BY DEF Kept
    <2>2. DOMAIN cache' \subseteq Block \X Block /\ cache' \in [DOMAIN cache' -> BOOLEAN]
        BY <1>5, <2>1 DEF Remember, TypeOK
    <2> QED
        BY <1>5, <2>2 DEF Remember, TypeOK, dag
<1>6. CASE UNCHANGED vars
    BY <1>6 DEF vars, dag, search, TypeOK
<1> QED
    BY <1>1, <1>2, <1>3, <1>4, <1>5, <1>6 DEF Next, ReaderStep, TypeOK

(* add_block keeps the invariant, the untouched memo table included.       *)
LEMMA AddBlockStep ==
    ASSUME IInv, NEW b \in Block, NEW ps \in SUBSET Block, AddBlock(b, ps), TypeOK'
    PROVE  IInv'
<1>1. TypeOK /\ DagShape /\ Asked /\ CacheIsTrue /\ AnswersAreTrue
    BY DEF IInv
<1>2. DagShape'
    <2>1. /\ present' = present \cup {b} /\ b \notin present
          /\ parents' = [parents EXCEPT ![b] = ps] /\ ps \subseteq present
          /\ \A p \in ps : height[p] < height'[b]
          /\ \A x \in Block : x # b => height'[x] = height[x]
        BY <1>1 DEF AddBlock, IsHeightOver, TypeOK
    <2>2. \A x \in present : x # b /\ parents[x] \subseteq present /\ b \notin parents[x]
        BY <1>1, <2>1 DEF TypeOK
    <2> QED
        BY <1>1, <2>1, <2>2 DEF DagShape, TypeOK
<1>3. Asked'
    BY <1>1 DEF AddBlock, Asked, search
<1>4. CacheIsTrue'
    <2> SUFFICES ASSUME NEW k \in DOMAIN cache
                 PROVE  cache[k] <=> IsAncestor(k[2], k[1])'
        BY DEF AddBlock, CacheIsTrue
    <2>1. k[2] \in Block /\ k[1] \in present
        BY <1>1 DEF Asked, TypeOK
    <2> QED
        BY <1>1, <2>1, AddBlockKeepsAncestry DEF CacheIsTrue
<1>5. AnswersAreTrue'
    <2> SUFFICES ASSUME NEW r \in Reader, pc[r] \in {"remember", "done"}
                 PROVE  found[r] <=> IsAncestor(anc[r], desc[r])'
        BY DEF AddBlock, AnswersAreTrue, search
    <2>1. anc[r] \in Block /\ desc[r] \in present /\ anc' = anc /\ desc' = desc
        BY <1>1 DEF Asked, TypeOK, AddBlock, search
    <2>2. InPast(anc[r], desc[r])' <=> InPast(anc[r], desc[r])
        <3>1. PICK a, d : a = anc[r] /\ d = desc[r]
            OBVIOUS
        <3>2. InPast(a, d)' <=> InPast(a, d)
            BY <1>1, <2>1, <3>1, AddBlockKeepsPast
        <3> QED
            BY <2>1, <3>1, <3>2 DEF InPast
    <2> QED
        BY <1>1, <2>1, <2>2 DEF AnswersAreTrue, IsAncestor
<1>6. \A r \in Reader : pc'[r] # "search"
    BY DEF AddBlock, search
<1> QED
    BY <1>2, <1>3, <1>4, <1>5, <1>6 DEF IInv

(* A reader's step leaves the DAG, and with it every ancestry, alone; what *)
(* is left to show is the table, and the reader's own state.               *)
LEMMA ReaderStepFrame ==
    ASSUME IInv, UNCHANGED dag, TypeOK', NEW r \in Reader, Asked',
           CacheIsTrue',
           \A q \in Reader \ {r} :
               /\ pc'[q] = pc[q] /\ found'[q] = found[q] /\ anc'[q] = anc[q]
               /\ desc'[q] = desc[q] /\ seen'[q] = seen[q] /\ queue'[q] = queue[q],
           pc'[r] \in {"remember", "done"} => (found'[r] <=> IsAncestor(anc[r], desc[r])'),
           pc'[r] = "search" => Searching(r)'
    PROVE  IInv'
<1>1. DagShape'
    BY DEF IInv, DagShape, dag
<1>2. AnswersAreTrue'
    BY DEF IInv, AnswersAreTrue, IsAncestor, InPast, dag
<1>3. \A q \in Reader : pc'[q] = "search" => Searching(q)'
    BY DEF IInv, Searching, IsAncestor, InPast, dag
<1> QED
    BY <1>1, <1>2, <1>3 DEF IInv

(* The entry of a search keeps the invariant.                              *)
LEMMA AskStep ==
    ASSUME IInv, NEW r \in Reader, NEW a \in present, NEW d \in present, Ask(r, a, d),
           TypeOK'
    PROVE  IInv'
<1>1. TypeOK /\ DagShape /\ Asked /\ CacheIsTrue
    BY DEF IInv
<1>2. UNCHANGED dag /\ cache' = cache
    BY DEF Ask
<1>3. Asked'
    BY <1>1 DEF Ask, Asked, TypeOK, dag
<1>4. CacheIsTrue'
    BY <1>1, <1>2 DEF CacheIsTrue, IsAncestor, InPast, dag
<1>5. \A q \in Reader \ {r} :
          /\ pc'[q] = pc[q] /\ found'[q] = found[q] /\ anc'[q] = anc[q]
          /\ desc'[q] = desc[q] /\ seen'[q] = seen[q] /\ queue'[q] = queue[q]
    BY <1>1 DEF Ask, Finish, Conclude, StartSearch, TypeOK
<1>6. anc'[r] = a /\ desc'[r] = d /\ parents' = parents
    BY <1>1 DEF Ask, TypeOK, dag
<1>7. CASE a = d /\ Finish(r, TRUE)
    <2>1. pc'[r] = "done" /\ found'[r] = TRUE
        BY <1>1, <1>7 DEF Finish, TypeOK
    <2> QED
        BY <1>2, <1>3, <1>4, <1>5, <1>6, <1>7, <2>1, ReaderStepFrame DEF IsAncestor
<1>8. CASE <<d, a>> \in DOMAIN cache /\ Finish(r, cache[<<d, a>>])
    <2>1. pc'[r] = "done" /\ found'[r] = cache[<<d, a>>]
        BY <1>1, <1>8 DEF Finish, TypeOK
    <2>2. cache[<<d, a>>] <=> IsAncestor(a, d)
        BY <1>1, <1>8 DEF CacheIsTrue
    <2> QED
        BY <1>2, <1>3, <1>4, <1>5, <1>6, <2>1, <2>2, ReaderStepFrame DEF IsAncestor, InPast
<1>9. CASE a # d /\ height[d] <= height[a] /\ Conclude(r, FALSE)
    <2>1. pc'[r] = "remember" /\ found'[r] = FALSE
        BY <1>1, <1>9 DEF Conclude, TypeOK
    <2>2. ~ InPast(a, d)
        BY <1>1, <1>9, ShallowHasNot DEF TypeOK
    <2> QED
        BY <1>2, <1>3, <1>4, <1>5, <1>6, <1>9, <2>1, <2>2, ReaderStepFrame
           DEF IsAncestor, InPast
<1>10. CASE a # d /\ StartSearch(r, d)
    <2>1. pc'[r] = "search" /\ seen'[r] = {d} /\ queue'[r] = {d}
        BY <1>1, <1>10 DEF StartSearch, TypeOK
    <2>2. Searching(r)'
        BY <1>6, <1>10, <2>1 DEF Searching, IsAncestor
    <2> QED
        BY <1>2, <1>3, <1>4, <1>5, <2>1, <2>2, ReaderStepFrame
<1> QED
    BY <1>7, <1>8, <1>9, <1>10 DEF Ask

(* One turn of the search loop keeps the invariant.                        *)
LEMMA VisitStep ==
    ASSUME IInv, NEW r \in Reader, NEW x \in Block, Visit(r, x), TypeOK'
    PROVE  IInv'
<1>1. TypeOK /\ DagShape /\ Asked /\ CacheIsTrue /\ Searching(r)
    BY DEF IInv, Visit
<1>2. UNCHANGED dag /\ cache' = cache /\ anc' = anc /\ desc' = desc /\ parents' = parents
    BY DEF Visit, dag
<1>3. Asked' /\ CacheIsTrue'
    BY <1>1, <1>2 DEF Asked, CacheIsTrue, IsAncestor, InPast, dag
<1>4. \A q \in Reader \ {r} :
          /\ pc'[q] = pc[q] /\ found'[q] = found[q] /\ anc'[q] = anc[q]
          /\ desc'[q] = desc[q] /\ seen'[q] = seen[q] /\ queue'[q] = queue[q]
    BY <1>1 DEF Visit, Conclude, TypeOK
<1>5. x \in seen[r] /\ IsAncestor(x, desc[r])
    BY <1>1 DEF Visit, Searching
<1>6. CASE anc[r] \in parents[x] /\ Conclude(r, TRUE)
    <2>1. pc'[r] = "remember" /\ found'[r] = TRUE
        BY <1>1, <1>6 DEF Conclude, TypeOK
    <2>2. InPast(anc[r], desc[r])
        BY <1>5, <1>6, ParentOfAncestor
    <2> QED
        BY <1>2, <1>3, <1>4, <2>1, <2>2, ReaderStepFrame DEF IsAncestor, InPast
<1>7. CASE /\ anc[r] \notin parents[x]
           /\ seen' = [seen EXCEPT ![r] = @ \cup Frontier(r, x)]
           /\ queue' = [queue EXCEPT ![r] = (@ \ {x}) \cup Frontier(r, x)]
           /\ UNCHANGED <<pc, found>>
    <2>1. /\ seen'[r] = seen[r] \cup Frontier(r, x)
          /\ queue'[r] = (queue[r] \ {x}) \cup Frontier(r, x)
        BY <1>1, <1>7 DEF TypeOK
    <2>2. \A p \in Frontier(r, x) : p \in parents[x] /\ p # anc[r] /\ IsAncestor(p, desc[r])
        BY <1>5, <1>7, ParentOfAncestor DEF Frontier, IsAncestor
    <2>3. \A p \in parents[x] : p # anc[r] /\ (p \in seen'[r] \/ height[p] <= height[anc[r]])
        BY <1>1, <1>7, <2>1 DEF Frontier, TypeOK
    <2>4. Searching(r)'
        <3>1. \A y \in seen'[r] \ queue'[r] : \A p \in parents[y] :
                  p # anc[r] /\ (p \in seen'[r] \/ height[p] <= height[anc[r]])
            BY <1>1, <2>1, <2>3 DEF Searching
        <3>2. \A y \in seen'[r] : IsAncestor(y, desc[r])
            BY <1>1, <2>1, <2>2 DEF Searching
        <3>3. queue'[r] \subseteq seen'[r] /\ desc[r] \in seen'[r] /\ anc[r] \notin seen'[r]
            BY <1>1, <2>1, <2>2 DEF Searching
        <3> QED
            BY <1>1, <1>2, <3>1, <3>2, <3>3 DEF Searching, IsAncestor, InPast, dag
    <2>5. pc'[r] = "search"
        BY <1>7 DEF Visit
    <2> QED
        BY <1>2, <1>3, <1>4, <2>4, <2>5, ReaderStepFrame
<1> QED
    BY <1>6, <1>7 DEF Visit

(* Answering no when the queue is dry keeps the invariant.                 *)
LEMMA ExhaustStep ==
    ASSUME IInv, NEW r \in Reader, Exhaust(r), TypeOK'
    PROVE  IInv'
<1>1. TypeOK /\ DagShape /\ Asked /\ CacheIsTrue /\ Searching(r)
    BY DEF IInv, Exhaust
<1>2. UNCHANGED dag /\ cache' = cache /\ anc' = anc /\ desc' = desc /\ parents' = parents
    BY DEF Exhaust, dag
<1>3. Asked' /\ CacheIsTrue'
    BY <1>1, <1>2 DEF Asked, CacheIsTrue, IsAncestor, InPast, dag
<1>4. \A q \in Reader \ {r} :
          /\ pc'[q] = pc[q] /\ found'[q] = found[q] /\ anc'[q] = anc[q]
          /\ desc'[q] = desc[q] /\ seen'[q] = seen[q] /\ queue'[q] = queue[q]
    BY <1>1 DEF Exhaust, Conclude, TypeOK
<1>5. pc'[r] = "remember" /\ found'[r] = FALSE
    BY <1>1 DEF Exhaust, Conclude, TypeOK
<1>6. ~ IsAncestor(anc[r], desc[r])
    BY <1>1, ExhaustedHasNot DEF Exhaust
<1> QED
    BY <1>2, <1>3, <1>4, <1>5, <1>6, ReaderStepFrame DEF IsAncestor, InPast

(* Writing the answer to the table, dropped or not, keeps the invariant.   *)
LEMMA RememberStep ==
    ASSUME IInv, NEW r \in Reader, Remember(r), TypeOK'
    PROVE  IInv'
<1>1. TypeOK /\ DagShape /\ Asked /\ CacheIsTrue /\ AnswersAreTrue
    BY DEF IInv
<1>2. UNCHANGED dag /\ anc' = anc /\ desc' = desc /\ parents' = parents
    BY DEF Remember, dag
<1>3. found[r] <=> IsAncestor(anc[r], desc[r])
    BY <1>1 DEF Remember, AnswersAreTrue
<1>4. /\ DOMAIN cache' = Kept \cup {<<desc[r], anc[r]>>}
      /\ \A k \in DOMAIN cache' :
             cache'[k] = IF k = <<desc[r], anc[r]>> THEN found[r] ELSE cache[k]
      /\ Kept \subseteq DOMAIN cache
    BY DEF Remember, Kept
<1>5. Asked'
    BY <1>1, <1>2, <1>4 DEF Asked, dag
<1>6. CacheIsTrue'
    <2> SUFFICES ASSUME NEW k \in DOMAIN cache'
                 PROVE  cache'[k] <=> IsAncestor(k[2], k[1])
        BY <1>2 DEF CacheIsTrue, IsAncestor, InPast
    <2>1. CASE k = <<desc[r], anc[r]>>
        BY <1>3, <1>4, <2>1
    <2>2. CASE k # <<desc[r], anc[r]>>
        BY <1>1, <1>4, <2>2 DEF CacheIsTrue
    <2> QED
        BY <2>1, <2>2
<1>7. \A q \in Reader \ {r} :
          /\ pc'[q] = pc[q] /\ found'[q] = found[q] /\ anc'[q] = anc[q]
          /\ desc'[q] = desc[q] /\ seen'[q] = seen[q] /\ queue'[q] = queue[q]
    BY <1>1 DEF Remember, TypeOK
<1>8. pc'[r] = "done" /\ found' = found
    BY <1>1 DEF Remember, TypeOK
<1> QED
    BY <1>2, <1>3, <1>5, <1>6, <1>7, <1>8, ReaderStepFrame DEF IsAncestor, InPast

(* Every step keeps the invariant.                                         *)
LEMMA IInvStep == IInv /\ [Next]_vars => IInv'
<1> SUFFICES ASSUME IInv, [Next]_vars PROVE IInv'
    OBVIOUS
<1>1. TypeOK'
    BY TypeOKStep DEF IInv
<1>2. CASE UNCHANGED vars
    BY <1>1, <1>2
       DEF vars, dag, search, IInv, DagShape, Asked, CacheIsTrue, AnswersAreTrue,
           Searching, IsAncestor, InPast
<1>3. CASE \E b \in Block, ps \in SUBSET Block : AddBlock(b, ps)
    BY <1>1, <1>3, AddBlockStep
<1>4. ASSUME NEW r \in Reader, ReaderStep(r) PROVE IInv'
    BY <1>1, <1>4, AskStep, VisitStep, ExhaustStep, RememberStep DEF ReaderStep
<1> QED
    BY <1>2, <1>3, <1>4 DEF Next

(* The inductive invariant, from which the properties below follow. *)
THEOREM Invariance == Spec => []IInv
<1>1. Init => IInv
    BY InitIInv
<1>2. IInv /\ [Next]_vars => IInv'
    BY IInvStep
<1> QED
    BY <1>1, <1>2, PTL DEF Spec

(* Type correctness: in particular no header in the store refers to a      *)
(* block that is not there (add_block's missing-parent check).             *)
THEOREM TypeCorrect == Spec => []TypeOK
<1>1. IInv => TypeOK
    BY DEF IInv
<1> QED
    BY <1>1, Invariance, PTL

(* is_ancestor_of is right: whatever other readers did, however often the  *)
(* memo table was dropped, and whatever has been added to the DAG since.   *)
THEOREM AnswersCorrect == Spec => []AnswersAreTrue
<1>1. IInv => AnswersAreTrue
    BY DEF IInv
<1> QED
    BY <1>1, Invariance, PTL

(* No entry of the memo table is stale, though nothing ever invalidates it. *)
THEOREM CacheCorrect == Spec => []CacheIsTrue
<1>1. IInv => CacheIsTrue
    BY DEF IInv
<1> QED
    BY <1>1, Invariance, PTL

(* Topological height strictly increases along ancestry, the premise of    *)
(* the prune in is_ancestor_of: blocks at least as high as `d` cannot be   *)
(* in its past, for the blocks below `d` are parent-closed.                *)
THEOREM HeightsRise == Spec => []HeightsRiseAlongPast
<1>1. IInv => HeightsRiseAlongPast
    <2> SUFFICES ASSUME IInv, NEW a \in present, NEW d \in present,
                        InPast(a, d), ~ (height[a] < height[d])
                 PROVE  FALSE
        BY DEF HeightsRiseAlongPast
    <2>1. TypeOK /\ DagShape /\ a \in Block
        BY DEF IInv, TypeOK
    <2>2. height[d] <= height[a]
        BY <2>1 DEF TypeOK
    <2> QED
        BY <2>1, <2>2, ShallowHasNot
<1> QED
    BY <1>1, Invariance, PTL

-----------------------------------------------------------------------------
(* The bound on the memo table. *)
Bounded == IsFiniteSet(DOMAIN cache) /\ CacheIsBounded

(* No step makes the table outgrow its capacity.                           *)
LEMMA BoundedStep == TypeOK /\ Bounded /\ [Next]_vars => Bounded'
<1> SUFFICES ASSUME TypeOK, Bounded, [Next]_vars PROVE Bounded'
    OBVIOUS
<1>1. ASSUME NEW r \in Reader, Remember(r) PROVE Bounded'
    <2> DEFINE key == <<desc[r], anc[r]>>
    <2>1. DOMAIN cache' = Kept \cup {key}
        BY <1>1 DEF Remember
    <2>2. IsFiniteSet(Kept) /\ Cardinality(Kept) < CacheCapacity
        <3>1. CASE Cardinality(DOMAIN cache) >= CacheCapacity
            BY <3>1, CapacityIsPositive, FS_EmptySet DEF Kept
        <3>2. CASE ~ (Cardinality(DOMAIN cache) >= CacheCapacity)
            <4>1. Kept = DOMAIN cache /\ Cardinality(DOMAIN cache) \in Nat
                BY <3>2, FS_CardinalityType DEF Kept, Bounded
            <4> QED
                BY <3>2, <4>1, CapacityIsPositive DEF Bounded
        <3> QED
            BY <3>1, <3>2
    <2>3. /\ IsFiniteSet(Kept \cup {key})
          /\ \/ Cardinality(Kept \cup {key}) = Cardinality(Kept)
             \/ Cardinality(Kept \cup {key}) = Cardinality(Kept) + 1
        BY <2>2, FS_AddElement
    <2>4. Cardinality(Kept) \in Nat
        BY <2>2, FS_CardinalityType
    <2> QED
        BY <2>1, <2>2, <2>3, <2>4, CapacityIsPositive DEF Bounded, CacheIsBounded
<1>2. CASE cache' = cache
    BY <1>2 DEF Bounded, CacheIsBounded
<1> QED
    BY <1>1, <1>2 DEF Next, ReaderStep, AddBlock, Ask, Visit, Exhaust, vars

(* remember never lets the table outgrow CACHE_CAPACITY. *)
THEOREM CacheBounded == Spec => []CacheIsBounded
<1>1. Init => Bounded
    <2>1. ASSUME Init PROVE DOMAIN cache = {}
        BY <2>1 DEF Init
    <2> QED
        BY <2>1, FS_EmptySet, CapacityIsPositive DEF Bounded, CacheIsBounded
<1>2. TypeOK /\ Bounded /\ [Next]_vars => Bounded'
    BY BoundedStep
<1>3. Bounded => CacheIsBounded
    BY DEF Bounded
<1> QED
    BY <1>1, <1>2, <1>3, TypeCorrect, PTL DEF Spec
=============================================================================
