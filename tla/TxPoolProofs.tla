---------------------------- MODULE TxPoolProofs ----------------------------
(***************************************************************************)
(* The pool's indexes, limits and arrival numbers, for every set of        *)
(* transactions and every configuration.                                   *)
(*                                                                         *)
(* An addition is a removal, an insertion and perhaps an eviction: each is *)
(* shown to keep a pool sound, so that every operation is.  The limits     *)
(* need one thing more, that eviction does find a victim: CHOOSE is only   *)
(* defined if somebody is worst, which holds because the order by tip and  *)
(* arrival is total (WorseIsOrder); so is what best_transactions takes.    *)
(***************************************************************************)
EXTENDS TxPool, FiniteSetTheorems, SequenceTheorems, TLAPS

(* A pool whose two indexes agree and whose arrivals are told apart. *)
Sound(p) ==
    /\ Typed(p)
    /\ Agree(p)
    /\ Distinct(p)
    /\ IsFiniteSet(Pooled(p))

(* remove keeps a pool sound. *)
LEMMA RemovedSound ==
    ASSUME NEW p, NEW gone, Sound(p)
    PROVE  /\ Sound(Removed(p, gone))
           /\ Pooled(Removed(p, gone)) = Pooled(p) \ gone
           /\ Removed(p, gone).sequence = p.sequence
<1> DEFINE r == Removed(p, gone)
<1>0. DOMAIN p = {"by_hash", "by_sender", "sequence"}
    BY DEF Sound, Typed
<1>1. /\ DOMAIN r = {"by_hash", "by_sender", "sequence"}
      /\ r.sequence = p.sequence
      /\ r.by_hash = [tx \in Pooled(p) \ gone |-> p.by_hash[tx]]
      /\ r.by_sender = [s \in {q \in DOMAIN p.by_sender : Left(p, gone, q) # {}} |->
                           [n \in Left(p, gone, s) |-> p.by_sender[s][n]]]
    BY <1>0 DEF Removed
<1> HIDE DEF r
<1>2. Pooled(r) = Pooled(p) \ gone
    BY <1>1 DEF Pooled
<1>3. \A s \in DOMAIN p.by_sender : Left(p, gone, s) \subseteq DOMAIN p.by_sender[s]
    BY DEF Left
<1>4. Typed(r)
    BY <1>1, <1>2, <1>3 DEF Sound, Typed
<1>5. Agree(r)
    <2>1. ASSUME NEW tx \in Pooled(r)
          PROVE  /\ tx.sender \in DOMAIN p.by_sender
                 /\ tx.nonce \in Left(p, gone, tx.sender)
                 /\ p.by_sender[tx.sender][tx.nonce] = tx
        <3>1. /\ tx \in Pooled(p) /\ tx \notin gone
              /\ tx.sender \in DOMAIN p.by_sender
              /\ tx.nonce \in DOMAIN p.by_sender[tx.sender]
              /\ p.by_sender[tx.sender][tx.nonce] = tx
            BY <1>2, <2>1 DEF Sound, Agree
        <3>2. ASSUME NEW other \in gone \cap Pooled(p), other.sender = tx.sender
              PROVE  other.nonce # tx.nonce
            BY <3>1, <3>2 DEF Sound, Agree
        <3> QED
            BY <3>1, <3>2 DEF Left
    <2>2. ASSUME NEW s \in DOMAIN r.by_sender, NEW n \in DOMAIN r.by_sender[s]
          PROVE  /\ r.by_sender[s][n] \in Pooled(r)
                 /\ r.by_sender[s][n].sender = s
                 /\ r.by_sender[s][n].nonce = n
        <3>1. s \in DOMAIN p.by_sender /\ n \in Left(p, gone, s)
            BY <1>1, <2>2
        <3>2. n \in DOMAIN p.by_sender[s] /\ r.by_sender[s][n] = p.by_sender[s][n]
            BY <1>1, <1>3, <2>2, <3>1
        <3>3. /\ p.by_sender[s][n] \in Pooled(p)
              /\ p.by_sender[s][n].sender = s /\ p.by_sender[s][n].nonce = n
            BY <3>1, <3>2 DEF Sound, Agree
        <3>4. p.by_sender[s][n] \notin gone
            BY <3>1, <3>3 DEF Left
        <3> QED
            BY <1>2, <3>2, <3>3, <3>4
    <2>3. \A s \in DOMAIN r.by_sender : DOMAIN r.by_sender[s] # {}
        BY <1>1
    <2>4. \A tx \in Pooled(r) :
              /\ tx.sender \in DOMAIN r.by_sender
              /\ tx.nonce \in DOMAIN r.by_sender[tx.sender]
              /\ r.by_sender[tx.sender][tx.nonce] = tx
        BY <1>1, <2>1
    <2> QED
        BY <2>2, <2>3, <2>4 DEF Agree
<1>6. Distinct(r)
    BY <1>1, <1>2 DEF Sound, Distinct
<1>7. IsFiniteSet(Pooled(r))
    BY <1>2, FS_Subset DEF Sound
<1> QED
    BY <1>1, <1>2, <1>4, <1>5, <1>6, <1>7 DEF Sound, r

(* The insertion of a new transaction into a free slot keeps a pool sound. *)
LEMMA InsertedSound ==
    ASSUME NEW p, NEW tx \in Tx, Sound(p), tx \notin Pooled(p), ~ Occupied(p, tx)
    PROVE  /\ Sound(Inserted(p, tx))
           /\ Pooled(Inserted(p, tx)) = Pooled(p) \cup {tx}
           /\ Inserted(p, tx).sequence = p.sequence + 1
<1> DEFINE r == Inserted(p, tx)
<1>1. /\ DOMAIN r = {"by_hash", "by_sender", "sequence"}
      /\ r.sequence = p.sequence + 1
      /\ r.by_hash = [t \in Pooled(p) \cup {tx} |->
                         IF t = tx THEN p.sequence + 1 ELSE p.by_hash[t]]
      /\ r.by_sender = [s \in DOMAIN p.by_sender \cup {tx.sender} |->
                           IF s = tx.sender
                           THEN [n \in DOMAIN Queue(p, s) \cup {tx.nonce} |->
                                    IF n = tx.nonce THEN tx ELSE Queue(p, s)[n]]
                           ELSE p.by_sender[s]]
    BY DEF Inserted, Arrival
<1> HIDE DEF r
<1>2. Pooled(r) = Pooled(p) \cup {tx}
    BY <1>1 DEF Pooled
<1>3. tx.sender \in Sender /\ tx.nonce \in Nat
    BY PoolAssumption
<1>4. /\ p.sequence \in Nat
      /\ \A t \in Pooled(p) : p.by_hash[t] \in 1..p.sequence
    BY DEF Sound, Typed
<1>5. /\ r.by_hash[tx] = p.sequence + 1
      /\ \A t \in Pooled(p) : r.by_hash[t] = p.by_hash[t]
    BY <1>1
<1>6. /\ DOMAIN r.by_sender = DOMAIN p.by_sender \cup {tx.sender}
      /\ DOMAIN r.by_sender[tx.sender] = DOMAIN Queue(p, tx.sender) \cup {tx.nonce}
      /\ r.by_sender[tx.sender][tx.nonce] = tx
      /\ \A n \in DOMAIN Queue(p, tx.sender) :
             n # tx.nonce /\ r.by_sender[tx.sender][n] = Queue(p, tx.sender)[n]
      /\ \A s \in DOMAIN p.by_sender : s # tx.sender => r.by_sender[s] = p.by_sender[s]
    BY <1>1 DEF Occupied
<1>7. ASSUME NEW s, NEW n \in DOMAIN Queue(p, s)
      PROVE  /\ s \in DOMAIN p.by_sender /\ n \in DOMAIN p.by_sender[s]
             /\ Queue(p, s) = p.by_sender[s]
    BY <1>7 DEF Queue
<1>8. Typed(r)
    <2>1. Pooled(r) \subseteq Tx
        BY <1>2 DEF Sound, Typed
    <2>2. r.sequence \in Nat /\ \A t \in Pooled(r) : r.by_hash[t] \in 1..r.sequence
        BY <1>1, <1>2, <1>4, <1>5
    <2>3. DOMAIN r.by_sender \subseteq Sender
        BY <1>1, <1>3 DEF Sound, Typed
    <2>4. DOMAIN r.by_sender[tx.sender] \subseteq Nat
        BY <1>3, <1>6, <1>7 DEF Sound, Typed
    <2>5. \A s \in DOMAIN r.by_sender : DOMAIN r.by_sender[s] \subseteq Nat
        BY <1>6, <2>4 DEF Sound, Typed
    <2> QED
        BY <1>1, <2>1, <2>2, <2>3, <2>5 DEF Typed
<1>9. Agree(r)
    <2>1. ASSUME NEW t \in Pooled(r)
          PROVE  /\ t.sender \in DOMAIN r.by_sender
                 /\ t.nonce \in DOMAIN r.by_sender[t.sender]
                 /\ r.by_sender[t.sender][t.nonce] = t
        <3>1. CASE t = tx
            BY <1>1, <1>6, <3>1
        <3>2. CASE t \in Pooled(p)
            <4>1. /\ t.sender \in DOMAIN p.by_sender
                  /\ t.nonce \in DOMAIN p.by_sender[t.sender]
                  /\ p.by_sender[t.sender][t.nonce] = t
                BY <3>2 DEF Sound, Agree
            <4>2. Queue(p, t.sender) = p.by_sender[t.sender]
                BY <4>1 DEF Queue
            <4>3. CASE t.sender = tx.sender
                BY <1>6, <4>1, <4>2, <4>3
            <4>4. CASE t.sender # tx.sender
                BY <1>6, <4>1, <4>4
            <4> QED
                BY <4>3, <4>4
        <3> QED
            BY <1>2, <3>1, <3>2
    <2>2. ASSUME NEW s \in DOMAIN r.by_sender, NEW n \in DOMAIN r.by_sender[s]
          PROVE  /\ r.by_sender[s][n] \in Pooled(r)
                 /\ r.by_sender[s][n].sender = s
                 /\ r.by_sender[s][n].nonce = n
        <3>1. CASE s = tx.sender /\ n = tx.nonce
            BY <1>2, <1>6, <3>1
        <3>2. CASE s = tx.sender /\ n \in DOMAIN Queue(p, s)
            <4>1. /\ s \in DOMAIN p.by_sender /\ n \in DOMAIN p.by_sender[s]
                  /\ r.by_sender[s][n] = p.by_sender[s][n]
                BY <1>6, <1>7, <3>2
            <4> QED
                BY <1>2, <4>1 DEF Sound, Agree
        <3>3. CASE s # tx.sender
            <4>1. s \in DOMAIN p.by_sender /\ r.by_sender[s] = p.by_sender[s]
                BY <1>6, <3>3
            <4> QED
                BY <1>2, <2>2, <4>1 DEF Sound, Agree
        <3> QED
            BY <1>6, <2>2, <3>1, <3>2, <3>3
    <2>3. \A s \in DOMAIN r.by_sender : DOMAIN r.by_sender[s] # {}
        <3> SUFFICES ASSUME NEW s \in DOMAIN r.by_sender PROVE DOMAIN r.by_sender[s] # {}
            OBVIOUS
        <3>1. CASE s = tx.sender
            BY <1>6, <3>1
        <3>2. CASE s # tx.sender
            BY <1>6, <3>2 DEF Queue, Sound, Agree
        <3> QED
            BY <3>1, <3>2
    <2> QED
        BY <2>1, <2>2, <2>3 DEF Agree
<1>10. Distinct(r)
    <2> SUFFICES ASSUME NEW a \in Pooled(r), NEW b \in Pooled(r), r.by_hash[a] = r.by_hash[b]
                 PROVE  a = b
        BY DEF Distinct
    <2>1. \A t \in Pooled(p) : r.by_hash[t] # p.sequence + 1
        BY <1>4, <1>5
    <2>2. CASE a \in Pooled(p) /\ b \in Pooled(p)
        BY <1>5, <2>2 DEF Sound, Distinct
    <2> QED
        BY <1>2, <1>5, <2>1, <2>2
<1>11. IsFiniteSet(Pooled(r))
    BY <1>2, FS_AddElement DEF Sound
<1> QED
    BY <1>1, <1>2, <1>8, <1>9, <1>10, <1>11 DEF Sound, r

(* Among finite sets there is one that includes no other. *)
LEMMA MinimalSet ==
    ASSUME NEW U, NEW T, T \subseteq FiniteSubsetsOf(U), T # {}
    PROVE  \E X \in T : \A Y \in T : Y \subseteq X => Y = X
<1>1. IsWellFoundedOn(StrictSubsetOrdering(U), FiniteSubsetsOf(U))
    BY FS_StrictSubsetOrderingWellFounded
<1>2. \E X \in T : \A Y \in T : ~ (<<Y, X>> \in StrictSubsetOrdering(U))
    BY <1>1, WFMin
<1>3. \A X, Y \in T : X \in SUBSET U /\ Y \in SUBSET U
    BY DEF FiniteSubsetsOf
<1> QED
    BY <1>2, <1>3 DEF StrictSubsetOrdering

(* A strict total order on a finite set that is not empty has a first      *)
(* element.  Take one with as few before it as can be (by inclusion): one  *)
(* before it would have fewer.                                             *)
StrictOrder(R, S) ==
    /\ \A a \in S : <<a, a>> \notin R
    /\ \A a, b \in S : a # b => <<a, b>> \in R \/ <<b, a>> \in R
    /\ \A a, b, c \in S : <<a, b>> \in R /\ <<b, c>> \in R => <<a, c>> \in R

LEMMA FirstExists ==
    ASSUME NEW S, NEW R, IsFiniteSet(S), S # {}, StrictOrder(R, S)
    PROVE  \E a \in S : \A b \in S \ {a} : <<a, b>> \in R /\ <<b, a>> \notin R
<1> DEFINE Before(a) == {b \in S : <<b, a>> \in R}
           T == {Before(a) : a \in S}
<1>1. T # {}
    OBVIOUS
<1>2. T \subseteq FiniteSubsetsOf(S)
    BY FS_Subset DEF FiniteSubsetsOf
<1>3. PICK X \in T : \A Y \in T : Y \subseteq X => Y = X
    <2> HIDE DEF T
    <2> QED
        BY <1>1, <1>2, MinimalSet
<1>4. PICK a \in S : X = Before(a)
    OBVIOUS
<1>5. Before(a) = {}
    <2> SUFFICES ASSUME NEW b \in Before(a) PROVE FALSE
        OBVIOUS
    <2>1. Before(b) \subseteq Before(a) /\ b \notin Before(b)
        BY DEF StrictOrder
    <2>2. Before(b) \in T
        OBVIOUS
    <2> HIDE DEF T
    <2> QED
        BY <1>3, <1>4, <2>1, <2>2
<1> QED
    BY <1>5 DEF StrictOrder

(* The order by tip and arrival is total.                                  *)
WorseIn(p, fee) == {ab \in Pooled(p) \X Pooled(p) : Worse(p, fee, ab[1], ab[2])}

LEMMA WorseIsOrder ==
    ASSUME NEW p, NEW fee \in Nat, Sound(p)
    PROVE  StrictOrder(WorseIn(p, fee), Pooled(p))
<1>1. \A tx \in Pooled(p) : EffectiveTip(tx, fee) \in Int /\ p.by_hash[tx] \in Int
    <2> SUFFICES ASSUME NEW tx \in Pooled(p)
                 PROVE  EffectiveTip(tx, fee) \in Int /\ p.by_hash[tx] \in Int
        OBVIOUS
    <2>1. tx \in Tx /\ p.by_hash[tx] \in Int
        BY DEF Sound, Typed
    <2>2. tx.max_fee \in Nat /\ tx.priority \in Nat
        BY <2>1, PoolAssumption
    <2> QED
        BY <2>1, <2>2 DEF EffectiveTip
<1>2. \A a, b, c \in Pooled(p) :
          Worse(p, fee, a, b) /\ Worse(p, fee, b, c) => Worse(p, fee, a, c)
    BY <1>1 DEF Worse
<1>3. \A a \in Pooled(p) : ~ Worse(p, fee, a, a)
    BY <1>1 DEF Worse
<1>4. \A a, b \in Pooled(p) : a # b => Worse(p, fee, a, b) \/ Worse(p, fee, b, a)
    BY <1>1 DEF Worse, Sound, Distinct
<1>5. \A a, b \in Pooled(p) : <<a, b>> \in WorseIn(p, fee) <=> Worse(p, fee, a, b)
    BY DEF WorseIn
<1> QED
    BY <1>2, <1>3, <1>4, <1>5 DEF StrictOrder

(* Somebody is worst.                                                      *)
LEMMA WorstExists ==
    ASSUME NEW p, NEW fee \in Nat, Sound(p), Pooled(p) # {}
    PROVE  /\ Worst(p, fee) \in Pooled(p)
           /\ \A other \in Pooled(p) \ {Worst(p, fee)} : Worse(p, fee, Worst(p, fee), other)
<1>1. IsFiniteSet(Pooled(p)) /\ StrictOrder(WorseIn(p, fee), Pooled(p))
    BY WorseIsOrder DEF Sound
<1>2. \E tx \in Pooled(p) : \A other \in Pooled(p) \ {tx} :
          <<tx, other>> \in WorseIn(p, fee) /\ <<other, tx>> \notin WorseIn(p, fee)
    BY <1>1, FirstExists
<1>3. \E tx \in Pooled(p) : \A other \in Pooled(p) \ {tx} : Worse(p, fee, tx, other)
    BY <1>2 DEF WorseIn
<1> QED
    BY <1>3 DEF Worst

(* evict_worst takes exactly one transaction out of a pool that is too     *)
(* full, and keeps it sound.                                               *)
LEMMA FittedSound ==
    ASSUME NEW p, NEW fee \in Nat, Sound(p), Cardinality(Pooled(p)) <= MaxTransactions + 1
    PROVE  /\ Sound(Fitted(p, fee))
           /\ Pooled(Fitted(p, fee)) \subseteq Pooled(p)
           /\ Fitted(p, fee).sequence = p.sequence
           /\ Cardinality(Pooled(Fitted(p, fee))) <= MaxTransactions
<1>1. Cardinality(Pooled(p)) \in Nat /\ MaxTransactions \in Nat
    BY FS_CardinalityType, PoolAssumption DEF Sound
<1>2. CASE Cardinality(Pooled(p)) > MaxTransactions
    <2>1. Fitted(p, fee) = Removed(p, {Worst(p, fee)})
        BY <1>2 DEF Fitted, EvictWorst
    <2>2. Pooled(p) # {}
        BY <1>1, <1>2, FS_EmptySet
    <2>3. Worst(p, fee) \in Pooled(p)
        BY <2>2, WorstExists
    <2>4. Pooled(Fitted(p, fee)) = Pooled(p) \ {Worst(p, fee)}
        BY <2>1, RemovedSound
    <2>5. Cardinality(Pooled(Fitted(p, fee))) = Cardinality(Pooled(p)) - 1
        BY <2>3, <2>4, FS_RemoveElement DEF Sound
    <2> QED
        BY <1>1, <2>1, <2>4, <2>5, RemovedSound
<1>3. CASE ~ (Cardinality(Pooled(p)) > MaxTransactions)
    BY <1>1, <1>3 DEF Fitted
<1> QED
    BY <1>2, <1>3

(* The queue of a sender is as long as the sender has transactions.        *)
LEMMA QueueCount ==
    ASSUME NEW p, NEW s, Sound(p)
    PROVE  /\ IsFiniteSet(From(p, s))
           /\ Cardinality(DOMAIN Queue(p, s)) = Cardinality(From(p, s))
<1> DEFINE f == [tx \in From(p, s) |-> tx.nonce]
<1>1. IsFiniteSet(From(p, s))
    BY FS_Subset DEF From, Sound
<1>2. \A tx \in From(p, s) :
          tx.nonce \in DOMAIN Queue(p, s) /\ Queue(p, s)[tx.nonce] = tx
    BY DEF From, Queue, Sound, Agree
<1>3. \A n \in DOMAIN Queue(p, s) :
          Queue(p, s)[n] \in From(p, s) /\ Queue(p, s)[n].nonce = n
    BY DEF From, Queue, Sound, Agree
<1>4. f \in Bijection(From(p, s), DOMAIN Queue(p, s))
    <2>1. f \in [From(p, s) -> DOMAIN Queue(p, s)]
        BY <1>2
    <2>2. \A a, b \in From(p, s) : f[a] = f[b] => a = b
        BY <1>2
    <2>3. \A n \in DOMAIN Queue(p, s) : \E tx \in From(p, s) : f[tx] = n
        BY <1>3
    <2> HIDE DEF f
    <2> QED
        BY <2>1, <2>2, <2>3 DEF Bijection, Injection, Surjection, IsInjective
<1>5. ExistsBijection(From(p, s), DOMAIN Queue(p, s))
    BY <1>4 DEF ExistsBijection
<1> QED
    BY <1>1, <1>5, FS_Bijection

(* What an addition makes room for: the pool without the transaction it    *)
(* replaces, if any.                                                       *)
Kept(p, tx) ==
    IF Occupied(p, tx) THEN Removed(p, {Queue(p, tx.sender)[tx.nonce]}) ELSE p

(* Without the transaction it replaces, a pool that admits another has a   *)
(* free slot for it and room for one more.                                 *)
LEMMA KeptHasRoom ==
    ASSUME NEW p, NEW tx \in Tx, NEW acc, Sound(p), Limited(p), Admissible(p, tx, acc)
    PROVE  /\ Sound(Kept(p, tx)) /\ Limited(Kept(p, tx))
           /\ Pooled(Kept(p, tx)) \subseteq Pooled(p)
           /\ Kept(p, tx).sequence = p.sequence
           /\ tx \notin Pooled(Kept(p, tx)) /\ ~ Occupied(Kept(p, tx), tx)
           /\ Cardinality(From(Kept(p, tx), tx.sender)) < MaxPerSender
<1>1. tx \notin Pooled(p) /\ tx.sender \in Sender
    BY PoolAssumption DEF Admissible
<1>2. CASE ~ Occupied(p, tx)
    <2>1. Cardinality(DOMAIN Queue(p, tx.sender)) < MaxPerSender
        BY <1>2 DEF Admissible
    <2> QED
        BY <1>1, <1>2, <2>1, QueueCount DEF Kept
<1>3. CASE Occupied(p, tx)
    <2> DEFINE e == Queue(p, tx.sender)[tx.nonce]
               r == Removed(p, {e})
    <2>1. Kept(p, tx) = r
        BY <1>3 DEF Kept
    <2>2. e \in Pooled(p) /\ e.sender = tx.sender /\ e.nonce = tx.nonce
        BY <1>3 DEF Occupied, Queue, Sound, Agree
    <2> HIDE DEF e
    <2>3. Sound(r) /\ Pooled(r) = Pooled(p) \ {e} /\ r.sequence = p.sequence
        BY RemovedSound
    <2> HIDE DEF r
    <2>4. ~ Occupied(r, tx)
        <3> SUFFICES ASSUME Occupied(r, tx) PROVE FALSE
            OBVIOUS
        <3>1. PICK t \in Pooled(r) : t.sender = tx.sender /\ t.nonce = tx.nonce
            BY <2>3 DEF Occupied, Queue, Sound, Agree
        <3>2. t \in Pooled(p) /\ t # e
            BY <2>3, <3>1
        <3> QED
            BY <2>2, <3>1, <3>2 DEF Sound, Agree
    <2>5. Cardinality(Pooled(p)) \in Nat /\ Cardinality(Pooled(r)) <= Cardinality(Pooled(p))
        BY <2>2, <2>3, FS_CardinalityType, FS_Subset DEF Sound
    <2>6. \A s \in Sender : Cardinality(From(r, s)) <= Cardinality(From(p, s))
        <3> SUFFICES ASSUME NEW s \in Sender
                     PROVE  Cardinality(From(r, s)) <= Cardinality(From(p, s))
            OBVIOUS
        <3>1. From(r, s) \in SUBSET From(p, s)
            BY <2>3 DEF From
        <3> QED
            BY <3>1, QueueCount, FS_Subset
    <2>7. From(r, tx.sender) = From(p, tx.sender) \ {e} /\ e \in From(p, tx.sender)
        BY <2>2, <2>3 DEF From
    <2>8. \A s \in Sender : /\ Cardinality(From(p, s)) \in Nat
                             /\ Cardinality(From(r, s)) \in Nat
        BY <2>3, QueueCount, FS_CardinalityType
    <2>9. Cardinality(From(r, tx.sender)) = Cardinality(From(p, tx.sender)) - 1
        BY <2>7, QueueCount, FS_RemoveElement
    <2>10. Cardinality(Pooled(r)) \in Nat
        BY <2>3, FS_CardinalityType DEF Sound
    <2>11. MaxTransactions \in Nat /\ MaxPerSender \in Nat
        BY PoolAssumption
    <2>12. Limited(r)
        BY <2>5, <2>6, <2>8, <2>10, <2>11 DEF Limited
    <2>13. Cardinality(From(r, tx.sender)) < MaxPerSender
        BY <1>1, <2>8, <2>9, <2>11 DEF Limited
    <2> QED
        BY <1>1, <2>1, <2>3, <2>4, <2>12, <2>13
<1> QED
    BY <1>2, <1>3

(* add keeps a pool sound and within its limits. *)
LEMMA AddedSound ==
    ASSUME NEW p, NEW tx \in Tx, NEW fee \in Nat, NEW acc,
           Sound(p), Limited(p), Admissible(p, tx, acc)
    PROVE  /\ Sound(Added(p, tx, fee)) /\ Limited(Added(p, tx, fee))
           /\ Pooled(Added(p, tx, fee)) \subseteq Pooled(p) \cup {tx}
<1> DEFINE kept == Kept(p, tx)
           ins  == Inserted(kept, tx)
           r    == Fitted(ins, fee)
<1>1. /\ Sound(kept) /\ Limited(kept) /\ Pooled(kept) \subseteq Pooled(p)
      /\ tx \notin Pooled(kept) /\ ~ Occupied(kept, tx)
      /\ Cardinality(From(kept, tx.sender)) < MaxPerSender
    BY KeptHasRoom
<1>2. Added(p, tx, fee) = r
    BY DEF Added, Kept
<1> HIDE DEF kept
<1>3. Sound(ins) /\ Pooled(ins) = Pooled(kept) \cup {tx}
    BY <1>1, InsertedSound
<1> HIDE DEF ins
<1>4. MaxTransactions \in Nat /\ MaxPerSender \in Nat /\ tx.sender \in Sender
    BY PoolAssumption
<1>5. Cardinality(Pooled(ins)) <= MaxTransactions + 1
    <2>1. Cardinality(Pooled(ins)) = Cardinality(Pooled(kept)) + 1
        BY <1>1, <1>3, FS_AddElement DEF Sound
    <2>2. Cardinality(Pooled(kept)) \in Nat
        BY <1>1, FS_CardinalityType DEF Sound
    <2> QED
        BY <1>1, <1>4, <2>1, <2>2 DEF Limited
<1>6. \A s \in Sender : Cardinality(From(ins, s)) <= MaxPerSender
    <2> SUFFICES ASSUME NEW s \in Sender PROVE Cardinality(From(ins, s)) <= MaxPerSender
        OBVIOUS
    <2>1. CASE s = tx.sender
        <3>1. From(ins, s) = From(kept, s) \cup {tx} /\ tx \notin From(kept, s)
            BY <1>1, <1>3, <2>1 DEF From
        <3>2. Cardinality(From(ins, s)) = Cardinality(From(kept, s)) + 1
            BY <1>1, <3>1, QueueCount, FS_AddElement
        <3>3. Cardinality(From(kept, s)) \in Nat
            BY <1>1, QueueCount, FS_CardinalityType
        <3> QED
            BY <1>1, <1>4, <2>1, <3>2, <3>3
    <2>2. CASE s # tx.sender
        BY <1>1, <1>3, <2>2 DEF From, Limited
    <2> QED
        BY <2>1, <2>2
<1>7. /\ Sound(r) /\ Pooled(r) \subseteq Pooled(ins)
      /\ Cardinality(Pooled(r)) <= MaxTransactions
    BY <1>3, <1>5, FittedSound
<1> HIDE DEF r
<1>8. \A s \in Sender : Cardinality(From(r, s)) <= MaxPerSender
    <2> SUFFICES ASSUME NEW s \in Sender PROVE Cardinality(From(r, s)) <= MaxPerSender
        OBVIOUS
    <2>1. From(r, s) \in SUBSET From(ins, s)
        BY <1>7 DEF From
    <2>2. Cardinality(From(r, s)) <= Cardinality(From(ins, s))
        BY <1>3, <2>1, QueueCount, FS_Subset
    <2>3. Cardinality(From(r, s)) \in Nat /\ Cardinality(From(ins, s)) \in Nat
        BY <1>3, <1>7, QueueCount, FS_CardinalityType
    <2> QED
        BY <1>4, <1>6, <2>2, <2>3
<1> QED
    BY <1>1, <1>2, <1>3, <1>7, <1>8 DEF Limited

(* remove keeps a pool within its limits. *)
LEMMA RemovedLimited ==
    ASSUME NEW p, NEW gone, Sound(p), Limited(p)
    PROVE  Limited(Removed(p, gone))
<1> DEFINE r == Removed(p, gone)
<1>1. Sound(r) /\ Pooled(r) = Pooled(p) \ gone
    BY RemovedSound
<1> HIDE DEF r
<1>2. MaxTransactions \in Nat /\ MaxPerSender \in Nat
    BY PoolAssumption
<1>3. Cardinality(Pooled(r)) <= Cardinality(Pooled(p))
    BY <1>1, FS_Subset DEF Sound
<1>4. Cardinality(Pooled(r)) \in Nat /\ Cardinality(Pooled(p)) \in Nat
    BY <1>1, FS_CardinalityType DEF Sound
<1>5. \A s \in Sender : Cardinality(From(r, s)) <= MaxPerSender
    <2> SUFFICES ASSUME NEW s \in Sender PROVE Cardinality(From(r, s)) <= MaxPerSender
        OBVIOUS
    <2>1. From(r, s) \in SUBSET From(p, s)
        BY <1>1 DEF From
    <2>2. Cardinality(From(r, s)) <= Cardinality(From(p, s))
        BY <2>1, QueueCount, FS_Subset
    <2>3. Cardinality(From(r, s)) \in Nat /\ Cardinality(From(p, s)) \in Nat
        BY <1>1, QueueCount, FS_CardinalityType
    <2> QED
        BY <1>2, <2>2, <2>3 DEF Limited
<1> QED
    BY <1>2, <1>3, <1>4, <1>5 DEF Limited, r

-----------------------------------------------------------------------------
(* The inductive invariant. *)
IInv ==
    /\ TypeOK
    /\ Sound(pool)
    /\ Limited(pool)
    /\ NothingObsolete

(* An empty pool is sound.                                                 *)
LEMMA InitIInv == Init => IInv
<1> SUFFICES ASSUME Init PROVE IInv
    OBVIOUS
<1>1. pool = EmptyPool /\ Pooled(pool) = {}
    BY DEF Init, EmptyPool, Pooled
<1>2. Typed(pool) /\ Agree(pool) /\ Distinct(pool)
    BY <1>1 DEF EmptyPool, Typed, Agree, Distinct
<1>3. IsFiniteSet(Pooled(pool)) /\ Cardinality(Pooled(pool)) = 0
    BY <1>1, FS_EmptySet
<1>4. \A s \in Sender : From(pool, s) = {}
    BY <1>1 DEF From
<1>5. Limited(pool)
    BY <1>3, <1>4, FS_EmptySet, PoolAssumption DEF Limited
<1>6. base_fee \in BaseFee /\ account \in [Sender -> [nonce : Nonce \cup {0}, balance : Balance]]
    BY DEF Init
<1> QED
    BY <1>1, <1>2, <1>3, <1>5, <1>6 DEF IInv, TypeOK, Sound, NothingObsolete

(* add keeps the invariant.                                                *)
LEMMA AddStep == ASSUME IInv, NEW tx \in Tx, Add(tx) PROVE IInv'
<1>1. base_fee \in Nat
    BY PoolAssumption DEF IInv, TypeOK
<1>2. /\ Sound(pool') /\ Limited(pool')
      /\ Pooled(pool') \subseteq Pooled(pool) \cup {tx}
    BY <1>1, AddedSound DEF IInv, Add
<1>3. tx.nonce >= account[tx.sender].nonce
    BY DEF Add, Admissible
<1>4. base_fee' = base_fee /\ account' = account
    BY DEF Add
<1>5. NothingObsolete'
    BY <1>2, <1>3, <1>4 DEF IInv, NothingObsolete
<1>6. TypeOK'
    BY <1>2, <1>4 DEF IInv, TypeOK, Sound
<1> QED
    BY <1>2, <1>5, <1>6 DEF IInv

(* A refused replacement moves the sequence only, and keeps the invariant. *)
LEMMA RefuseStep == ASSUME IInv, NEW tx \in Tx, RefuseReplacement(tx) PROVE IInv'
<1>1. DOMAIN pool = {"by_hash", "by_sender", "sequence"} /\ pool.sequence \in Nat
    BY DEF IInv, Sound, Typed
<1>2. /\ DOMAIN pool' = {"by_hash", "by_sender", "sequence"}
      /\ pool'.by_hash = pool.by_hash /\ pool'.by_sender = pool.by_sender
      /\ pool'.sequence = pool.sequence + 1
      /\ base_fee' = base_fee /\ account' = account
    BY <1>1 DEF RefuseReplacement
<1>3. Pooled(pool') = Pooled(pool)
    BY <1>2 DEF Pooled
<1>4. Typed(pool')
    BY <1>1, <1>2, <1>3 DEF IInv, Sound, Typed
<1>5. Agree(pool') /\ Distinct(pool') /\ IsFiniteSet(Pooled(pool'))
    BY <1>2, <1>3 DEF IInv, Sound, Agree, Distinct
<1>6. Limited(pool')
    BY <1>3 DEF IInv, Limited, From
<1>7. NothingObsolete' /\ TypeOK'
    BY <1>2, <1>3, <1>4 DEF IInv, NothingObsolete, TypeOK
<1> QED
    BY <1>4, <1>5, <1>6, <1>7 DEF IInv, Sound

(* What an advance removes and prunes leaves nothing obsolete: the nonces of *)
(* the new state decide, whichever way they moved.                         *)
LEMMA AdvanceStep ==
    ASSUME IInv, NEW executed, NEW fee \in BaseFee,
           NEW acc \in [Sender -> [nonce : Nonce, balance : Balance]],
           Advance(executed, fee, acc)
    PROVE  IInv'
<1> DEFINE q == Removed(pool, executed)
           stale == {tx \in Pooled(q) : tx.nonce < [s \in Sender |-> acc[s].nonce][tx.sender]}
<1>1. Sound(q) /\ Limited(q)
    BY RemovedSound, RemovedLimited DEF IInv
<1>2. pool' = Removed(q, stale)
    BY DEF Advance, Pruned
<1>3. /\ Sound(pool') /\ Limited(pool') /\ Pooled(pool') = Pooled(q) \ stale
    <2> HIDE DEF q, stale
    <2> QED
        BY <1>1, <1>2, RemovedSound, RemovedLimited
<1>4. base_fee' = fee /\ account' = acc
    BY DEF Advance
<1>5. NothingObsolete'
    <2> SUFFICES ASSUME NEW tx \in Pooled(pool') PROVE tx.nonce >= acc[tx.sender].nonce
        BY <1>4 DEF NothingObsolete
    <2>1. tx \in Tx /\ tx \in Pooled(q) /\ tx \notin stale
        BY <1>3 DEF Sound, Typed
    <2>2. tx.sender \in Sender /\ tx.nonce \in Nat /\ acc[tx.sender].nonce \in Nat
        BY <2>1, PoolAssumption
    <2> QED
        BY <2>1, <2>2
<1>6. TypeOK'
    BY <1>3, <1>4 DEF TypeOK, Sound
<1> QED
    BY <1>3, <1>5, <1>6 DEF IInv

(* Every step keeps the invariant.                                         *)
LEMMA IInvStep == IInv /\ [Next]_vars => IInv'
<1> SUFFICES ASSUME IInv, [Next]_vars PROVE IInv'
    OBVIOUS
<1>1. CASE \E tx \in Tx : Add(tx) \/ RefuseReplacement(tx)
    BY <1>1, AddStep, RefuseStep
<1>2. CASE \E executed \in SUBSET Pooled(pool), fee \in BaseFee,
              acc \in [Sender -> [nonce : Nonce, balance : Balance]] :
              Advance(executed, fee, acc)
    BY <1>2, AdvanceStep
<1>3. CASE UNCHANGED vars
    BY <1>3 DEF vars, IInv, TypeOK, NothingObsolete
<1> QED
    BY <1>1, <1>2, <1>3 DEF Next

(* The pool is sound, within its limits and free of obsolete transactions  *)
(* after any additions, refusals and advances: the invariant the properties *)
(* of add, remove, prune and evict_worst follow from.                      *)
THEOREM PoolInvariance == Spec => []IInv
BY InitIInv, IInvStep, PTL DEF Spec

(* The pool's fields have their types, whatever is submitted and whatever  *)
(* the chain does.                                                         *)
THEOREM TypeCorrect == Spec => []TypeOK
<1>1. IInv => TypeOK
    BY DEF IInv
<1> QED
    BY <1>1, PoolInvariance, PTL

(* by_hash and by_sender describe the same transactions after any          *)
(* additions, replacements, evictions, removals and prunes.                *)
THEOREM IndexesCorrect == Spec => []IndexesAgree
<1>1. IInv => IndexesAgree
    BY DEF IInv, Sound, IndexesAgree
<1> QED
    BY <1>1, PoolInvariance, PTL

(* max_transactions and max_per_sender are never exceeded.                 *)
THEOREM LimitsCorrect == Spec => []LimitsHold
<1>1. IInv => LimitsHold
    BY DEF IInv, LimitsHold
<1> QED
    BY <1>1, PoolInvariance, PTL

(* No two pooled transactions share an arrival number.                     *)
THEOREM ArrivalsCorrect == Spec => []ArrivalsAreDistinct
<1>1. IInv => ArrivalsAreDistinct
    BY DEF IInv, Sound, ArrivalsAreDistinct
<1> QED
    BY <1>1, PoolInvariance, PTL

(* After every advance, forward or back, nothing obsolete is pooled.       *)
THEOREM NothingObsoleteStays == Spec => []NothingObsolete
<1>1. IInv => NothingObsolete
    BY DEF IInv
<1> QED
    BY <1>1, PoolInvariance, PTL

-----------------------------------------------------------------------------
(* A tip is a number.                                                      *)
LEMMA TipType ==
    ASSUME NEW tx, tx \in Tx, NEW fee, fee \in Nat
    PROVE  EffectiveTip(tx, fee) \in Int
<1>1. tx.max_fee \in Nat /\ tx.priority \in Nat
    BY PoolAssumption
<1> QED
    BY <1>1 DEF EffectiveTip

(* What an addition displaces: the occupant of its slot, which pays less,  *)
(* or the worst of a pool that is too full, which nobody left pays less    *)
(* than.                                                                   *)
LEMMA AddDisplaces ==
    ASSUME IInv, NEW tx \in Tx, Add(tx), NEW out \in Pooled(pool) \ Pooled(pool')
    PROVE  \/ \E other \in Pooled(pool') \ Pooled(pool) :
                  /\ other.sender = out.sender /\ other.nonce = out.nonce
                  /\ EffectiveTip(other, base_fee) > EffectiveTip(out, base_fee)
           \/ \A other \in Pooled(pool') :
                  EffectiveTip(other, base_fee) >= EffectiveTip(out, base_fee)
<1> DEFINE kept == Kept(pool, tx)
           full == Inserted(kept, tx)
<1>1. /\ base_fee \in Nat /\ Sound(pool) /\ Limited(pool)
      /\ Admissible(pool, tx, account[tx.sender]) /\ Outbids(pool, tx, base_fee)
    BY PoolAssumption DEF IInv, TypeOK, Add
<1>2. /\ Sound(kept) /\ tx \notin Pooled(kept) /\ ~ Occupied(kept, tx)
      /\ Cardinality(Pooled(kept)) <= MaxTransactions
    BY <1>1, KeptHasRoom DEF Limited
<1>3. pool' = Fitted(full, base_fee)
    BY DEF Add, Added, Kept
<1> HIDE DEF kept
<1>4. Sound(full) /\ Pooled(full) = Pooled(kept) \cup {tx}
    BY <1>2, InsertedSound
<1>5. /\ MaxTransactions \in Nat /\ Cardinality(Pooled(kept)) \in Nat
      /\ Cardinality(Pooled(full)) = Cardinality(Pooled(kept)) + 1
    BY <1>2, <1>4, PoolAssumption, FS_CardinalityType, FS_AddElement DEF Sound
<1> HIDE DEF full
<1>6. CASE Occupied(pool, tx)
    <2> DEFINE old == Queue(pool, tx.sender)[tx.nonce]
    <2>1. old \in Pooled(pool) /\ old.sender = tx.sender /\ old.nonce = tx.nonce
        BY <1>1, <1>6 DEF Occupied, Queue, Sound, Agree
    <2>2. EffectiveTip(tx, base_fee) > EffectiveTip(old, base_fee)
        BY <1>1, <1>6 DEF Outbids
    <2> HIDE DEF old
    <2>3. kept = Removed(pool, {old})
        BY <1>6 DEF kept, Kept, old
    <2>4. Pooled(kept) = Pooled(pool) \ {old}
        BY <1>1, <2>3, RemovedSound
    <2>5. Cardinality(Pooled(kept)) = Cardinality(Pooled(pool)) - 1
        BY <1>1, <2>1, <2>4, FS_RemoveElement DEF Sound
    <2>6. Cardinality(Pooled(full)) <= MaxTransactions
        BY <1>1, <1>5, <2>5, FS_CardinalityType DEF Limited, Sound
    <2>7. pool' = full
        BY <1>3, <1>5, <2>6 DEF Fitted
    <2>8. out = old /\ tx \in Pooled(pool') \ Pooled(pool)
        BY <1>1, <1>4, <2>4, <2>7 DEF Admissible
    <2> QED
        BY <2>1, <2>2, <2>8
<1>7. CASE ~ Occupied(pool, tx)
    <2> DEFINE worst == Worst(full, base_fee)
    <2>1. Pooled(kept) = Pooled(pool)
        BY <1>7 DEF kept, Kept
    <2>2. pool' = Removed(full, {worst})
        BY <1>3, <1>4, <2>1 DEF Fitted, EvictWorst
    <2>3. /\ Pooled(full) # {}
          /\ \A other \in Pooled(full) \ {worst} : Worse(full, base_fee, worst, other)
        BY <1>1, <1>4, WorstExists
    <2> HIDE DEF worst
    <2>4. Pooled(pool') = Pooled(full) \ {worst}
        BY <1>4, <2>2, RemovedSound
    <2>5. out = worst /\ out \in Pooled(full)
        BY <1>4, <2>1, <2>4
    <2>6. ASSUME NEW other \in Pooled(pool')
          PROVE  EffectiveTip(other, base_fee) >= EffectiveTip(out, base_fee)
        <3>1. Worse(full, base_fee, out, other) /\ other \in Tx /\ out \in Tx
            BY <1>4, <2>3, <2>4, <2>5 DEF Sound, Typed
        <3>2. EffectiveTip(other, base_fee) \in Int /\ EffectiveTip(out, base_fee) \in Int
            BY <1>1, <3>1, TipType
        <3> QED
            BY <3>1, <3>2 DEF Worse
    <2> QED
        BY <2>6
<1> QED
    BY <1>6, <1>7

(* An advance that leaves the state as it was displaces nothing: what it   *)
(* removes the state would have passed.                                    *)
LEMMA AdvanceDisplaces ==
    ASSUME IInv, NEW executed, NEW fee \in BaseFee,
           NEW acc \in [Sender -> [nonce : Nonce, balance : Balance]],
           Advance(executed, fee, acc), account' = account
    PROVE  Pooled(pool) \subseteq Pooled(pool')
<1> DEFINE q == Removed(pool, executed)
           stale == {tx \in Pooled(q) : tx.nonce < [s \in Sender |-> acc[s].nonce][tx.sender]}
<1> SUFFICES ASSUME NEW tx \in Pooled(pool) PROVE tx \in Pooled(pool')
    OBVIOUS
<1>1. tx.nonce >= acc[tx.sender].nonce
    BY DEF IInv, NothingObsolete, Advance
<1>2. tx \in Tx
    BY DEF IInv, Sound, Typed
<1>3. tx.sender \in Sender /\ tx.nonce \in Nat
    BY <1>2, PoolAssumption
<1>4. acc[tx.sender].nonce \in Nat
    BY <1>3, PoolAssumption
<1>5. tx \notin executed
    BY <1>1, <1>3, <1>4 DEF Advance
<1>6. Sound(q) /\ Pooled(q) = Pooled(pool) \ executed
    BY RemovedSound DEF IInv
<1>7. pool' = Removed(q, stale)
    BY DEF Advance, Pruned
<1>8. tx \in Pooled(q) \ stale
    BY <1>1, <1>3, <1>4, <1>5, <1>6
<1> HIDE DEF q, stale
<1> QED
    BY <1>6, <1>7, <1>8, RemovedSound

(* While the chain stands still a transaction leaves the pool only for a   *)
(* better one: the replacement of its slot, or, by eviction, when no one   *)
(* left pays less.                                                         *)
THEOREM DisplacedByBetterOnly == Spec => DisplacedByBetter
<1> DEFINE Displaces == UNCHANGED <<base_fee, account>> =>
           \A tx \in Pooled(pool) \ Pooled(pool') :
               \/ \E other \in Pooled(pool') \ Pooled(pool) :
                      /\ other.sender = tx.sender /\ other.nonce = tx.nonce
                      /\ EffectiveTip(other, base_fee) > EffectiveTip(tx, base_fee)
               \/ \A other \in Pooled(pool') :
                      EffectiveTip(other, base_fee) >= EffectiveTip(tx, base_fee)
<1>1. IInv /\ [Next]_vars => [Displaces]_vars
    <2> SUFFICES ASSUME IInv, Next PROVE Displaces
        OBVIOUS
    <2>1. ASSUME NEW tx \in Tx, Add(tx) PROVE Displaces
        BY <2>1, AddDisplaces
    <2>2. ASSUME NEW tx \in Tx, RefuseReplacement(tx) PROVE Displaces
        <3>1. pool'.by_hash = pool.by_hash
            BY <2>2 DEF RefuseReplacement, IInv, Sound, Typed
        <3> QED
            BY <3>1 DEF Pooled
    <2>3. ASSUME NEW executed, NEW fee \in BaseFee,
                 NEW acc \in [Sender -> [nonce : Nonce, balance : Balance]],
                 Advance(executed, fee, acc)
          PROVE  Displaces
        BY <2>3, AdvanceDisplaces
    <2> QED
        BY <2>1, <2>2, <2>3 DEF Next
<1> QED
    BY <1>1, PoolInvariance, PTL DEF Spec, DisplacedByBetter


-----------------------------------------------------------------------------
(* best_transactions.  A selection so far: transactions of the pool, each  *)
(* once, and with each every earlier one of its sender.                    *)
Selection(p, out) ==
    /\ out \in Seq(Pooled(p))
    /\ \A i, j \in 1..Len(out) : out[i] = out[j] => i = j
    /\ \A tx \in ToSet(out) : \A n \in DOMAIN p.by_sender[tx.sender] :
           n < tx.nonce => p.by_sender[tx.sender][n] \in ToSet(out)

(* Each sender's transactions come in the order of their nonces.           *)
InNonceOrder(out) ==
    \A i, j \in 1..Len(out) :
        i < j /\ out[i].sender = out[j].sender => out[i].nonce < out[j].nonce

SelectionRun(p, fee, limit, f) ==
    f = [n \in 0..limit |-> IF n = 0 THEN <<>> ELSE Taken(p, fee, f[n - 1])]

(* Induction over the naturals, as a fact about a set of them.             *)
LEMMA Counting ==
    ASSUME NEW S, 0 \in S, \A n \in Nat : n \in S => n + 1 \in S
    PROVE  Nat \subseteq S
<1>1. SUFFICES ASSUME Nat \ S # {} PROVE FALSE
    OBVIOUS
<1>2. IsWellFoundedOn(OpToRel(<, Nat), Nat)
    BY NatLessThanWellFounded
<1>3. PICK n \in Nat \ S : \A m \in Nat \ S : ~ (<<m, n>> \in OpToRel(<, Nat))
    BY <1>1, <1>2, WFMin, Nat \ S \subseteq Nat
<1>4. \A m \in Nat \ S : ~ (m < n)
    BY <1>3 DEF OpToRel
<1>5. n - 1 \in Nat
    OBVIOUS
<1> QED
    BY <1>4, <1>5

(* The loop has a run, and what it returns is where the run ends.          *)
LEMMA SelectionRuns ==
    ASSUME NEW p, NEW fee, NEW limit \in Nat
    PROVE  \E f : SelectionRun(p, fee, limit, f) /\ BestTransactions(p, fee, limit) = f[limit]
<1> DEFINE To(k, f) == f = [n \in 0..k |-> IF n = 0 THEN <<>> ELSE Taken(p, fee, f[n - 1])]
           G == {k \in Nat : \E f : To(k, f)}
<1>1. 0 \in G
  <2> DEFINE g == [n \in 0..0 |-> <<>>]
  <2>1. g = [n \in 0..0 |-> IF n = 0 THEN <<>> ELSE Taken(p, fee, g[n - 1])]
    OBVIOUS
  <2> QED
    BY <2>1
<1>2. ASSUME NEW k \in Nat, k \in G PROVE k + 1 \in G
  <2>1. PICK f : To(k, f)
    BY <1>2
  <2> DEFINE g == [n \in 0..(k + 1) |-> IF n = 0 THEN <<>> ELSE Taken(p, fee, f[n - 1])]
  <2>2. \A n \in 0..k : g[n] = f[n]
    BY <2>1
  <2>3. \A n \in 0..(k + 1) : n # 0 => n - 1 \in 0..k
    OBVIOUS
  <2>4. g = [n \in 0..(k + 1) |-> IF n = 0 THEN <<>> ELSE Taken(p, fee, g[n - 1])]
    <3>1. \A n \in 0..(k + 1) : n # 0 => g[n - 1] = f[n - 1]
        BY <2>2, <2>3
    <3>2. g = [n \in 0..(k + 1) |-> IF n = 0 THEN <<>> ELSE Taken(p, fee, f[n - 1])]
        OBVIOUS
    <3> HIDE DEF g
    <3> QED
        BY <3>1, <3>2
  <2>5. \E h : To(k + 1, h)
    <3>1. To(k + 1, g)
        BY <2>4
    <3> HIDE DEF g, To
    <3> QED
        BY <3>1
  <2> QED
    BY <2>5
<1>3. \E f : SelectionRun(p, fee, limit, f)
  <2>1. Nat \subseteq G
    <3> HIDE DEF G
    <3> QED
        BY <1>1, <1>2, Counting
  <2> QED
    BY <2>1 DEF SelectionRun
<1> DEFINE Run(f) == SelectionRun(p, fee, limit, f)
           chosen == CHOOSE f : Run(f)
<1>4. Run(chosen)
  <2> HIDE DEF Run
  <2>1. \E f : Run(f)
    BY <1>3 DEF Run
  <2> QED
    BY <2>1
<1>5. BestTransactions(p, fee, limit) = chosen[limit]
    BY DEF BestTransactions, SelectionRun
<1> QED
    BY <1>4, <1>5

(* While something is left, somebody has a next transaction, and of those  *)
(* one is best.                                                            *)
LEMMA BestExists ==
    ASSUME NEW p, NEW fee \in Nat, Sound(p), NEW out, Pooled(p) \ ToSet(out) # {}
    PROVE  Best(p, fee, out) \in Candidates(p, out)
<1>1. PICK tx \in Pooled(p) \ ToSet(out) : TRUE
    OBVIOUS
<1> DEFINE queue == p.by_sender[tx.sender]
           Open == {n \in DOMAIN queue : queue[n] \notin ToSet(out)}
<1>2. /\ tx.sender \in DOMAIN p.by_sender /\ tx.nonce \in DOMAIN queue
      /\ queue[tx.nonce] = tx /\ DOMAIN queue \subseteq Nat
    BY DEF Sound, Agree, Typed
<1>3. \A n \in DOMAIN queue : queue[n] \in Pooled(p) /\ queue[n].sender = tx.sender /\ queue[n].nonce = n
    BY <1>2 DEF Sound, Agree
<1>4. Open \subseteq Nat /\ Open # {}
    BY <1>1, <1>2
<1>5. PICK n \in Open : \A m \in Open : ~ (m < n)
  <2> HIDE DEF Open
  <2>1. IsWellFoundedOn(OpToRel(<, Nat), Nat)
    BY NatLessThanWellFounded
  <2>2. \E n \in Open : \A m \in Open : ~ (<<m, n>> \in OpToRel(<, Nat))
    BY <1>4, <2>1, WFMin
  <2> QED
    BY <1>4, <2>2 DEF OpToRel
<1>6. queue[n] \in Candidates(p, out)
    BY <1>3, <1>5 DEF Candidates
<1> DEFINE C == Candidates(p, out)
           Better == {ba \in Pooled(p) \X Pooled(p) : <<ba[2], ba[1]>> \in WorseIn(p, fee)}
<1>7. C \subseteq Pooled(p) /\ IsFiniteSet(C)
  <2>1. C \subseteq Pooled(p)
    BY DEF Candidates
  <2> QED
    BY <2>1, FS_Subset DEF Sound
<1>8. StrictOrder(WorseIn(p, fee), Pooled(p))
    BY WorseIsOrder
<1>9. \A a, b \in Pooled(p) : <<a, b>> \in Better <=> <<b, a>> \in WorseIn(p, fee)
    OBVIOUS
<1> HIDE DEF C, Better
<1>10. StrictOrder(Better, C)
    BY <1>7, <1>8, <1>9 DEF StrictOrder
<1>11. C # {}
    BY <1>6 DEF C
<1>12. \E a \in C : \A b \in C \ {a} : <<a, b>> \in Better /\ <<b, a>> \notin Better
    BY <1>7, <1>10, <1>11, FirstExists
<1>13. \E a \in C : \A b \in C \ {a} : <<a, b>> \notin WorseIn(p, fee)
    BY <1>7, <1>9, <1>12
<1>14. \E a \in C : \A b \in C \ {a} : ~ Worse(p, fee, a, b)
    BY <1>7, <1>13 DEF WorseIn
<1> QED
    BY <1>14 DEF C, Best

(* One more turn of the loop. *)
LEMMA SelectionGrows ==
    ASSUME NEW p, NEW fee \in Nat, Sound(p), NEW out, Selection(p, out), InNonceOrder(out),
           Pooled(p) \ ToSet(out) # {}
    PROVE  LET new == Taken(p, fee, out)
           IN  Selection(p, new) /\ InNonceOrder(new) /\ Len(new) = Len(out) + 1
<1> DEFINE c == Best(p, fee, out)
           new == Append(out, c)
<1>1. c \in Candidates(p, out)
    BY BestExists
<1>2. Taken(p, fee, out) = new
    BY <1>1 DEF Taken
<1>3. /\ c \in Pooled(p) /\ c \notin ToSet(out)
      /\ \A n \in DOMAIN p.by_sender[c.sender] :
             n < c.nonce => p.by_sender[c.sender][n] \in ToSet(out)
    BY <1>1 DEF Candidates
<1>4. out \in Seq(Pooled(p)) /\ Len(out) \in Nat
    BY DEF Selection
<1> HIDE DEF c
<1>5. /\ new \in Seq(Pooled(p)) /\ Len(new) = Len(out) + 1
      /\ \A i \in 1..Len(out) : new[i] = out[i]
      /\ new[Len(out) + 1] = c
    BY <1>3, <1>4
<1> HIDE DEF new
<1>6. ToSet(out) = {out[i] : i \in 1..Len(out)} /\ ToSet(new) = {new[i] : i \in 1..Len(new)}
    BY <1>4, <1>5 DEF ToSet
<1>7. ToSet(new) = ToSet(out) \cup {c}
    BY <1>4, <1>5, <1>6
<1>8. \A i \in 1..Len(out) : out[i] \in ToSet(out) /\ out[i] # c
    BY <1>3, <1>6
<1>9. Selection(p, new)
  <2>1. \A i, j \in 1..Len(new) : new[i] = new[j] => i = j
    BY <1>4, <1>5, <1>8 DEF Selection
  <2>2. \A tx \in ToSet(new) : \A n \in DOMAIN p.by_sender[tx.sender] :
            n < tx.nonce => p.by_sender[tx.sender][n] \in ToSet(new)
    BY <1>3, <1>7 DEF Selection
  <2> QED
    BY <1>5, <2>1, <2>2 DEF Selection
<1>10. ASSUME NEW i \in 1..Len(out), out[i].sender = c.sender PROVE out[i].nonce < c.nonce
  <2> DEFINE e == out[i]
  <2>1. e \in Pooled(p) /\ e # c /\ e \in ToSet(out)
    BY <1>4, <1>8
  <2>2. /\ c.sender \in DOMAIN p.by_sender
        /\ c.nonce \in DOMAIN p.by_sender[c.sender] /\ p.by_sender[c.sender][c.nonce] = c
        /\ e.nonce \in DOMAIN p.by_sender[c.sender] /\ p.by_sender[c.sender][e.nonce] = e
        /\ DOMAIN p.by_sender[c.sender] \subseteq Nat
    BY <1>3, <1>10, <2>1 DEF Sound, Agree, Typed
  <2>3. ~ (c.nonce < e.nonce)
    BY <1>3, <1>10, <2>1, <2>2 DEF Selection
  <2>4. c.nonce # e.nonce
    BY <2>1, <2>2
  <2> QED
    BY <2>2, <2>3, <2>4
<1>11. InNonceOrder(new)
  <2> SUFFICES ASSUME NEW i \in 1..Len(new), NEW j \in 1..Len(new),
                      i < j, new[i].sender = new[j].sender
               PROVE  new[i].nonce < new[j].nonce
    BY DEF InNonceOrder
  <2>1. i \in 1..Len(out)
    BY <1>4, <1>5
  <2>2. CASE j = Len(out) + 1
    BY <1>5, <1>10, <2>1, <2>2
  <2>3. CASE j \in 1..Len(out)
    BY <1>5, <2>1, <2>3 DEF InNonceOrder
  <2> QED
    BY <1>4, <1>5, <2>2, <2>3
<1> QED
    BY <1>2, <1>5, <1>9, <1>11

(* A selection holds as many transactions as it is long.                   *)
LEMMA SelectionSize ==
    ASSUME NEW p, NEW out, Selection(p, out)
    PROVE  IsFiniteSet(ToSet(out)) /\ Cardinality(ToSet(out)) = Len(out) /\ ToSet(out) \subseteq Pooled(p)
<1>1. out \in Seq(Pooled(p)) /\ Len(out) \in Nat
    BY DEF Selection
<1>2. ToSet(out) = {out[i] : i \in 1..Len(out)} /\ DOMAIN out = 1..Len(out)
    BY <1>1 DEF ToSet
<1>3. out \in Bijection(1..Len(out), ToSet(out))
    BY <1>1, <1>2 DEF Selection, Bijection, Injection, Surjection, IsInjective
<1>4. IsFiniteSet(1..Len(out)) /\ Cardinality(1..Len(out)) = Len(out)
    BY <1>1, FS_Interval
<1>5. ToSet(out) \subseteq Pooled(p)
    BY <1>1, <1>2
<1>6. ExistsBijection(1..Len(out), ToSet(out))
    BY <1>3 DEF ExistsBijection
<1> QED
    BY <1>4, <1>5, <1>6, FS_Bijection

(* With room for everything the whole pool is selected, in order.          *)
LEMMA WholePoolSelected ==
    ASSUME NEW p, NEW fee \in Nat, Sound(p)
    PROVE  LET best == BestTransactions(p, fee, Cardinality(Pooled(p)))
           IN  Selection(p, best) /\ InNonceOrder(best) /\ Len(best) = Cardinality(Pooled(p))
<1> DEFINE N == Cardinality(Pooled(p))
<1>1. N \in Nat
    BY FS_CardinalityType DEF Sound
<1> HIDE DEF N
<1>2. PICK f : SelectionRun(p, fee, N, f) /\ BestTransactions(p, fee, N) = f[N]
    BY <1>1, SelectionRuns
<1>3. f[0] = <<>> /\ \A n \in 0..N : n # 0 => f[n] = Taken(p, fee, f[n - 1])
    BY <1>1, <1>2 DEF SelectionRun
<1> DEFINE Fine(n) == Selection(p, f[n]) /\ InNonceOrder(f[n]) /\ Len(f[n]) = n
           Good == {n \in Nat : n <= N => Fine(n)}
<1>4. 0 \in Good
  <2>1. Selection(p, <<>>)
    <3>1. <<>> \in Seq(Pooled(p))
        OBVIOUS
    <3>2. ToSet(<<>>) = {}
        BY DEF ToSet
    <3> QED
        BY <3>1, <3>2 DEF Selection
  <2>2. InNonceOrder(<<>>)
    BY DEF InNonceOrder
  <2> QED
    BY <1>3, <2>1, <2>2
<1>5. ASSUME NEW n \in Nat, n \in Good PROVE n + 1 \in Good
  <2> SUFFICES ASSUME n + 1 <= N PROVE Fine(n + 1)
    OBVIOUS
  <2>1. Fine(n) /\ n < N
    BY <1>1, <1>5
  <2>2. f[n + 1] = Taken(p, fee, f[n])
    BY <1>1, <1>3, n + 1 \in 0..N, n + 1 # 0, (n + 1) - 1 = n
  <2>3. Pooled(p) # ToSet(f[n]) /\ ToSet(f[n]) \subseteq Pooled(p)
    BY <2>1, <1>1, SelectionSize DEF N
  <2>4. Pooled(p) \ ToSet(f[n]) # {}
    BY <2>3
  <2> QED
    BY <2>1, <2>2, <2>4, SelectionGrows
<1>6. N \in Good
  <2> HIDE DEF Good
  <2>1. Nat \subseteq Good
    BY <1>4, <1>5, Counting
  <2> QED
    BY <1>1, <2>1
<1>7. Fine(N)
    BY <1>1, <1>6
<1> QED
    BY <1>2, <1>7 DEF N

(* best_transactions hands a miner every sender's transactions in the      *)
(* order of their nonces, and with room for all of them all of the pool.   *)
THEOREM SelectionExecutable == Spec => []SelectionIsExecutable
<1>1. ASSUME IInv PROVE SelectionIsExecutable
  <2> DEFINE best == BestTransactions(pool, base_fee, Cardinality(Pooled(pool)))
  <2>1. Sound(pool) /\ base_fee \in Nat
    BY <1>1, PoolAssumption DEF IInv, TypeOK
  <2>2. Selection(pool, best) /\ InNonceOrder(best) /\ Len(best) = Cardinality(Pooled(pool))
    BY <2>1, WholePoolSelected
  <2> HIDE DEF best
  <2>3. ToSet(best) \subseteq Pooled(pool) /\ Cardinality(ToSet(best)) = Cardinality(Pooled(pool))
    BY <2>2, SelectionSize
  <2>4. ToSet(best) = Pooled(pool)
    BY <2>1, <2>3, FS_Subset DEF Sound
  <2>5. DOMAIN best = 1..Len(best)
    BY <2>2 DEF Selection
  <2> QED
    BY <2>2, <2>4, <2>5 DEF SelectionIsExecutable, InNonceOrder, best
<1> QED
    BY <1>1, PoolInvariance, PTL
=============================================================================
