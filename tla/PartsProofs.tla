----------------------------- MODULE PartsProofs -----------------------------
(***************************************************************************)
(* The parts of a node that keep a small state of their own: the lock, the *)
(* block store, the world state, the chain parameters and the difficulty   *)
(* rule.  Each section proves one part, for every value of its constants.  *)
(***************************************************************************)
EXTENDS NodeLock, Store, WorldState, Params, Difficulty, FiniteSetTheorems,
        WellFoundedInduction, TLAPS

-----------------------------------------------------------------------------
(* When calls wait for each other for ever: only if one of them asks for   *)
(* the node's lock while it holds it.  For any number of threads and any   *)
(* calls whose guards are scopes.                                          *)

Inside == {"enter", "grow", "leave"}

LockTypes ==
    /\ call \in [Thread -> Seq(LockOp)] /\ \A t \in Thread : Paired(call[t])
    /\ at \in [Thread -> Nat] /\ \A t \in Thread : at[t] \in 1..(Len(call[t]) + 1)
    /\ holds \in [Thread -> Int] /\ claimed \in Thread \cup {Nobody}

(* A thread holds what the operations of its call so far have left it, and *)
(* the claim belongs to the one thread that is about to write.             *)
HoldsAreDepths == \A t \in Thread : holds[t] = Depth(call[t], at[t])

ClaimIsInside == \A t \in Thread : Op(t) \in Inside <=> claimed = t

LockInv == LockTypes /\ HoldsAreDepths /\ ClaimIsInside

-----------------------------------------------------------------------------
(* Before its first operation a call holds nothing. *)
LEMMA DepthAtStart == ASSUME NEW c PROVE Depth(c, 1) = 0
<1>1. \A op : {q \in 1..(1 - 1) : c[q] = op} = {}
    OBVIOUS
<1> QED
    BY <1>1, FS_EmptySet DEF Depth, Done

(* Counting one position further counts that position, where it qualifies. *)
LEMMA DoneStep ==
    ASSUME NEW c, NEW op, NEW p \in Nat \ {0}
    PROVE  /\ Done(c, op, p) \in Nat
           /\ Done(c, op, p + 1) = IF c[p] = op THEN Done(c, op, p) + 1 ELSE Done(c, op, p)
<1> DEFINE S == {q \in 1..(p - 1) : c[q] = op}
           T == {q \in 1..((p + 1) - 1) : c[q] = op}
<1>1. IsFiniteSet(S)
    <2>1. IsFiniteSet(1..(p - 1)) /\ S \subseteq 1..(p - 1)
        BY FS_Interval
    <2> QED
        BY <2>1, FS_Subset
<1>2. CASE c[p] = op
    <2>1. T = S \cup {p} /\ p \notin S
        BY <1>2
    <2> QED
        BY <1>1, <1>2, <2>1, FS_AddElement, FS_CardinalityType DEF Done
<1>3. CASE c[p] # op
    <2>1. T = S
        BY <1>3
    <2> QED
        BY <1>1, <1>3, <2>1, FS_CardinalityType DEF Done
<1> QED
    BY <1>2, <1>3

(* An operation changes the depth by the guard it takes or drops. *)
LEMMA DepthStep ==
    ASSUME NEW c, NEW p \in Nat \ {0}
    PROVE  /\ Depth(c, p) \in Int
           /\ c[p] = "read" => Depth(c, p + 1) = Depth(c, p) + 1
           /\ c[p] = "unread" => Depth(c, p + 1) = Depth(c, p) - 1
           /\ c[p] \notin {"read", "unread"} => Depth(c, p + 1) = Depth(c, p)
<1>1. /\ Done(c, "read", p) \in Nat
      /\ Done(c, "read", p + 1)
            = IF c[p] = "read" THEN Done(c, "read", p) + 1 ELSE Done(c, "read", p)
    BY DoneStep
<1>2. /\ Done(c, "unread", p) \in Nat
      /\ Done(c, "unread", p + 1)
            = IF c[p] = "unread" THEN Done(c, "unread", p) + 1 ELSE Done(c, "unread", p)
    BY DoneStep
<1> QED
    BY <1>1, <1>2 DEF Depth

(* No call at all is paired. *)
LEMMA EmptyIsPaired == Paired(<<>>)
<1>1. Depth(<<>>, 1) = 0
    BY DepthAtStart
<1> QED
    BY <1>1 DEF Paired

-----------------------------------------------------------------------------
(* At the start nobody is in a call. *)
LEMMA InitLockInv == LockInit => LockInv
<1> SUFFICES ASSUME LockInit PROVE LockInv
    OBVIOUS
<1>1. LockTypes
    BY EmptyIsPaired DEF LockInit, LockTypes
<1>2. HoldsAreDepths
    BY DepthAtStart DEF LockInit, HoldsAreDepths
<1>3. ClaimIsInside
    BY NobodyAssumption DEF LockInit, ClaimIsInside, Op, Inside
<1> QED
    BY <1>1, <1>2, <1>3 DEF LockInv

(* A thread whose next operation is one of the lock's is within its call,  *)
(* and what that operation is, its call says.                              *)
LEMMA Within ==
    ASSUME LockInv, NEW t \in Thread, Op(t) \in LockOp
    PROVE  /\ at[t] \in 1..Len(call[t]) /\ call[t][at[t]] = Op(t)
           /\ Paired(call[t]) /\ call[t] \in Seq(LockOp)
<1>1. call[t] \in Seq(LockOp) /\ Paired(call[t]) /\ at[t] \in Nat
    BY DEF LockInv, LockTypes
<1>2. at[t] \in DOMAIN call[t]
    BY DEF Op, LockOp
<1> QED
    BY <1>1, <1>2 DEF Op

(* The operation after an advance is one of writing exactly when the one   *)
(* before it began or continued to write.                                  *)
LEMMA AdvanceInside ==
    ASSUME LockInv, NEW t \in Thread, Op(t) \in LockOp, Advanced(t)
    PROVE  /\ call' \in [Thread -> Seq(LockOp)] /\ \A r \in Thread : Paired(call'[r])
           /\ at' \in [Thread -> Nat] /\ \A r \in Thread : at'[r] \in 1..(Len(call'[r]) + 1)
           /\ at'[t] = at[t] + 1 /\ call'[t] = call[t]
           /\ Op(t)' \in Inside <=> Op(t) \in {"claim", "enter", "grow"}
           /\ \A r \in Thread \ {t} : Op(r)' = Op(r) /\ at'[r] = at[r] /\ call'[r] = call[r]
<1> DEFINE c == call[t]
           p == at[t]
<1>1. p \in 1..Len(c) /\ c[p] = Op(t) /\ Paired(c) /\ c \in Seq(LockOp)
    BY Within
<1>2. at' = [at EXCEPT ![t] = p + 1] /\ call' = call /\ at \in [Thread -> Nat]
    BY DEF Advanced, LockInv, LockTypes
<1>3. /\ call' \in [Thread -> Seq(LockOp)] /\ \A r \in Thread : Paired(call'[r])
      /\ at' \in [Thread -> Nat] /\ \A r \in Thread : at'[r] \in 1..(Len(call'[r]) + 1)
    BY <1>1, <1>2 DEF LockInv, LockTypes
<1>4. at'[t] = p + 1 /\ call'[t] = c
    BY <1>2
<1>5. \A r \in Thread \ {t} : Op(r)' = Op(r) /\ at'[r] = at[r] /\ call'[r] = call[r]
    BY <1>2 DEF Op
<1>6. Op(t)' = IF p + 1 \in 1..Len(c) THEN c[p + 1] ELSE "idle"
    BY <1>1, <1>4 DEF Op
<1>7. CASE p + 1 \in 1..Len(c)
    <2>1. c[p + 1] \in Inside <=> c[(p + 1) - 1] \in {"claim", "enter", "grow"}
        BY <1>1, <1>7 DEF Paired, Inside
    <2>2. (p + 1) - 1 = p
        BY <1>1
    <2> QED
        BY <1>1, <1>3, <1>4, <1>5, <1>6, <1>7, <2>1, <2>2
<1>8. CASE p + 1 \notin 1..Len(c)
    <2>1. p = Len(c) /\ Op(t)' = "idle"
        BY <1>1, <1>6, <1>8
    <2>2. c[p] \notin {"claim", "enter", "grow"}
        BY <1>1, <2>1 DEF Paired
    <2> QED
        BY <1>1, <1>3, <1>4, <1>5, <2>1, <2>2 DEF Inside
<1> QED
    BY <1>7, <1>8

(* What every step of a thread within its call keeps of the invariant,     *)
(* given what it does to the guards and to the claim.                      *)
LEMMA ThreadStep ==
    ASSUME LockInv, NEW t \in Thread, Op(t) \in LockOp, Advanced(t),
           holds' = [holds EXCEPT ![t] = IF Op(t) = "read" THEN @ + 1
                                         ELSE IF Op(t) = "unread" THEN @ - 1 ELSE @],
           claimed' = IF Op(t) = "claim" THEN t
                      ELSE IF Op(t) = "leave" THEN Nobody ELSE claimed,
           Op(t) = "claim" => claimed = Nobody
    PROVE  LockInv'
<1>1. /\ call' \in [Thread -> Seq(LockOp)] /\ \A r \in Thread : Paired(call'[r])
      /\ at' \in [Thread -> Nat] /\ \A r \in Thread : at'[r] \in 1..(Len(call'[r]) + 1)
      /\ at'[t] = at[t] + 1 /\ call'[t] = call[t]
      /\ Op(t)' \in Inside <=> Op(t) \in {"claim", "enter", "grow"}
      /\ \A r \in Thread \ {t} : Op(r)' = Op(r) /\ at'[r] = at[r] /\ call'[r] = call[r]
    BY AdvanceInside
<1>2. holds \in [Thread -> Int] /\ claimed \in Thread \cup {Nobody}
    BY DEF LockInv, LockTypes
<1>3. LockTypes'
    BY <1>1, <1>2 DEF LockTypes
<1>4. HoldsAreDepths'
    <2>1. at[t] \in Nat \ {0} /\ call[t][at[t]] = Op(t) /\ holds[t] = Depth(call[t], at[t])
        BY Within DEF LockInv, HoldsAreDepths
    <2>2. holds'[t] = Depth(call[t], at[t] + 1)
        BY <1>2, <2>1, DepthStep DEF LockOp
    <2>3. \A r \in Thread \ {t} : holds'[r] = holds[r] /\ holds[r] = Depth(call[r], at[r])
        BY <1>2 DEF LockInv, HoldsAreDepths
    <2> QED
        BY <1>1, <2>2, <2>3 DEF HoldsAreDepths
<1>5. ClaimIsInside'
    <2>1. \A r \in Thread : Op(r) \in Inside <=> claimed = r
        BY DEF LockInv, ClaimIsInside
    <2>2. Op(t)' \in Inside <=> claimed' = t
        BY <1>1, <2>1, NobodyAssumption DEF Inside, LockOp
    <2>3. \A r \in Thread \ {t} : Op(r) \in Inside <=> claimed' = r
        BY <2>1, NobodyAssumption DEF Inside
    <2> QED
        BY <1>1, <2>2, <2>3 DEF ClaimIsInside
<1> QED
    BY <1>3, <1>4, <1>5 DEF LockInv

(* A thread begins a call with no guard and outside any claim. *)
LEMMA StartStep ==
    ASSUME LockInv, NEW t \in Thread, NEW c \in CallsOf[t], Start(t, c)
    PROVE  LockInv'
<1>1. c \in Seq(LockOp) /\ Paired(c)
    BY LockAssumption
<1>2. call' = [call EXCEPT ![t] = c] /\ at' = [at EXCEPT ![t] = 1]
      /\ holds' = holds /\ claimed' = claimed
    BY DEF Start
<1>3. LockTypes'
    BY <1>1, <1>2 DEF LockInv, LockTypes
<1>4. \A r \in Thread \ {t} : Op(r)' = Op(r) /\ at'[r] = at[r] /\ call'[r] = call[r]
    BY <1>2 DEF LockInv, LockTypes, Op
<1>5. at'[t] = 1 /\ call'[t] = c
    BY <1>2 DEF LockInv, LockTypes
<1>6. holds[t] = 0
    <2>1. /\ call[t] \in Seq(LockOp) /\ at[t] \in 1..(Len(call[t]) + 1) /\ Paired(call[t])
          /\ holds[t] = Depth(call[t], at[t])
        BY DEF LockInv, LockTypes, HoldsAreDepths
    <2>2. at[t] = Len(call[t]) + 1
        BY <2>1 DEF Start, Op, LockOp
    <2> QED
        BY <2>1, <2>2 DEF Paired
<1>7. HoldsAreDepths'
    BY <1>2, <1>4, <1>5, <1>6, DepthAtStart DEF LockInv, HoldsAreDepths
<1>8. Op(t)' \notin Inside /\ Op(t) \notin Inside
    <2>1. Op(t)' = IF 1 \in 1..Len(c) THEN c[1] ELSE "idle"
        BY <1>1, <1>5 DEF Op
    <2> QED
        BY <1>1, <2>1 DEF Paired, Inside, Start
<1>9. ClaimIsInside'
    BY <1>2, <1>4, <1>8 DEF LockInv, ClaimIsInside
<1> QED
    BY <1>3, <1>7, <1>9 DEF LockInv

(* Every step preserves the invariant: an operation of a call, or a call's *)
(* beginning.                                                              *)
LEMMA LockStep == LockInv /\ [LockNext]_lockVars => LockInv'
<1> SUFFICES ASSUME LockInv, [LockNext]_lockVars PROVE LockInv'
    OBVIOUS
<1>1. ASSUME NEW t \in Thread, Step(t) PROVE LockInv'
    <2>1. Op(t) \in LockOp /\ Advanced(t)
        BY <1>1 DEF Step, AcquireRead, ReleaseRead, Claim, Enter, Grow, Leave, LockOp
    <2>2. holds = [holds EXCEPT ![t] = @]
        BY DEF LockInv, LockTypes
    <2>3. holds' = [holds EXCEPT ![t] = IF Op(t) = "read" THEN @ + 1
                                        ELSE IF Op(t) = "unread" THEN @ - 1 ELSE @]
        BY <1>1, <2>2 DEF Step, AcquireRead, ReleaseRead, Claim, Enter, Grow, Leave
    <2>4. /\ claimed' = IF Op(t) = "claim" THEN t
                        ELSE IF Op(t) = "leave" THEN Nobody ELSE claimed
          /\ Op(t) = "claim" => claimed = Nobody
        BY <1>1 DEF Step, AcquireRead, ReleaseRead, Claim, Enter, Grow, Leave, Unclaimed
    <2> QED
        BY <2>1, <2>3, <2>4, ThreadStep
<1>2. ASSUME NEW t \in Thread, NEW c \in CallsOf[t], Start(t, c) PROVE LockInv'
    BY <1>2, StartStep
<1>3. CASE UNCHANGED lockVars
    BY <1>3 DEF lockVars, LockInv, LockTypes, HoldsAreDepths, ClaimIsInside, Op
<1> QED
    BY <1>1, <1>2, <1>3 DEF LockNext

(* The invariant holds throughout: guards are counted by the calls'        *)
(* positions and the claim is with the thread that writes.                 *)
THEOREM LockInvariance == LockSpec => []LockInv
<1> QED
    BY InitLockInv, LockStep, PTL DEF LockSpec

-----------------------------------------------------------------------------
(* If a call is in progress and no thread can go on, the lock is claimed;  *)
(* its writer waits for a reader inside; and that reader, which has a      *)
(* guard to drop and cannot, asks for another.                             *)
LEMMA StuckInReentry == LockInv => StuckOnlyByReentry
<1> SUFFICES ASSUME LockInv, NEW t \in Thread, Op(t) # "idle",
                    \A r \in Thread : ~ CanStep(r)
             PROVE  \E r \in Thread : Op(r) = "read" /\ holds[r] > 0
    BY DEF StuckOnlyByReentry
<1>1. \A r \in Thread : Op(r) \in LockOp \cup {"idle"}
    BY DEF LockInv, LockTypes, Op
<1>2. PICK w \in Thread : claimed = w
    BY <1>1 DEF LockInv, LockTypes, ClaimIsInside, CanStep, LockOp, Inside
<1>3. Op(w) = "enter"
    BY <1>1, <1>2 DEF LockInv, ClaimIsInside, CanStep, LockOp, Inside
<1>4. PICK r \in Thread : holds[r] # 0
    BY <1>3 DEF CanStep, Drained
<1>5. /\ call[r] \in Seq(LockOp) /\ at[r] \in 1..(Len(call[r]) + 1) /\ Paired(call[r])
      /\ holds[r] = Depth(call[r], at[r])
    BY DEF LockInv, LockTypes, HoldsAreDepths
<1>6. Op(r) # "idle"
    BY <1>4, <1>5 DEF Paired, Op, LockOp
<1>7. Op(r) \notin {"claim", "enter", "grow", "leave"}
    BY <1>1, <1>4, <1>5, <1>6, Within DEF Paired
<1>8. Op(r) = "read"
    BY <1>1, <1>6, <1>7 DEF CanStep, LockOp
<1>9. holds[r] > 0
    <2>1. Depth(call[r], at[r]) \in Int /\ Depth(call[r], at[r]) >= 0
        BY <1>5, DepthStep DEF Paired
    <2> QED
        BY <1>4, <1>5, <2>1
<1> QED
    BY <1>8, <1>9

(* Calls in progress do not all wait for each other, unless one of them    *)
(* asks for the lock while it holds it (parking_lot lets no reader past a  *)
(* writer that waits).                                                     *)
THEOREM StuckByReentry == LockSpec => []StuckOnlyByReentry
<1> QED
    BY LockInvariance, StuckInReentry, PTL

-----------------------------------------------------------------------------
(***************************************************************************)
(* What the block store has acknowledged is there for good, is read only   *)
(* by builds of the version that wrote it, and the store is the map its    *)
(* trait promises: for every set of blocks and of schema versions, and any *)
(* number of failed writes, crashes and restarts.                          *)
(***************************************************************************)

Entry == {"header", "body"} \X Key

StoreTypes ==
    /\ disk \in [headers : SUBSET Key, bodies : SUBSET Key, schema_version : Version \cup {Absent}]
    /\ build \in Version \cup {Closed}
    /\ written \subseteq Version \X Entry

(* Whoever has the store open has written its version into the file.       *)
BuildIsRecorded == build # Closed => disk.schema_version = build

(* Every put was made by the version the file names, so a file without a   *)
(* version has seen no put.                                                *)
WrittenByOne == \A w \in written : w[1] = disk.schema_version

HeaderAdded(k) ==
    [headers |-> disk.headers \cup {k}, bodies |-> disk.bodies,
     schema_version |-> disk.schema_version, puts |-> {<<"header", k>>}]

BodyAdded(k) ==
    [headers |-> disk.headers, bodies |-> disk.bodies \cup {k},
     schema_version |-> disk.schema_version, puts |-> {<<"body", k>>}]

(* A write transaction is of a process that has the store open, and adds   *)
(* one entry to what is committed.                                         *)
TxnAddsOne ==
    txn = NoTxn \/ (build # Closed /\ \E k \in Key : txn \in {HeaderAdded(k), BodyAdded(k)})

StoreInv ==
    StoreTypes /\ BuildIsRecorded /\ WrittenByOne /\ TxnAddsOne /\ AcknowledgedSurvives

-----------------------------------------------------------------------------
(* An empty file satisfies the invariant.                                  *)
LEMMA InitStoreInv == StoreInit => StoreInv
<1> SUFFICES ASSUME StoreInit PROVE StoreInv
    OBVIOUS
<1>1. StoreTypes
    BY DEF StoreInit, StoreTypes
<1> QED
    BY <1>1 DEF StoreInit, StoreInv, BuildIsRecorded, WrittenByOne, TxnAddsOne,
                AcknowledgedSurvives

(* Opening writes the version where there is none, and then nothing was    *)
(* ever put; otherwise it leaves the tables as they are.                   *)
LEMMA OpenStoreInv == ASSUME StoreInv, NEW v \in Version, Open(v) PROVE StoreInv'
<1> USE DEF StoreInv, Open
<1>1. disk' = [headers |-> disk.headers, bodies |-> disk.bodies, schema_version |-> v]
    BY DEF StoreTypes, Opened
<1>2. StoreTypes'
    BY <1>1 DEF StoreTypes
<1>3. BuildIsRecorded'
    BY <1>1 DEF BuildIsRecorded
<1>4. WrittenByOne'
    <2> SUFFICES ASSUME NEW w \in written PROVE w[1] = v
        BY <1>1 DEF WrittenByOne
    <2>1. w[1] \in Version /\ w[1] = disk.schema_version
        BY DEF StoreTypes, WrittenByOne
    <2> QED
        BY <2>1, StoreAssumption DEF Verified, Absent
<1>5. TxnAddsOne'
    BY DEF TxnAddsOne
<1>6. AcknowledgedSurvives'
    BY <1>1 DEF AcknowledgedSurvives, Has
<1> QED
    BY <1>2, <1>3, <1>4, <1>5, <1>6

(* Beginning a write changes nothing that is committed.                    *)
LEMMA BeginStoreInv ==
    ASSUME StoreInv, NEW k \in Key, BeginHeader(k) \/ BeginBody(k)
    PROVE  StoreInv'
<1>1. UNCHANGED <<disk, build, written>> /\ build # Closed
    BY DEF BeginHeader, BeginBody, Begin
<1>2. txn' = HeaderAdded(k) \/ txn' = BodyAdded(k)
    BY DEF BeginHeader, BeginBody, Begin, HeaderAdded, BodyAdded, StoreInv, StoreTypes
<1>3. HeaderAdded(k) = HeaderAdded(k)' /\ BodyAdded(k) = BodyAdded(k)'
    BY <1>1 DEF HeaderAdded, BodyAdded
<1>4. TxnAddsOne'
    BY <1>1, <1>2, <1>3 DEF TxnAddsOne
<1> QED
    BY <1>1, <1>4 DEF StoreInv, StoreTypes, BuildIsRecorded, WrittenByOne,
                      AcknowledgedSurvives, Has

(* What a transaction that is there commits, and whose it is.              *)
LEMMA CommitAddsOne ==
    ASSUME StoreInv, Commit
    PROVE  /\ build \in Version /\ build' = build /\ txn' = NoTxn
           /\ \E k \in Key :
                  \/ /\ disk' = [disk EXCEPT !.headers = @ \cup {k}]
                     /\ written' = written \cup {<<build, <<"header", k>>>>}
                  \/ /\ disk' = [disk EXCEPT !.bodies = @ \cup {k}]
                     /\ written' = written \cup {<<build, <<"body", k>>>>}
<1>1. build # Closed /\ txn # NoTxn
    BY DEF StoreInv, TxnAddsOne, Commit
<1>2. PICK k \in Key : txn = HeaderAdded(k) \/ txn = BodyAdded(k)
    BY <1>1 DEF StoreInv, TxnAddsOne
<1>3. CASE txn = HeaderAdded(k)
    <2>0. disk' = [headers |-> disk.headers \cup {k}, bodies |-> disk.bodies,
                   schema_version |-> disk.schema_version]
        BY <1>3 DEF Commit, AfterCommit, Tables, HeaderAdded
    <2>1. disk' = [disk EXCEPT !.headers = @ \cup {k}]
        BY <2>0 DEF StoreInv, StoreTypes
    <2>2. written' = written \cup {<<build, <<"header", k>>>>}
        BY <1>3 DEF Commit, HeaderAdded
    <2> QED
        BY <1>1, <2>1, <2>2 DEF Commit, StoreInv, StoreTypes
<1>4. CASE txn = BodyAdded(k)
    <2>0. disk' = [headers |-> disk.headers, bodies |-> disk.bodies \cup {k},
                   schema_version |-> disk.schema_version]
        BY <1>4 DEF Commit, AfterCommit, Tables, BodyAdded
    <2>1. disk' = [disk EXCEPT !.bodies = @ \cup {k}]
        <3>1. disk \in [headers : SUBSET Key, bodies : SUBSET Key,
                        schema_version : Version \cup {Absent}]
            BY DEF StoreInv, StoreTypes
        <3> QED
            BY <2>0, <3>1
    <2>2. written' = written \cup {<<build, <<"body", k>>>>}
        BY <1>4 DEF Commit, BodyAdded
    <2> QED
        BY <1>1, <2>1, <2>2 DEF Commit, StoreInv, StoreTypes
<1> QED
    BY <1>2, <1>3, <1>4

(* A commit keeps what is there and adds what it acknowledges.             *)
LEMMA CommitStoreInv == ASSUME StoreInv, Commit PROVE StoreInv'
<1>1. build \in Version /\ build' = build /\ txn' = NoTxn
    BY CommitAddsOne
<1>2. PICK k \in Key :
          \/ /\ disk' = [disk EXCEPT !.headers = @ \cup {k}]
             /\ written' = written \cup {<<build, <<"header", k>>>>}
          \/ /\ disk' = [disk EXCEPT !.bodies = @ \cup {k}]
             /\ written' = written \cup {<<build, <<"body", k>>>>}
    BY CommitAddsOne
<1>3. build = disk.schema_version /\ disk'.schema_version = disk.schema_version
    BY <1>1, <1>2, StoreAssumption
    DEF StoreInv, StoreTypes, BuildIsRecorded, Closed
<1>4. StoreTypes'
    BY <1>1, <1>2 DEF StoreInv, StoreTypes, Entry
<1>5. BuildIsRecorded' /\ TxnAddsOne'
    BY <1>1, <1>3 DEF BuildIsRecorded, TxnAddsOne
<1>6. WrittenByOne'
    BY <1>2, <1>3 DEF StoreInv, WrittenByOne
<1>7. AcknowledgedSurvives'
    <2> SUFFICES ASSUME NEW w \in written' PROVE Has(w[2])'
        BY DEF AcknowledgedSurvives
    <2>1. /\ disk.headers \subseteq disk'.headers /\ disk.bodies \subseteq disk'.bodies
          /\ \/ k \in disk'.headers /\ written' = written \cup {<<build, <<"header", k>>>>}
             \/ k \in disk'.bodies /\ written' = written \cup {<<build, <<"body", k>>>>}
        BY <1>2 DEF StoreInv, StoreTypes
    <2>2. CASE w \in written
        BY <2>1, <2>2 DEF StoreInv, AcknowledgedSurvives, Has
    <2>3. CASE w \notin written
        BY <2>1, <2>3 DEF Has
    <2> QED
        BY <2>2, <2>3
<1> QED
    BY <1>4, <1>5, <1>6, <1>7 DEF StoreInv

(* A write that fails and a process that ends leave the tables alone.      *)
LEMMA EndStoreInv == ASSUME StoreInv, Fail \/ Stop PROVE StoreInv'
<1>1. UNCHANGED <<disk, written>> /\ txn' = NoTxn /\ build' \in {build, Closed}
    BY DEF Fail, Stop
<1> QED
    BY <1>1 DEF StoreInv, StoreTypes, BuildIsRecorded, WrittenByOne, TxnAddsOne,
                AcknowledgedSurvives, Has

(* Every step of the store keeps the invariant.                            *)
LEMMA NextStoreInv == StoreInv /\ [StoreNext]_storeVars => StoreInv'
<1> SUFFICES ASSUME StoreInv, [StoreNext]_storeVars PROVE StoreInv'
    OBVIOUS
<1>1. CASE \E v \in Version : Open(v)
    BY <1>1, OpenStoreInv
<1>2. CASE \E k \in Key : BeginHeader(k) \/ BeginBody(k)
    BY <1>2, BeginStoreInv
<1>3. CASE Commit
    BY <1>3, CommitStoreInv
<1>4. CASE Fail \/ Stop
    BY <1>4, EndStoreInv
<1>5. CASE UNCHANGED storeVars
    BY <1>5 DEF storeVars, StoreInv, StoreTypes, BuildIsRecorded, WrittenByOne, TxnAddsOne,
                HeaderAdded, BodyAdded, AcknowledgedSurvives, Has
<1> QED
    BY <1>1, <1>2, <1>3, <1>4, <1>5 DEF StoreNext

(* The invariant holds throughout, whatever fails or crashes.              *)
THEOREM StoreInvariant == StoreSpec => []StoreInv
BY InitStoreInv, NextStoreInv, PTL DEF StoreSpec

(* A put that returned Ok is there for every later reader, after any       *)
(* number of failed writes, crashes and restarts (put_header, put_body).   *)
THEOREM AcknowledgedStays == StoreSpec => []AcknowledgedSurvives
<1>1. StoreInv => AcknowledgedSurvives
    BY DEF StoreInv
<1> QED
    BY <1>1, StoreInvariant, PTL

(* A process only reads entries that a build of its own schema version put *)
(* (init_schema refuses a file of another one).                            *)
THEOREM VersionsStayApart == StoreSpec => []NeverReinterpreted
<1>1. StoreInv => NeverReinterpreted
    BY DEF StoreInv, BuildIsRecorded, WrittenByOne, NeverReinterpreted
<1> QED
    BY <1>1, StoreInvariant, PTL

-----------------------------------------------------------------------------
(* A step of the store is a put of the map, or does not change it.         *)
LEMMA StepIsPut ==
    StoreInv /\ [StoreNext]_storeVars => [Map!MapNext]_<<disk.headers, disk.bodies>>
<1> SUFFICES ASSUME StoreInv, [StoreNext]_storeVars
             PROVE  Map!MapNext \/ UNCHANGED <<disk.headers, disk.bodies>>
    OBVIOUS
<1>1. ASSUME NEW v \in Version, Open(v) PROVE UNCHANGED <<disk.headers, disk.bodies>>
    BY <1>1 DEF Open, Opened, StoreInv, StoreTypes
<1>2. CASE UNCHANGED disk
    BY <1>2
<1>3. CASE Commit
    <2>1. PICK k \in Key : disk' = [disk EXCEPT !.headers = @ \cup {k}]
                           \/ disk' = [disk EXCEPT !.bodies = @ \cup {k}]
        BY <1>3, CommitAddsOne
    <2>2. Map!PutHeader(k) \/ Map!PutBody(k)
        BY <2>1 DEF Map!PutHeader, Map!PutBody, StoreInv, StoreTypes
    <2> QED
        BY <2>2 DEF Map!MapNext
<1>4. (\E v \in Version : Open(v)) \/ Commit \/ UNCHANGED disk
    BY DEF StoreNext, storeVars, BeginHeader, BeginBody, Begin, Fail, Stop
<1> QED
    BY <1>1, <1>2, <1>3, <1>4

(* Transactions, failures and crashes included, the store implements the   *)
(* map the trait BlockStore promises.                                      *)
THEOREM StoreIsMap == StoreSpec => ImplementsMap
<1>1. StoreInit => Map!MapInit
    BY DEF StoreInit, Map!MapInit
<1> QED
    BY <1>1, StepIsPut, StoreInvariant, PTL DEF StoreSpec, ImplementsMap, Map!MapSpec

-----------------------------------------------------------------------------
(***************************************************************************)
(* Undoing a block restores every account and slot, the map of accounts is *)
(* the only one for the state it stands for, and every account's code      *)
(* resolves: for any accounts, slots, codes, words and balances, and any   *)
(* sequence of transactions, blocks and undos.                             *)
(***************************************************************************)

Account == [info : Info, storage : Storages]

(* An account, or none; and the maps of accounts. *)
MaybeAccount == Account \cup {Missing}

IsMap(accs) ==
    /\ accs = [a \in DOMAIN accs |-> accs[a]]
    /\ DOMAIN accs \subseteq Address
    /\ \A a \in DOMAIN accs : accs[a] \in Account

Clean(acc) == \A s \in DOMAIN acc.storage : acc.storage[s] # 0

(* The account as it was when the block began, by the undo record. *)
Original(a) == IF a \in DOMAIN undo THEN undo[a] ELSE Found(accounts, a)

WorldTypes ==
    /\ IsMap(accounts) /\ IsMap(before)
    /\ DOMAIN undo \subseteq Address
    /\ \A a \in DOMAIN undo : undo[a] \in MaybeAccount
    /\ code \subseteq Code

BothClean ==
    /\ \A a \in DOMAIN accounts : Clean(accounts[a])
    /\ \A a \in DOMAIN before : Clean(before[a])

NoneEmptied ==
    \A a \in DOMAIN accounts :
        IsEmpty(accounts[a].info) => a \in DOMAIN before /\ IsEmpty(before[a].info)

BothResolve ==
    /\ \A a \in DOMAIN accounts : accounts[a].info.code \in code \cup {NoCode}
    /\ \A a \in DOMAIN before : before[a].info.code \in code \cup {NoCode}

UndoIsComplete == \A a \in Address : Original(a) = Found(before, a)

WorldInv == WorldTypes /\ BothClean /\ NoneEmptied /\ BothResolve /\ UndoIsComplete

-----------------------------------------------------------------------------
(* No account is the missing one.                                          *)
LEMMA MissingIsNone == Missing \notin Account
<1> SUFFICES ASSUME Missing \in Account PROVE FALSE
    OBVIOUS
<1>1. DOMAIN Missing = {"info", "storage"}
    BY DEF Account
<1>2. DOMAIN Missing = {"info"}
    BY DEF Missing
<1> QED
    BY <1>1, <1>2

(* What is found of the accounts that exist.                               *)
LEMMA ExistingFound ==
    ASSUME NEW accs, DOMAIN accs \subseteq Address,
           \A a \in DOMAIN accs : accs[a] \in MaybeAccount
    PROVE  /\ IsMap(Existing(accs))
           /\ \A a : Found(Existing(accs), a) = Found(accs, a)
           /\ DOMAIN Existing(accs) = {a \in DOMAIN accs : accs[a] # Missing}
           /\ \A a \in DOMAIN Existing(accs) : Existing(accs)[a] = accs[a]
<1> DEFINE there == {a \in DOMAIN accs : accs[a] # Missing}
<1>1. Existing(accs) = [a \in there |-> accs[a]]
    BY DEF Existing, Restrict
<1>2. \A a \in there : accs[a] \in Account
    BY DEF MaybeAccount
<1> QED
    BY <1>1, <1>2 DEF IsMap, Found

(* What is found in a map.                                                 *)
LEMMA FoundType ==
    ASSUME NEW accs, IsMap(accs), NEW a
    PROVE  /\ Found(accs, a) \in MaybeAccount
           /\ a \in DOMAIN accs <=> Found(accs, a) # Missing
BY MissingIsNone DEF IsMap, Found, MaybeAccount

(* Slots without those that are zero.                                      *)
LEMMA NonZeroType ==
    ASSUME NEW storage, DOMAIN storage \subseteq Slot,
           \A s \in DOMAIN storage : storage[s] \in Word
    PROVE  NonZero(storage) \in Storages
           /\ \A s \in DOMAIN NonZero(storage) : NonZero(storage)[s] # 0
<1> DEFINE left == {s \in DOMAIN storage : storage[s] # 0}
<1>1. NonZero(storage) = [s \in left |-> storage[s]]
    BY DEF NonZero, Restrict
<1>2. NonZero(storage) \in [left -> Word] /\ left \in SUBSET Slot
    BY <1>1
<1>3. NonZero(storage) \in Storages
    BY <1>2 DEF Storages
<1> QED
    BY <1>1, <1>3

(* A commit gives an account or none, without zero slots; it is empty only *)
(* if it was there and empty before, because the EVM empties no account    *)
(* that holds anything; and its code is there before or reported.          *)
LEMMA CommittedType ==
    ASSUME NEW old \in MaybeAccount, old # Missing => Clean(old),
           NEW change \in ChangesOf(old)
    PROVE  LET new == Committed(old, change)
           IN  /\ new \in MaybeAccount
               /\ new # Missing => Clean(new)
               /\ new # Missing /\ IsEmpty(new.info) => old # Missing /\ IsEmpty(old.info)
               /\ \/ new = Missing \/ new = old
                  \/ change.touched /\ ~ Removes(old, change) /\ new.info = change.info
<1> DEFINE new == Committed(old, change)
           slots == SlotsBefore(old, change)
           all == [s \in DOMAIN slots \cup DOMAIN change.storage |->
                      IF s \in DOMAIN change.storage THEN change.storage[s] ELSE slots[s]]
<1>1. /\ change.info \in Info /\ change.storage \in Storages
      /\ change.created \in BOOLEAN /\ change.destroyed \in BOOLEAN /\ change.touched \in BOOLEAN
      /\ Plausible(old, change)
    BY DEF ChangesOf
<1>2. CASE ~ change.touched \/ Removes(old, change)
    BY <1>2 DEF Committed, MaybeAccount
<1>3. CASE change.touched /\ ~ Removes(old, change)
    <2>1. new = [info |-> change.info, storage |-> NonZero(all)]
        BY <1>3 DEF Committed
    <2>2. DOMAIN change.storage \subseteq Slot
          /\ \A s \in DOMAIN change.storage : change.storage[s] \in Word
        BY <1>1 DEF Storages
    <2>3. DOMAIN slots \subseteq Slot /\ \A s \in DOMAIN slots : slots[s] \in Word
        <3>1. CASE old = Missing \/ change.created
            <4>1. slots = <<>>
                BY <3>1 DEF SlotsBefore
            <4> QED
                BY <4>1
        <3>2. CASE ~ (old = Missing \/ change.created)
            <4>1. slots = old.storage /\ old \in Account
                BY <3>2 DEF SlotsBefore, MaybeAccount
            <4>2. old.storage \in Storages
                BY <4>1 DEF Account
            <4> QED
                BY <4>1, <4>2 DEF Storages
        <3> QED
            BY <3>1, <3>2
    <2>4. NonZero(all) \in Storages /\ \A s \in DOMAIN NonZero(all) : NonZero(all)[s] # 0
        <3>1. DOMAIN all \subseteq Slot /\ \A s \in DOMAIN all : all[s] \in Word
            BY <2>2, <2>3
        <3> HIDE DEF all
        <3> QED
            BY <3>1, NonZeroType
    <2>5. IsEmpty(change.info) => old # Missing /\ IsEmpty(old.info)
        <3>1. CASE old = Missing
            BY <1>3, <3>1 DEF Removes
        <3>2. CASE old # Missing
            <4>1. old \in Account
                BY <3>2 DEF MaybeAccount
            <4>2. /\ old.info.balance \in Nat /\ old.info.nonce \in {0, 1}
                  /\ change.info.balance \in Nat /\ change.info.nonce \in {0, 1}
                BY <1>1, <4>1, WorldAssumption DEF Account, Info
            <4>3. /\ change.info.nonce >= old.info.nonce
                  /\ change.info.balance < old.info.balance =>
                         change.info.nonce = 1 \/ old.info.code # NoCode
                  /\ change.created => change.info.nonce = 1
                  /\ ~ change.created => change.info.code = old.info.code
                BY <1>1, <3>2 DEF Plausible
            <4> QED
                BY <3>2, <4>2, <4>3 DEF IsEmpty
        <3> QED
            BY <3>1, <3>2
    <2> HIDE DEF all
    <2>6. new \in Account /\ Clean(new) /\ new.info = change.info
        BY <1>1, <2>1, <2>4 DEF Account, Clean
    <2> QED
        BY <1>3, <2>5, <2>6 DEF MaybeAccount
<1> QED
    BY <1>2, <1>3

-----------------------------------------------------------------------------
(* Genesis: the allocation without its zero slots.                         *)
LEMMA InitWorldInv == WorldInit => WorldInv
<1> SUFFICES ASSUME WorldInit PROVE WorldInv
    OBVIOUS
<1>1. PICK alloc \in Allocations :
          /\ accounts = Loaded(alloc)
          /\ code = {alloc[a].info.code : a \in DOMAIN alloc} \ {NoCode}
          /\ before = accounts
          /\ undo = <<>>
    BY DEF WorldInit
<1>2. /\ DOMAIN alloc \subseteq Address
      /\ \A a \in DOMAIN alloc : alloc[a].info \in Info /\ alloc[a].storage \in Storages
    <2>1. PICK present \in SUBSET Address :
              alloc \in [present -> [info : Info, storage : Storages]]
        BY DEF Allocations
    <2> QED
        BY <2>1
<1>3. /\ accounts = [a \in DOMAIN alloc |->
                        [info |-> alloc[a].info, storage |-> NonZero(alloc[a].storage)]]
      /\ DOMAIN undo = {}
    BY <1>1 DEF Loaded
<1>4. ASSUME NEW a \in DOMAIN accounts
      PROVE  /\ accounts[a] \in Account /\ Clean(accounts[a])
             /\ accounts[a].info = alloc[a].info
    <2>1. a \in DOMAIN alloc
          /\ accounts[a] = [info |-> alloc[a].info, storage |-> NonZero(alloc[a].storage)]
        BY <1>3, <1>4
    <2>2. DOMAIN alloc[a].storage \subseteq Slot
          /\ \A s \in DOMAIN alloc[a].storage : alloc[a].storage[s] \in Word
        BY <1>2, <2>1 DEF Storages
    <2>3. NonZero(alloc[a].storage) \in Storages
          /\ \A s \in DOMAIN NonZero(alloc[a].storage) : NonZero(alloc[a].storage)[s] # 0
        BY <2>2, NonZeroType
    <2> QED
        BY <1>2, <2>1, <2>3 DEF Account, Clean
<1>5. IsMap(accounts)
    BY <1>2, <1>3, <1>4 DEF IsMap
<1>6. \A a \in DOMAIN alloc : alloc[a].info.code \in Code \cup {NoCode}
    BY <1>2 DEF Info
<1>7. WorldTypes /\ BothClean /\ NoneEmptied
    BY <1>1, <1>3, <1>4, <1>5, <1>6 DEF WorldTypes, BothClean, NoneEmptied
<1>8. BothResolve
    <2>1. \A a \in DOMAIN accounts : accounts[a].info.code \in code \cup {NoCode}
        BY <1>1, <1>3, <1>4
    <2> QED
        BY <1>1, <2>1 DEF BothResolve
<1>9. UndoIsComplete
    BY <1>1, <1>3 DEF UndoIsComplete, Original
<1> QED
    BY <1>7, <1>8, <1>9 DEF WorldInv

-----------------------------------------------------------------------------
(* A transaction of the block: what it reports is noted, then committed.   *)
LEMMA TransactionStep ==
    ASSUME WorldInv, NEW touched \in SUBSET Address, NEW changes, DOMAIN changes = touched,
           \A a \in touched : changes[a] \in ChangesOf(Found(accounts, a)),
           Transaction(changes)
    PROVE  WorldInv'
<1> DEFINE After(a) == IF a \in DOMAIN changes THEN Committed(Found(accounts, a), changes[a])
                       ELSE accounts[a]
           next == [a \in DOMAIN accounts \cup DOMAIN changes |-> After(a)]
<1>1. IsMap(accounts) /\ \A a \in DOMAIN accounts : Clean(accounts[a])
    BY DEF WorldInv, WorldTypes, BothClean
<1>2. ASSUME NEW a \in touched
      PROVE  /\ next[a] \in MaybeAccount
             /\ next[a] # Missing => Clean(next[a])
             /\ next[a] # Missing /\ IsEmpty(next[a].info) =>
                    a \in DOMAIN accounts /\ IsEmpty(accounts[a].info)
             /\ \/ next[a] = Missing \/ next[a] = Found(accounts, a)
                \/ /\ changes[a].touched /\ ~ Removes(Found(accounts, a), changes[a])
                   /\ next[a].info = changes[a].info
    <2>1. Found(accounts, a) \in MaybeAccount
          /\ (Found(accounts, a) # Missing => a \in DOMAIN accounts)
        BY <1>1, FoundType
    <2>2. Found(accounts, a) # Missing => Clean(Found(accounts, a))
        BY <1>1, <2>1 DEF Found
    <2>3. next[a] = Committed(Found(accounts, a), changes[a])
          /\ changes[a] \in ChangesOf(Found(accounts, a))
        OBVIOUS
    <2> HIDE DEF next
    <2>4. Found(accounts, a) # Missing => accounts[a] = Found(accounts, a)
        BY <2>1 DEF Found
    <2> QED
        BY <2>1, <2>2, <2>3, <2>4, CommittedType
<1>3. \A a \in DOMAIN accounts \ touched : next[a] = accounts[a] /\ next[a] \in Account
    BY <1>1 DEF IsMap
<1>4. DOMAIN next = DOMAIN accounts \cup touched /\ DOMAIN next \subseteq Address
    BY <1>1 DEF IsMap
<1>5. accounts' = Existing(next) /\ before' = before
      /\ undo' = Noted(touched) /\ code' = code \cup Registered(changes)
    BY DEF Transaction
<1> HIDE DEF next
<1>6. /\ IsMap(accounts')
      /\ \A a : Found(accounts', a) = Found(next, a)
      /\ DOMAIN accounts' = {a \in DOMAIN next : next[a] # Missing}
      /\ \A a \in DOMAIN accounts' : accounts'[a] = next[a]
    <2>1. \A a \in DOMAIN next : next[a] \in MaybeAccount
        BY <1>2, <1>3, <1>4 DEF MaybeAccount
    <2> QED
        BY <1>4, <1>5, <2>1, ExistingFound
<1>7. \A a \in DOMAIN accounts' :
          /\ Clean(accounts'[a])
          /\ IsEmpty(accounts'[a].info) => a \in DOMAIN accounts /\ IsEmpty(accounts[a].info)
    BY <1>1, <1>2, <1>3, <1>4, <1>6
<1>8. code \subseteq code' /\ code' \subseteq Code
    <2>1. Registered(changes) \subseteq Code
        <3>1. \A a \in touched : changes[a].info \in Info
            BY DEF ChangesOf
        <3>2. \A a \in touched : changes[a].info.code \in Code \cup {NoCode}
            BY <3>1 DEF Info
        <3> QED
            BY <3>2 DEF Registered
    <2> QED
        BY <1>5, <2>1 DEF WorldInv, WorldTypes
<1>9. \A a \in DOMAIN accounts' : accounts'[a].info.code \in code' \cup {NoCode}
    <2> SUFFICES ASSUME NEW a \in DOMAIN accounts'
                 PROVE  accounts'[a].info.code \in code' \cup {NoCode}
        OBVIOUS
    <2>1. CASE a \in DOMAIN accounts /\ accounts'[a] = accounts[a]
        BY <1>8, <2>1 DEF WorldInv, BothResolve
    <2>2. CASE /\ a \in touched /\ changes[a].touched
               /\ ~ Removes(Found(accounts, a), changes[a])
               /\ accounts'[a].info = changes[a].info
        BY <1>5, <2>2 DEF Registered
    <2>3. a \in DOMAIN next /\ accounts'[a] = next[a] /\ next[a] # Missing
        BY <1>6
    <2>4. CASE a \notin touched
        BY <1>3, <1>4, <2>1, <2>3, <2>4
    <2>5. CASE a \in touched /\ next[a] = Found(accounts, a)
        BY <2>1, <2>3, <2>5 DEF Found
    <2> QED
        BY <1>2, <2>2, <2>3, <2>4, <2>5
<1>10. /\ DOMAIN undo' = DOMAIN undo \cup touched
       /\ \A a \in DOMAIN undo' : undo'[a] = IF a \in DOMAIN undo THEN undo[a]
                                             ELSE Found(accounts, a)
    BY <1>5 DEF Noted
<1>11. WorldTypes'
    <2>1. \A a \in DOMAIN undo' : undo'[a] \in MaybeAccount
        BY <1>1, <1>10, FoundType DEF WorldInv, WorldTypes
    <2> QED
        BY <1>5, <1>6, <1>8, <1>10, <2>1 DEF WorldInv, WorldTypes
<1>12. BothClean' /\ NoneEmptied' /\ BothResolve'
    BY <1>5, <1>7, <1>8, <1>9 DEF WorldInv, BothClean, NoneEmptied, BothResolve
<1>13. UndoIsComplete'
    <2> SUFFICES ASSUME NEW a \in Address
                 PROVE  (IF a \in DOMAIN undo' THEN undo'[a] ELSE Found(accounts', a))
                            = Found(before, a)
        BY <1>5 DEF UndoIsComplete, Original
    <2>1. Original(a) = Found(before, a)
        BY DEF WorldInv, UndoIsComplete
    <2>2. CASE a \in DOMAIN undo'
        BY <1>10, <2>1, <2>2 DEF Original
    <2>3. CASE a \notin DOMAIN undo'
        <3>1. a \notin touched /\ a \notin DOMAIN undo
            BY <1>10, <2>3
        <3>2. Found(accounts', a) = Found(accounts, a)
            BY <1>3, <1>4, <1>6, <3>1 DEF Found
        <3> QED
            BY <2>1, <2>3, <3>1, <3>2 DEF Original
    <2> QED
        BY <2>2, <2>3
<1> QED
    BY <1>11, <1>12, <1>13 DEF WorldInv

(* A new block begins with nothing to undo.                                *)
LEMMA NextBlockStep == ASSUME WorldInv, NextBlock PROVE WorldInv'
<1>1. undo' = <<>> /\ before' = accounts /\ accounts' = accounts /\ code' = code
      /\ DOMAIN undo' = {}
    BY DEF NextBlock
<1>2. WorldTypes' /\ BothClean' /\ NoneEmptied' /\ BothResolve'
    BY <1>1 DEF WorldInv, WorldTypes, BothClean, NoneEmptied, BothResolve
<1>3. UndoIsComplete'
    BY <1>1 DEF UndoIsComplete, Original
<1> QED
    BY <1>2, <1>3 DEF WorldInv

(* What undoing gives is the map of before.                                *)
LEMMA RestoredIsBefore == ASSUME WorldInv PROVE Restored = before
<1> DEFINE all == [a \in DOMAIN accounts \cup DOMAIN undo |->
                      IF a \in DOMAIN undo THEN undo[a] ELSE accounts[a]]
<1>1. /\ IsMap(accounts) /\ IsMap(before) /\ DOMAIN undo \subseteq Address
      /\ \A a \in DOMAIN undo : undo[a] \in MaybeAccount
    BY DEF WorldInv, WorldTypes
<1>2. DOMAIN all \subseteq Address /\ \A a \in DOMAIN all : all[a] \in MaybeAccount
    BY <1>1 DEF IsMap, MaybeAccount
<1>3. Restored = Existing(all)
    BY DEF Restored
<1>4. \A a \in Address : Found(all, a) = Found(before, a)
    <2> SUFFICES ASSUME NEW a \in Address PROVE Found(all, a) = Original(a)
        BY DEF WorldInv, UndoIsComplete
    <2> QED
        BY DEF Found, Original
<1> HIDE DEF all
<1>5. /\ IsMap(Restored)
      /\ \A a \in Address : Found(Restored, a) = Found(before, a)
    BY <1>2, <1>3, <1>4, ExistingFound
<1>6. \A a \in Address : a \in DOMAIN Restored <=> a \in DOMAIN before
    BY <1>1, <1>5, FoundType
<1>7. DOMAIN Restored = DOMAIN before
    BY <1>1, <1>5, <1>6 DEF IsMap
<1>8. \A a \in DOMAIN before : Restored[a] = before[a]
    BY <1>1, <1>5, <1>7 DEF IsMap, Found
<1> QED
    BY <1>1, <1>5, <1>7, <1>8 DEF IsMap

(* Undoing the block gives the map of before, and its codes are there.     *)
LEMMA UndoBlockStep == ASSUME WorldInv, UndoBlock PROVE WorldInv'
<1>1. undo' = <<>> /\ before' = before /\ accounts' = before /\ code' = code
      /\ DOMAIN undo' = {}
    BY RestoredIsBefore DEF UndoBlock, CodeAfterUndo
<1>2. WorldTypes' /\ BothClean' /\ NoneEmptied' /\ BothResolve'
    BY <1>1 DEF WorldInv, WorldTypes, BothClean, NoneEmptied, BothResolve
<1>3. UndoIsComplete'
    BY <1>1 DEF UndoIsComplete, Original
<1> QED
    BY <1>2, <1>3 DEF WorldInv

(* Every step keeps the invariant.                                         *)
LEMMA WorldStep == WorldInv /\ [WorldNext]_worldVars => WorldInv'
<1> SUFFICES ASSUME WorldInv, [WorldNext]_worldVars PROVE WorldInv'
    OBVIOUS
<1>1. CASE \E touched \in SUBSET Address :
               \E changes \in {f \in [touched -> UNION {ChangesOf(Found(accounts, a)) :
                                                        a \in touched}] :
                                   \A a \in touched : f[a] \in ChangesOf(Found(accounts, a))} :
                   Transaction(changes)
    <2>1. PICK touched \in SUBSET Address :
               \E changes \in {f \in [touched -> UNION {ChangesOf(Found(accounts, a)) :
                                                        a \in touched}] :
                                   \A a \in touched : f[a] \in ChangesOf(Found(accounts, a))} :
                   Transaction(changes)
        BY <1>1
    <2>2. PICK changes \in {f \in [touched -> UNION {ChangesOf(Found(accounts, a)) :
                                                     a \in touched}] :
                                \A a \in touched : f[a] \in ChangesOf(Found(accounts, a))} :
                   Transaction(changes)
        BY <2>1
    <2>3. DOMAIN changes = touched
          /\ \A a \in touched : changes[a] \in ChangesOf(Found(accounts, a))
        OBVIOUS
    <2> QED
        BY <2>2, <2>3, TransactionStep
<1>2. CASE NextBlock
    BY <1>2, NextBlockStep
<1>3. CASE UndoBlock
    BY <1>3, UndoBlockStep
<1>4. CASE UNCHANGED worldVars
    BY <1>4 DEF worldVars, WorldInv, WorldTypes, BothClean, NoneEmptied, BothResolve, UndoIsComplete,
                Original
<1> QED
    BY <1>1, <1>2, <1>3, <1>4 DEF WorldNext

(* The invariant of the world state holds throughout.                      *)
THEOREM WorldInvariance == WorldSpec => []WorldInv
BY InitWorldInv, WorldStep, PTL DEF WorldSpec

(* Undoing the block restores every account and slot it touched and leaves *)
(* the others as they were (UndoRecord::note and apply).                   *)
THEOREM UndoExact == WorldSpec => []UndoIsExact
<1>1. WorldInv => UndoIsExact
    BY RestoredIsBefore DEF UndoIsExact
<1> QED
    BY <1>1, WorldInvariance, PTL

(* No slot is stored as zero, and no block leaves an account stored empty  *)
(* that was not, after any creations, destructions and undos               *)
(* (WorldState::commit, load_genesis).                                     *)
THEOREM MapCanonical == WorldSpec => []MapIsCanonical
<1>1. WorldInv => MapIsCanonical
    BY DEF WorldInv, BothClean, NoneEmptied, Clean, MapIsCanonical
<1> QED
    BY <1>1, WorldInvariance, PTL

(* An account's code can be resolved, whoever else had the same code and   *)
(* was destroyed or undone (commit registers, remove_account leaves it).   *)
THEOREM CodesResolve == WorldSpec => []CodeResolves
<1>1. WorldInv => CodeResolves
    BY DEF WorldInv, BothResolve, CodeResolves
<1> QED
    BY <1>1, WorldInvariance, PTL

(* No account has a zero slot, none was emptied, and its code resolves     *)
(* (commit, load_genesis, insert_account, remove_account).                 *)
THEOREM AccountsSound == WorldSpec => []AccountsAreSound
<1>1. MapIsCanonical /\ CodeResolves => AccountsAreSound
    BY DEF AccountsAreSound
<1> QED
    BY <1>1, MapCanonical, CodesResolve, PTL

-----------------------------------------------------------------------------
(***************************************************************************)
(* A node that booted derives its parameters without loss, and its fee     *)
(* market steers every chain to the gas target and never to zero: for any  *)
(* sets of parameters and any sequence of blocks.                          *)
(***************************************************************************)

Accepted(p) == p \in ParamSets /\ Validates(p)

Booted == Accepted(params)

ParamsInv ==
    /\ params = Unbooted \/ Booted
    /\ next_fee \in Nat
    /\ params = Unbooted \/ BlockGasTarget(params) = 0 \/ next_fee # NoFee

-----------------------------------------------------------------------------
(* Division is exact where nothing remains.                                *)
LEMMA ExactDivision ==
    ASSUME NEW a, NEW b, a \in Nat, b \in Nat \ {0}, a % b = 0
    PROVE  a \div b \in Nat /\ (a \div b) * b = a
BY SMT

(* What division gives is no more than its share.                          *)
LEMMA QuotientBounds ==
    ASSUME NEW a, NEW b, a \in Nat, b \in Nat \ {0}
    PROVE  a \div b \in Nat /\ (a \div b) * b <= a
BY SMT

(* A product of positive numbers is positive, and each factor at most it.  *)
LEMMA ProductBounds ==
    ASSUME NEW a, NEW b, a \in Nat, b \in Nat \ {0}
    PROVE  a * b \in Nat /\ a <= a * b
BY SMT

(* Multiplication keeps the order.                                         *)
LEMMA ProductMonotone ==
    ASSUME NEW a, NEW b, NEW c, a \in Nat, b \in Nat, c \in Nat, a <= b
    PROVE  a * c <= b * c
BY SMT

(* Blocks fill a second, and a booted node's numbers are positive.         *)
LEMMA BlocksFillASecond ==
    ASSUME NEW p, Accepted(p)
    PROVE  /\ p.interval_ms \in Nat \ {0}
           /\ BlocksPerSecond(p) \in Nat \ {0}
           /\ BlocksPerSecond(p) * p.interval_ms = SecondMs
<1>1. p.interval_ms \in Nat \ {0} /\ SecondMs \in Nat \ {0}
      /\ SecondMs % p.interval_ms = 0
    BY ParamsAssumption DEF Accepted, Validates
<1>2. BlocksPerSecond(p) \in Nat
      /\ BlocksPerSecond(p) * p.interval_ms = SecondMs
    BY <1>1, ExactDivision DEF BlocksPerSecond
<1>3. BlocksPerSecond(p) # 0
    BY <1>1, <1>2
<1> QED
    BY <1>1, <1>2, <1>3

(* The gas of a second's blocks is the throughput.                         *)
LEMMA GasAddsUp ==
    ASSUME NEW p, Accepted(p)
    PROVE  /\ BlockGasTarget(p) \in Nat
           /\ BlockGasTarget(p) * BlocksPerSecond(p) = p.gas_per_second
<1>1. p.gas_per_second \in Nat /\ p.gas_per_second % BlocksPerSecond(p) = 0
    BY ParamsAssumption DEF Accepted, Validates
<1> QED
    BY <1>1, BlocksFillASecond, ExactDivision DEF BlockGasTarget

(* What the fee market is steered by is the target, and the gas a block    *)
(* uses is a number.                                                       *)
LEMMA SteeredByTarget ==
    ASSUME NEW p, Accepted(p)
    PROVE  /\ SteeredBy(p) \div Elasticity = BlockGasTarget(p)
           /\ BlockGasLimit(p) \in Nat
<1>1. BlockGasTarget(p) \in Nat
    BY GasAddsUp
<1>2. (2 * BlockGasTarget(p)) \div 2 = BlockGasTarget(p)
    BY <1>1
<1> QED
    BY <1>1, <1>2, ParamsAssumption DEF SteeredBy, Elasticity, BlockGasLimit

(* The next base fee: above the fee where the block used more than the     *)
(* target, at most it elsewhere, and never zero.                           *)
LEMMA NextFee ==
    ASSUME NEW p, Accepted(p), BlockGasTarget(p) # 0, NEW fee, fee \in Nat \ {0},
           NEW used, used \in 0..BlockGasLimit(p)
    PROVE  /\ NextBaseFee(p, used, fee) \in Nat \ {0}
           /\ used > BlockGasTarget(p) <=> NextBaseFee(p, used, fee) > fee
<1> DEFINE target == BlockGasTarget(p)
           eighths == target * ChangeDenominator
<1>1. target \in Nat \ {0} /\ used \in Nat
    BY GasAddsUp, SteeredByTarget
<1>2. NextBaseFee(p, used, fee) =
          IF used = target THEN fee
          ELSE IF used > target THEN fee + Larger(1, (fee * (used - target)) \div eighths)
          ELSE fee - (fee * (target - used)) \div eighths
    BY SteeredByTarget, BlockGasTarget(p) # 0 DEF NextBaseFee
<1>3. eighths = 8 * target
    BY <1>1 DEF ChangeDenominator
<1>4. eighths \in Nat \ {0} /\ target < eighths
    BY <1>1, <1>3
<1> HIDE DEF target, eighths
<1>5. CASE used > target
    <2> DEFINE rise == (fee * (used - target)) \div eighths
    <2>1. fee * (used - target) \in Nat
        <3>1. used - target \in Nat
            BY <1>1, <1>5
        <3> QED
            BY <3>1
    <2>2. rise \in Nat
        BY <1>4, <2>1, QuotientBounds
    <2>3. NextBaseFee(p, used, fee) = fee + Larger(1, rise)
        BY <1>2, <1>5
    <2> HIDE DEF rise
    <2> QED
        BY <1>5, <2>2, <2>3 DEF Larger, target
<1>6. CASE ~ (used > target) /\ used # target
    <2> DEFINE fall == (fee * (target - used)) \div eighths
    <2>1. target - used \in Nat /\ target - used <= target
        BY <1>1, <1>6
    <2>2. fee * (target - used) \in Nat /\ fee * (target - used) <= fee * target
        <3> DEFINE short == target - used
        <3> HIDE DEF short
        <3>1. short \in Nat /\ short <= target
            BY <2>1 DEF short
        <3>2. short * fee <= target * fee
            BY <1>1, <3>1, ProductMonotone
        <3>3. fee * short \in Nat /\ fee * short <= fee * target
            BY <1>1, <3>1, <3>2
        <3> QED
            BY <3>3 DEF short
    <2>3. fall \in Nat /\ fall * eighths <= fee * target
        <3> DEFINE product == fee * (target - used)
        <3>1. fall = product \div eighths
            OBVIOUS
        <3>2. product \in Nat /\ product <= fee * target
            BY <2>2
        <3> HIDE DEF product, fall
        <3>3. fall \in Nat /\ fall * eighths <= product
            BY <1>4, <3>1, <3>2, QuotientBounds
        <3> QED
            BY <1>1, <1>4, <3>2, <3>3
    <2>4. NextBaseFee(p, used, fee) = fee - fall
        BY <1>2, <1>6
    <2> HIDE DEF fall
    <2>5. fall < fee
        <3> SUFFICES ASSUME fee <= fall PROVE FALSE
            BY <2>3
        <3>1. fee * eighths <= fall * eighths
            BY <1>4, <2>3, ProductMonotone
        <3>2. fee * (8 * target) <= fee * target
            BY <1>1, <1>3, <1>4, <2>3, <3>1
        <3>3. fee * target \in Nat \ {0} /\ fee * (8 * target) = 8 * (fee * target)
            BY <1>1
        <3> QED
            BY <3>2, <3>3
    <2> QED
        BY <1>6, <2>3, <2>4, <2>5 DEF target
<1>7. CASE used = target
    BY <1>1, <1>2, <1>7 DEF target
<1> QED
    BY <1>5, <1>6, <1>7

(* With a gas target the next fee is a fee; with none it stays, or there   *)
(* is none.                                                                *)
LEMMA NextFeeType ==
    ASSUME NEW p, Accepted(p), NEW fee, fee \in Nat \ {0},
           NEW used, used \in 0..BlockGasLimit(p)
    PROVE  /\ NextBaseFee(p, used, fee) \in Nat
           /\ BlockGasTarget(p) = 0 \/ NextBaseFee(p, used, fee) # NoFee
<1>1. CASE BlockGasTarget(p) # 0
    BY <1>1, NextFee DEF NoFee
<1>2. CASE BlockGasTarget(p) = 0
    BY <1>2, SteeredByTarget DEF NextBaseFee, NoFee
<1> QED
    BY <1>1, <1>2

-----------------------------------------------------------------------------
(* Every step keeps the invariant.                                         *)
LEMMA ParamsStep == ParamsInv /\ [ParamsNext]_paramsVars => ParamsInv'
<1> SUFFICES ASSUME ParamsInv, [ParamsNext]_paramsVars PROVE ParamsInv'
    OBVIOUS
<1>1. ASSUME NEW p \in ParamSets, Boot(p) PROVE ParamsInv'
    <2>1. Accepted(p) /\ params' = p /\ next_fee' = NextBaseFee(p, 0, InitialBaseFee)
        BY <1>1 DEF Boot, Accepted
    <2>2. InitialBaseFee \in Nat \ {0} /\ 0 \in 0..BlockGasLimit(p)
        BY <2>1, ParamsAssumption, SteeredByTarget
    <2>3. next_fee' \in Nat /\ (BlockGasTarget(p) = 0 \/ next_fee' # NoFee)
        BY <2>1, <2>2, NextFeeType
    <2> QED
        BY <2>1, <2>3 DEF ParamsInv, Booted, Accepted, Validates, BlockGasTarget, BlocksPerSecond
<1>2. ASSUME params # Unbooted, NEW used \in 0..BlockGasLimit(params), ExecuteBlock(used)
      PROVE  ParamsInv'
    <2>1. Accepted(params) /\ next_fee \in Nat \ {0}
        BY <1>2 DEF ParamsInv, Booted, ExecuteBlock, NoFee
    <2>2. next_fee' = NextBaseFee(params, used, next_fee) /\ params' = params
        BY <1>2 DEF ExecuteBlock
    <2>3. next_fee' \in Nat /\ (BlockGasTarget(params) = 0 \/ next_fee' # NoFee)
        BY <1>2, <2>1, <2>2, NextFeeType
    <2> QED
        BY <2>1, <2>2, <2>3
           DEF ParamsInv, Booted, Accepted, Validates, BlockGasTarget, BlocksPerSecond
<1>3. CASE UNCHANGED paramsVars
    BY <1>3 DEF paramsVars, ParamsInv, Booted, Accepted, Validates, BlockGasTarget, BlocksPerSecond
<1> QED
    BY <1>1, <1>2, <1>3 DEF ParamsNext

(* A node runs with a set that validate accepts, and its fee is positive   *)
(* where the set has a gas target.                                         *)
THEOREM ParamsInvariance == ParamsSpec => []ParamsInv
<1>1. ParamsInit => ParamsInv
    BY ParamsAssumption DEF ParamsInit, ParamsInv
<1> QED
    BY <1>1, ParamsStep, PTL DEF ParamsSpec

(* No derived parameter of a booted node lost anything to rounding         *)
(* (ChainParams::validate and the derivations it guards).                  *)
THEOREM DerivedExact == ParamsSpec => []DerivedAreExact
<1>1. ASSUME ParamsInv, params # Unbooted PROVE DerivedAreExact
    <2>1. Accepted(params)
        BY <1>1 DEF ParamsInv, Booted
    <2> DEFINE bps == BlocksPerSecond(params)
    <2>2. bps \in Nat \ {0} /\ params.interval_ms \in Nat \ {0}
          /\ bps * params.interval_ms = SecondMs
        BY <2>1, BlocksFillASecond
    <2>3. params.ghostdag_k \in Nat \ {0}
        BY <2>1, ParamsAssumption DEF Accepted, Validates
    <2> HIDE DEF bps
    <2>4. /\ (LagSeconds * bps) * params.interval_ms = LagSeconds * SecondMs
          /\ (WindowSeconds * bps) * params.interval_ms = WindowSeconds * SecondMs
        <3>1. LagSeconds \in Nat /\ WindowSeconds \in Nat
            BY ParamsAssumption
        <3>2. /\ (LagSeconds * bps) * params.interval_ms = LagSeconds * (bps * params.interval_ms)
              /\ (WindowSeconds * bps) * params.interval_ms
                     = WindowSeconds * (bps * params.interval_ms)
            BY <2>2, <3>1
        <3> QED
            BY <2>2, <3>2
    <2>5. LagSeconds * bps <= WindowSeconds * bps
        BY <2>2, ParamsAssumption, ProductMonotone
    <2>6. KMultiple * params.ghostdag_k >= KMultiple
        BY <2>3, ParamsAssumption, ProductBounds
    <2> QED
        BY <2>1, <2>2, <2>4, <2>5, <2>6, GasAddsUp
           DEF DerivedAreExact, DeferredStateRootLag, PruningWindowBlocks, MergesetSizeLimit, bps
<1>2. ParamsInv => DerivedAreExact
    BY <1>1 DEF DerivedAreExact
<1> QED
    BY <1>2, ParamsInvariance, PTL

(* The base fee of a set with a gas target rises exactly where a block     *)
(* used more than the target, and it never falls to zero (next_base_fee).  *)
THEOREM FeeSteers == ParamsSpec => []FeeSteersToTarget
<1>1. ASSUME ParamsInv, params # Unbooted, BlockGasTarget(params) > 0,
             NEW used \in 0..BlockGasLimit(params)
      PROVE  LET fee == NextBaseFee(params, used, next_fee)
             IN  next_fee >= 1 /\ fee >= 1 /\ (used > BlockGasTarget(params) <=> fee > next_fee)
    <2>1. Accepted(params) /\ BlockGasTarget(params) # 0 /\ next_fee \in Nat \ {0}
        BY <1>1, GasAddsUp DEF ParamsInv, Booted, NoFee
    <2>2. /\ NextBaseFee(params, used, next_fee) \in Nat \ {0}
          /\ used > BlockGasTarget(params) <=> NextBaseFee(params, used, next_fee) > next_fee
        BY <1>1, <2>1, NextFee
    <2> QED
        BY <2>1, <2>2
<1>2. ParamsInv => FeeSteersToTarget
    BY <1>1 DEF FeeSteersToTarget
<1> QED
    BY <1>2, ParamsInvariance, PTL

-----------------------------------------------------------------------------
(* Difficulty.  What there is to know of powers of two, quotients and the  *)
(* digits of a target comes first.                                         *)

(* Induction on the natural numbers, for a set. *)
LEMMA CountingUp ==
    ASSUME NEW S, 0 \in S, \A n \in Nat : n \in S => n + 1 \in S
    PROVE  Nat \subseteq S
<1>1. SUFFICES ASSUME Nat \ S # {} PROVE FALSE
    OBVIOUS
<1>2. IsWellFoundedOn(OpToRel(<, Nat), Nat)
    BY NatLessThanWellFounded
<1>3. PICK n \in Nat \ S : \A m \in Nat \ S : ~ (<<m, n>> \in OpToRel(<, Nat))
    BY <1>1, <1>2, WFMin, Nat \ S \subseteq Nat
<1>4. \A m \in Nat \ S : ~ (m < n)
    BY <1>3 DEF OpToRel
<1>5. n - 1 \in Nat
    OBVIOUS
<1> QED
    BY <1>4, <1>5

(* Powers of two: as many as subsets, so one element more doubles them. *)
LEMMA PowerCounts ==
    ASSUME NEW n \in Nat
    PROVE  IsFiniteSet(SUBSET (1..n)) /\ Cardinality(SUBSET (1..n)) = 2^n
<1>1. IsFiniteSet(1..n) /\ Cardinality(1..n) = n
    BY FS_Interval
<1> QED
    BY <1>1, FS_SUBSET

LEMMA PowerStep == ASSUME NEW n \in Nat PROVE 2^(n + 1) = 2^n + 2^n
<1> DEFINE A == SUBSET (1..n)
           with(s) == s \cup {n + 1}
           B == {with(s) : s \in A}
<1>1. IsFiniteSet(A) /\ Cardinality(A) = 2^n /\ Cardinality(A) \in Nat
    BY PowerCounts, FS_CardinalityType
<1>2. Cardinality(SUBSET (1..(n + 1))) = 2^(n + 1)
    BY PowerCounts, n + 1 \in Nat
<1>3. [s \in A |-> with(s)] \in Bijection(A, B)
  <2> DEFINE f == [s \in A |-> with(s)]
  <2>1. f \in [A -> B]
      OBVIOUS
  <2>2. ASSUME NEW s \in A, NEW t \in A, f[s] = f[t] PROVE s = t
    <3>1. n + 1 \notin s /\ n + 1 \notin t
        OBVIOUS
    <3>2. s = with(s) \ {n + 1} /\ t = with(t) \ {n + 1}
        BY <3>1
    <3> QED
        BY <2>2, <3>2
  <2>3. \A b \in B : \E s \in A : f[s] = b
      OBVIOUS
  <2> QED
      BY <2>1, <2>2, <2>3 DEF Bijection, Injection, Surjection, IsInjective
<1>4. IsFiniteSet(B) /\ Cardinality(B) = Cardinality(A)
    BY <1>1, <1>3, FS_Bijection DEF ExistsBijection
<1>5. A \cap B = {}
  <2>1. \A s \in A : n + 1 \notin s
      OBVIOUS
  <2>2. \A s \in B : n + 1 \in s
      OBVIOUS
  <2> QED
      BY <2>1, <2>2
<1>6. A \cup B = SUBSET (1..(n + 1))
  <2>1. ASSUME NEW s \in SUBSET (1..(n + 1)) PROVE s \in A \cup B
    <3>1. CASE n + 1 \in s
      <4>1. s \ {n + 1} \in A
          BY <2>1
      <4>2. s = with(s \ {n + 1})
          BY <3>1
      <4> QED
          BY <4>1, <4>2
    <3>2. CASE n + 1 \notin s
        BY <2>1, <3>2
    <3> QED
        BY <3>1, <3>2
  <2>2. ASSUME NEW s \in A \cup B PROVE s \in SUBSET (1..(n + 1))
    <3>1. 1..n \subseteq 1..(n + 1) /\ n + 1 \in 1..(n + 1)
        OBVIOUS
    <3>2. PICK t \in SUBSET (1..n) : s = t \/ s = with(t)
        BY <2>2
    <3> QED
        BY <3>1, <3>2
  <2> QED
      BY <2>1, <2>2
<1> HIDE DEF A, B
<1>7. Cardinality(A \cup B) = Cardinality(A) + Cardinality(B) - Cardinality(A \cap B)
    BY <1>1, <1>4, FS_Union
<1>8. Cardinality(A \cap B) = 0
    BY <1>5, FS_EmptySet
<1>9. Cardinality(A \cup B) = 2^(n + 1)
    BY <1>2, <1>6
<1>10. Cardinality(A \cup B) = 2^n + 2^n - 0
    BY <1>1, <1>4, <1>7, <1>8
<1>11. 2^n \in Nat
    BY <1>1
<1> QED
    BY <1>9, <1>10, <1>11

LEMMA PowerType == ASSUME NEW n \in Nat PROVE 2^n \in Nat \ {0}
<1> DEFINE S == {m \in Nat : 2^m \in Nat \ {0}}
<1>1. 0 \in S
    BY 2^0 = 1
<1>2. ASSUME NEW m \in Nat, m \in S PROVE m + 1 \in S
    BY <1>2, PowerStep
<1>3. Nat \subseteq S
  <2> HIDE DEF S
  <2> QED
      BY <1>1, <1>2, CountingUp
<1> QED
    BY <1>3

LEMMA PowerAdds == ASSUME NEW m \in Nat, NEW n \in Nat PROVE 2^(m + n) = 2^m * 2^n
<1> DEFINE S == {i \in Nat : 2^(m + i) = 2^m * 2^i}
<1>1. 0 \in S
    BY PowerType, 2^0 = 1
<1>2. ASSUME NEW i \in Nat, i \in S PROVE i + 1 \in S
  <2>1. 2^(m + (i + 1)) = 2^(m + i) + 2^(m + i)
      BY PowerStep, m + (i + 1) = (m + i) + 1, m + i \in Nat
  <2>2. 2^(i + 1) = 2^i + 2^i
      BY PowerStep
  <2>3. 2^m \in Nat /\ 2^i \in Nat /\ 2^(m + i) = 2^m * 2^i
      BY <1>2, PowerType
  <2>4. 2^m * (2^i + 2^i) = 2^m * 2^i + 2^m * 2^i
      BY <2>3
  <2> QED
      BY <2>1, <2>2, <2>3, <2>4
<1>3. Nat \subseteq S
  <2> HIDE DEF S
  <2> QED
      BY <1>1, <1>2, CountingUp
<1> QED
    BY <1>3

LEMMA PowerGrows ==
    ASSUME NEW m \in Nat, NEW n \in Nat
    PROVE  (m < n <=> 2^m < 2^n) /\ (m <= n <=> 2^m <= 2^n)
<1>1. ASSUME NEW a \in Nat, NEW b \in Nat, a < b PROVE 2^a < 2^b
  <2>1. PICK c \in Nat : b = (a + 1) + c
      BY <1>1, b - (a + 1) \in Nat
  <2>2. 2^b = 2^(a + 1) * 2^c /\ 2^(a + 1) = 2^a + 2^a
      BY <2>1, PowerAdds, PowerStep, a + 1 \in Nat
  <2>3. 2^a \in Nat \ {0} /\ 2^c \in Nat \ {0} /\ 2^(a + 1) \in Nat
      BY PowerType, a + 1 \in Nat
  <2>4. ASSUME NEW x \in Nat, NEW y \in Nat \ {0} PROVE x * y >= x
      BY <2>4
  <2>5. 2^b >= 2^(a + 1)
      BY <2>2, <2>3, <2>4
  <2> QED
      BY <2>2, <2>3, <2>5, PowerType
<1>2. 2^m \in Nat /\ 2^n \in Nat
    BY PowerType
<1>3. m < n \/ m = n \/ n < m
    OBVIOUS
<1> QED
    BY <1>1, <1>2, <1>3

(* Quotients. *)
LEMMA Quotient ==
    ASSUME NEW a \in Int, NEW b \in Nat \ {0}
    PROVE  a \div b \in Int /\ b * (a \div b) <= a /\ a < b * (a \div b) + b
OBVIOUS

LEMMA QuotientIs ==
    ASSUME NEW a \in Int, NEW b \in Nat \ {0}, NEW q \in Int, b * q <= a, a < b * q + b
    PROVE  a \div b = q
<1>1. a \div b \in Int /\ b * (a \div b) <= a /\ a < b * (a \div b) + b
    BY Quotient
<1>2. ASSUME NEW x \in Int, NEW y \in Int, x < y PROVE b * x + b <= b * y
  <2>1. PICK d \in Nat : y = (x + 1) + d
      BY <1>2, y - (x + 1) \in Nat
  <2>2. b * y = b * (x + 1) + b * d /\ b * d >= 0 /\ b * (x + 1) = b * x + b
      BY <2>1
  <2>3. b * x \in Int /\ b * y \in Int /\ b * d \in Int
      OBVIOUS
  <2> QED
      BY <2>2, <2>3
<1>3. b * q \in Int /\ b * (a \div b) \in Int
    BY <1>1
<1> QED
    BY <1>1, <1>2, <1>3

LEMMA QuotientGrows ==
    ASSUME NEW a \in Int, NEW c \in Int, NEW b \in Nat \ {0}, a <= c
    PROVE  a \div b <= c \div b
<1> DEFINE x == a \div b
           y == c \div b
<1>1. x \in Int /\ b * x <= a
    BY Quotient
<1>2. y \in Int /\ c < b * y + b
    BY Quotient
<1> HIDE DEF x, y
<1>3. SUFFICES ASSUME y < x PROVE FALSE
    BY <1>1, <1>2 DEF x, y
<1>4. PICK d \in Nat : x = (y + 1) + d
    BY <1>1, <1>2, <1>3, x - (y + 1) \in Nat
<1>5. b * x = b * y + b + b * d /\ b * d \in Nat
    BY <1>2, <1>4
<1>6. b * x \in Int /\ b * y \in Int
    BY <1>1, <1>2
<1> QED
    BY <1>1, <1>2, <1>5, <1>6

LEMMA QuotientOfNat ==
    ASSUME NEW a \in Nat, NEW b \in Nat \ {0}
    PROVE  a \div b \in Nat /\ (a \div b) * b <= a /\ a < (a \div b) * b + b
<1>1. a \div b \in Int /\ b * (a \div b) <= a /\ a < b * (a \div b) + b
    BY Quotient
<1>2. (a \div b) * b = b * (a \div b)
    BY <1>1
<1>3. 0 \div b <= a \div b
    BY QuotientGrows
<1>4. 0 \div b = 0
    BY QuotientIs, 0 \in Int
<1> QED
    BY <1>1, <1>2, <1>3, <1>4

LEMMA QuotientExact ==
    ASSUME NEW q \in Int, NEW b \in Nat \ {0}
    PROVE  (q * b) \div b = q
<1>1. q * b \in Int /\ b * q = q * b
    OBVIOUS
<1> QED
    BY <1>1, QuotientIs

LEMMA QuotientTwice ==
    ASSUME NEW t \in Nat, NEW a \in Nat \ {0}, NEW b \in Nat \ {0}
    PROVE  (t \div a) \div b = t \div (a * b)
<1> DEFINE x == t \div a
           q == x \div b
<1>1. x \in Nat /\ x * a <= t /\ t < x * a + a
    BY QuotientOfNat
<1> HIDE DEF x
<1>2. q \in Nat /\ q * b <= x /\ x < q * b + b
    BY <1>1, QuotientOfNat
<1> HIDE DEF q
<1>3. ASSUME NEW i \in Nat, NEW j \in Nat, i <= j PROVE i * a <= j * a
  <2>1. PICK d \in Nat : j = i + d
      BY <1>3, j - i \in Nat
  <2>2. j * a = i * a + d * a /\ d * a \in Nat /\ i * a \in Nat
      BY <2>1
  <2> QED
      BY <2>2
<1>4. (q * b) * a <= x * a
    BY <1>1, <1>2, <1>3, q * b \in Nat
<1>5. (x + 1) * a <= (q * b + b) * a
    BY <1>1, <1>2, <1>3, q * b + b \in Nat, x + 1 \in Nat, x + 1 <= q * b + b
<1>6. (q * b) * a = (a * b) * q /\ (q * b + b) * a = (a * b) * q + a * b
    BY <1>2
<1>7. (x + 1) * a = x * a + a
    BY <1>1
<1>8. a * b \in Nat \ {0} /\ (a * b) * q \in Nat /\ x * a \in Nat
    BY <1>1, <1>2
<1>9. (a * b) * q <= t /\ t < (a * b) * q + a * b
    BY <1>1, <1>4, <1>5, <1>6, <1>7, <1>8
<1>10. t \div (a * b) = q
    BY <1>2, <1>8, <1>9, QuotientIs
<1> QED
    BY <1>10 DEF q, x

-----------------------------------------------------------------------------
(* The compact encoding keeps a number of leading digits: it cuts off some *)
(* low bits of the target.                                                 *)
FloorTo(t, n) == (t \div 2^n) * 2^n

(* The length of a number in bits, and how many of them are cut off. *)
HasBits(t, b) == b \in 1..Width /\ 2^(b - 1) <= t /\ t < 2^b

Cut(b) == IF b \div DigitBits <= 2 THEN 0 ELSE DigitBits * (b \div DigitBits - 2)

LEMMA Widths ==
    ASSUME DifficultyAssumption
    PROVE  /\ Width \in Nat \ {0} /\ DigitBits \in Nat \ {0} /\ RadixBits \in Nat \ {0}
           /\ 2^Width \in Nat \ {0} /\ Target \subseteq Nat \ {0}
           /\ 2^DigitBits \in Nat \ {0} /\ 2^RadixBits \in Nat \ {0}
           /\ \A t \in Target : t < 2^Width
<1>1. Width \in Nat \ {0} /\ DigitBits \in Nat \ {0} /\ RadixBits \in Nat \ {0}
    BY DEF DifficultyAssumption
<1> QED
    BY <1>1, PowerType DEF Target

LEMMA BitsExist ==
    ASSUME DifficultyAssumption, NEW t \in Target
    PROVE  \E b \in 1..Width : HasBits(t, b)
<1> DEFINE S == {n \in Nat : t < 2^n}
<1>1. /\ Width \in Nat \ {0} /\ t \in Nat \ {0} /\ t < 2^Width
    BY Widths
<1>2. Width \in S
    BY <1>1
<1>3. IsWellFoundedOn(OpToRel(<, Nat), Nat)
    BY NatLessThanWellFounded
<1>4. PICK b \in S : \A m \in S : ~ (<<m, b>> \in OpToRel(<, Nat))
  <2>1. S \subseteq Nat /\ S # {}
      BY <1>2
  <2> HIDE DEF S
  <2> QED
      BY <1>3, <2>1, WFMin
<1>5. b \in Nat /\ t < 2^b
    OBVIOUS
<1>6. \A m \in S : ~ (m < b)
    BY <1>4 DEF OpToRel
<1>7. b # 0
  <2>1. SUFFICES ASSUME b = 0 PROVE FALSE
      OBVIOUS
  <2>2. 2^b = 1
      BY <2>1, 2^0 = 1
  <2> QED
      BY <1>1, <1>5, <2>2
<1>8. b - 1 \in Nat /\ b - 1 \notin S
    BY <1>5, <1>6, <1>7
<1>9. 2^(b - 1) <= t
    BY <1>1, <1>8, PowerType
<1>10. b <= Width
    BY <1>1, <1>2, <1>5, <1>6
<1> QED
    BY <1>1, <1>5, <1>7, <1>9, <1>10 DEF HasBits

LEMMA FloorType ==
    ASSUME NEW t \in Nat, NEW n \in Nat
    PROVE  FloorTo(t, n) \in Nat /\ FloorTo(t, n) <= t /\ t < FloorTo(t, n) + 2^n
<1>1. 2^n \in Nat \ {0}
    BY PowerType
<1>2. t \div 2^n \in Nat /\ (t \div 2^n) * 2^n <= t /\ t < (t \div 2^n) * 2^n + 2^n
    BY <1>1, QuotientOfNat
<1> QED
    BY <1>1, <1>2 DEF FloorTo

LEMMA FloorGrows ==
    ASSUME NEW t \in Nat, NEW u \in Nat, NEW n \in Nat, t <= u
    PROVE  FloorTo(t, n) <= FloorTo(u, n)
<1>1. 2^n \in Nat \ {0}
    BY PowerType
<1> DEFINE x == t \div 2^n
           y == u \div 2^n
<1>2. x \in Nat /\ y \in Nat /\ x <= y
    BY <1>1, QuotientOfNat, QuotientGrows
<1> HIDE DEF x, y
<1>3. PICK d \in Nat : y = x + d
    BY <1>2, y - x \in Nat
<1>4. y * 2^n = x * 2^n + d * 2^n /\ d * 2^n \in Nat /\ x * 2^n \in Nat
    BY <1>1, <1>2, <1>3
<1> QED
    BY <1>4 DEF FloorTo, x, y

(* A multiple of a greater power is one of a smaller: nothing is cut off.  *)
LEMMA FloorOfMultiple ==
    ASSUME NEW q \in Nat, NEW m \in Nat, NEW n \in Nat, n <= m
    PROVE  FloorTo(q * 2^m, n) = q * 2^m
<1>1. PICK c \in Nat : m = c + n
    BY m - n \in Nat
<1>2. 2^m = 2^c * 2^n /\ 2^c \in Nat /\ 2^n \in Nat \ {0}
    BY <1>1, PowerAdds, PowerType
<1>3. q * 2^m = (q * 2^c) * 2^n /\ q * 2^c \in Nat
    BY <1>2
<1>4. (q * 2^m) \div 2^n = q * 2^c
    BY <1>2, <1>3, QuotientExact
<1> QED
    BY <1>3, <1>4 DEF FloorTo

(* The leading digits of t as a mantissa for the exponent k. *)
Scale(t, k) ==
    IF k <= 3 THEN t * 2^(DigitBits * (3 - k)) ELSE t \div 2^(DigitBits * (k - 3))

LEMMA DigitProducts ==
    ASSUME DifficultyAssumption, NEW i \in Nat
    PROVE  /\ DigitBits * i \in Nat /\ DigitBits * (i + 1) = DigitBits * i + DigitBits
           /\ i * DigitBits = DigitBits * i
           /\ 2^(DigitBits * i) \in Nat \ {0}
           /\ 2^(DigitBits * (i + 1)) = 2^(DigitBits * i) * 2^DigitBits
<1>1. DigitBits \in Nat \ {0}
    BY Widths
<1>2. DigitBits * i \in Nat /\ DigitBits * (i + 1) = DigitBits * i + DigitBits
    BY <1>1
<1> QED
    BY <1>1, <1>2, PowerAdds, PowerType

LEMMA ScaleType ==
    ASSUME DifficultyAssumption, NEW t \in Nat, NEW k \in Nat
    PROVE  Scale(t, k) \in Nat
<1>1. CASE k <= 3
  <2>1. 2^(DigitBits * (3 - k)) \in Nat \ {0}
      BY <1>1, DigitProducts, 3 - k \in Nat
  <2> QED
      BY <1>1, <2>1 DEF Scale
<1>2. CASE k > 3
  <2>1. 2^(DigitBits * (k - 3)) \in Nat \ {0}
      BY <1>2, DigitProducts, k - 3 \in Nat
  <2> QED
      BY <1>2, <2>1, QuotientOfNat DEF Scale
<1> QED
    BY <1>1, <1>2

(* One digit less, one more in the exponent. *)
LEMMA ScaleNext ==
    ASSUME DifficultyAssumption, NEW t \in Nat, NEW k \in Nat
    PROVE  Scale(t, k + 1) = Scale(t, k) \div 2^DigitBits
<1>1. 2^DigitBits \in Nat \ {0}
    BY Widths
<1>2. CASE k <= 2
  <2> DEFINE i == 2 - k
  <2>1. i \in Nat /\ 3 - k = i + 1 /\ 3 - (k + 1) = i
      BY <1>2
  <2> HIDE DEF i
  <2>2. /\ 2^(DigitBits * i) \in Nat \ {0}
        /\ 2^(DigitBits * (i + 1)) = 2^(DigitBits * i) * 2^DigitBits
      BY <2>1, DigitProducts
  <2>3. Scale(t, k) = t * 2^(DigitBits * (i + 1)) /\ Scale(t, k + 1) = t * 2^(DigitBits * i)
      BY <1>2, <2>1 DEF Scale
  <2> DEFINE x == t * 2^(DigitBits * i)
  <2>4. Scale(t, k) = x * 2^DigitBits /\ x \in Nat /\ Scale(t, k + 1) = x
      BY <1>1, <2>2, <2>3
  <2> HIDE DEF x
  <2>5. (x * 2^DigitBits) \div 2^DigitBits = x
    <3>1. x \in Int /\ 2^DigitBits \in Nat \ {0}
        BY <1>1, <2>4
    <3> QED
        BY <3>1, QuotientExact
  <2> QED
      BY <2>4, <2>5
<1>3. CASE k = 3
  <2>1. DigitBits * (3 - k) = 0 /\ DigitBits * (k + 1 - 3) = DigitBits
      BY <1>3, Widths
  <2>2. Scale(t, k) = t * 2^(DigitBits * (3 - k))
      BY <1>3 DEF Scale
  <2>3. 2^(DigitBits * (3 - k)) = 1
      BY <2>1, 2^0 = 1
  <2>4. Scale(t, k + 1) = t \div 2^(DigitBits * (k + 1 - 3))
      BY <1>3 DEF Scale
  <2> QED
      BY <2>1, <2>2, <2>3, <2>4
<1>4. CASE k > 3
  <2> DEFINE i == k - 3
  <2>1. i \in Nat /\ k + 1 - 3 = i + 1 /\ k - 3 = i
      BY <1>4
  <2> HIDE DEF i
  <2>2. /\ 2^(DigitBits * i) \in Nat \ {0}
        /\ 2^(DigitBits * (i + 1)) = 2^(DigitBits * i) * 2^DigitBits
      BY <2>1, DigitProducts
  <2>3. Scale(t, k) = t \div 2^(DigitBits * i) /\ Scale(t, k + 1) = t \div 2^(DigitBits * (i + 1))
      BY <1>4, <2>1 DEF Scale
  <2> QED
      BY <1>1, <2>2, <2>3, QuotientTwice
<1> QED
    BY <1>2, <1>3, <1>4

(* What a scaled target decodes to. *)
Lost(k) == IF k <= 3 THEN 0 ELSE DigitBits * (k - 3)

LEMMA LostType ==
    ASSUME DifficultyAssumption, NEW k \in Nat
    PROVE  Lost(k) \in Nat
<1>1. k > 3 => DigitBits * (k - 3) \in Nat
    BY DigitProducts, k > 3 => k - 3 \in Nat
<1> QED
    BY <1>1 DEF Lost

LEMMA DecodedScale ==
    ASSUME DifficultyAssumption, NEW t \in Target, NEW k \in Nat,
           Scale(t, k) < SignBit, Lost(k) < Width
    PROVE  Decoded([exponent |-> k, mantissa |-> Scale(t, k)]) = FloorTo(t, Lost(k))
<1> DEFINE m == Scale(t, k)
           bits == [exponent |-> k, mantissa |-> m]
           places == k - 3
           target == IF places <= 0 THEN m \div 2^(DigitBits * (-places))
                     ELSE m * 2^(DigitBits * places)
<1>1. /\ t \in Nat /\ t < 2^Width /\ 2^Width \in Nat /\ Width \in Nat \ {0}
      /\ DigitBits \in Nat \ {0}
    BY Widths
<1>2. m \in Nat
    BY <1>1, ScaleType
<1>3. target = FloorTo(t, Lost(k)) /\ DigitBits * places < Width
  <2>1. CASE k <= 3
    <3> DEFINE p == 2^(DigitBits * (3 - k))
    <3>1. 3 - k \in Nat /\ -places = 3 - k
        BY <2>1
    <3>2. p \in Nat \ {0}
        BY <3>1, DigitProducts
    <3>3. m = t * p /\ target = m \div p
        BY <2>1, <3>1 DEF Scale
    <3> HIDE DEF p, m, target
    <3>4. (t * p) \div p = t
        BY <1>1, <3>2, QuotientExact
    <3>5. FloorTo(t, 0) = t
      <4>1. FloorTo(t * 2^0, 0) = t * 2^0
          BY <1>1, FloorOfMultiple, 0 \in Nat, 0 <= 0
      <4> QED
          BY <1>1, <4>1, 2^0 = 1
    <3>6. Lost(k) = 0
        BY <2>1 DEF Lost
    <3>7. DigitBits * places <= 0
      <4>1. DigitBits * (3 - k) \in Nat
          BY <3>1, DigitProducts
      <4>2. DigitBits * places = - (DigitBits * (3 - k))
          BY <1>1
      <4> QED
          BY <4>1, <4>2
    <3>8. DigitBits * places \in Int
        BY <1>1
    <3> QED
        BY <1>1, <3>3, <3>4, <3>5, <3>6, <3>7, <3>8
  <2>2. CASE k > 3
    <3>1. Lost(k) = DigitBits * places /\ m = t \div 2^(DigitBits * places) /\ ~ (places <= 0)
        BY <2>2 DEF Lost, Scale
    <3> HIDE DEF m
    <3>2. target = m * 2^(DigitBits * places)
        BY <3>1
    <3> QED
        BY <3>1, <3>2 DEF FloorTo
  <2> QED
      BY <2>1, <2>2
<1>4. FloorTo(t, Lost(k)) \in Nat /\ FloorTo(t, Lost(k)) <= t
    BY <1>1, LostType, FloorType
<1>5. Decoded(bits) = IF m >= SignBit \/ DigitBits * places >= Width \/ target >= 2^Width
                      THEN NotYet ELSE target
    BY DEF Decoded, MantissaDigits
<1>6. SignBit \in Int /\ DigitBits * places \in Int
  <2>1. DigitBits * MantissaDigits \in Nat /\ DigitBits * MantissaDigits >= 1
      BY <1>1 DEF MantissaDigits
  <2>2. SignBit \in Nat \ {0}
      BY <2>1, PowerType, DigitBits * MantissaDigits - 1 \in Nat DEF SignBit
  <2> QED
      BY <1>1, <2>2
<1>7. ~ (m >= SignBit)
    BY <1>2, <1>6
<1> HIDE DEF m, target, bits, places
<1>8. ~ (DigitBits * places >= Width) /\ ~ (target >= 2^Width)
    BY <1>1, <1>3, <1>4, <1>6
<1> QED
    BY <1>3, <1>5, <1>7, <1>8 DEF bits, m

(* from_target finds the number of digits. *)
LEMMA DigitsOfBits ==
    ASSUME DifficultyAssumption, NEW t \in Target, NEW b, HasBits(t, b)
    PROVE  /\ Digits(t) \in 1..(Width \div DigitBits + 1)
           /\ DigitBits * (Digits(t) - 1) < b /\ b <= DigitBits * Digits(t)
<1>1. /\ t \in Nat \ {0} /\ t < 2^Width /\ Width \in Nat \ {0} /\ DigitBits \in Nat \ {0}
      /\ b \in Nat \ {0} /\ b <= Width /\ 2^(b - 1) <= t /\ t < 2^b
    BY Widths DEF HasBits
<1> DEFINE n == (b - 1) \div DigitBits + 1
           Fits(i) == t < 2^(DigitBits * i) /\ t >= 2^(DigitBits * (i - 1))
<1>2. /\ n - 1 \in Nat /\ n \in Nat
      /\ DigitBits * (n - 1) <= b - 1 /\ b - 1 < DigitBits * (n - 1) + DigitBits
  <2> DEFINE c == b - 1
             q == c \div DigitBits
  <2>1. c \in Nat
      BY <1>1
  <2> HIDE DEF c
  <2>2. q \in Nat
      BY <1>1, <2>1, QuotientOfNat
  <2>3. DigitBits * q <= c /\ c < DigitBits * q + DigitBits
      BY <1>1, <2>1, Quotient
  <2> HIDE DEF q
  <2>4. n = q + 1
      BY DEF q, c
  <2>5. n - 1 = q /\ n - 1 \in Nat /\ n \in Nat
      BY <2>2, <2>4
  <2>6. DigitBits * (n - 1) <= c /\ c < DigitBits * (n - 1) + DigitBits
      BY <2>3, <2>5
  <2> QED
      BY <2>5, <2>6 DEF c
<1> HIDE DEF n
<1>3. n \in Nat /\ DigitBits * n = DigitBits * (n - 1) + DigitBits
  <2>1. n \in Nat
      BY <1>2
  <2>2. DigitBits * ((n - 1) + 1) = DigitBits * (n - 1) + DigitBits /\ (n - 1) + 1 = n
      BY <1>2, <2>1, DigitProducts
  <2> QED
      BY <2>1, <2>2
<1>4. DigitBits * n \in Nat /\ DigitBits * (n - 1) \in Nat
    BY <1>2, <1>3, DigitProducts
<1>5. Fits(n)
  <2>1. b <= DigitBits * n
      BY <1>1, <1>2, <1>3, <1>4
  <2>2. 2^b <= 2^(DigitBits * n)
      BY <1>1, <1>4, <2>1, PowerGrows
  <2>3. 2^(DigitBits * (n - 1)) <= 2^(b - 1)
      BY <1>1, <1>2, <1>4, PowerGrows, b - 1 \in Nat
  <2>4. 2^b \in Nat /\ 2^(b - 1) \in Nat /\ 2^(DigitBits * n) \in Nat /\ 2^(DigitBits * (n - 1)) \in Nat
      BY <1>1, <1>4, PowerType, b - 1 \in Nat
  <2> QED
      BY <1>1, <2>2, <2>3, <2>4
<1>6. n \in 1..(Width \div DigitBits + 1)
  <2> DEFINE c == b - 1
             w == Width \div DigitBits
             q == c \div DigitBits
  <2>1. c \in Int /\ Width \in Int /\ c <= Width
      BY <1>1
  <2>2. n = q + 1
      BY DEF n
  <2> HIDE DEF c
  <2>3. q <= w /\ q \in Int
      BY <1>1, <2>1, QuotientGrows, Quotient
  <2>4. w \in Nat
      BY <1>1, QuotientOfNat
  <2> HIDE DEF w, q
  <2>5. n \in 1..(w + 1)
      BY <1>2, <2>2, <2>3, <2>4
  <2> QED
      BY <2>5 DEF w
<1> DEFINE d == Digits(t)
<1>7. d \in 1..(Width \div DigitBits + 1) /\ Fits(d)
  <2>1. d = CHOOSE i \in 1..(Width \div DigitBits + 1) : Fits(i)
      BY DEF Digits
  <2> HIDE DEF Fits, d
  <2> QED
      BY <1>5, <1>6, <2>1
<1> HIDE DEF d
<1>8. d \in Nat /\ d - 1 \in Nat
  <2>1. Width \div DigitBits \in Nat
      BY <1>1, QuotientOfNat
  <2> QED
      BY <1>7, <2>1
<1>9. DigitBits * d \in Nat /\ DigitBits * (d - 1) \in Nat
    BY <1>8, DigitProducts
<1>10. /\ 2^b \in Nat /\ 2^(b - 1) \in Nat
       /\ 2^(DigitBits * d) \in Nat /\ 2^(DigitBits * (d - 1)) \in Nat
    BY <1>1, <1>9, PowerType, b - 1 \in Nat
<1>11. 2^(DigitBits * (d - 1)) < 2^b /\ 2^(b - 1) < 2^(DigitBits * d)
    BY <1>1, <1>7, <1>10
<1>12. DigitBits * (d - 1) < b /\ b - 1 < DigitBits * d
    BY <1>1, <1>9, <1>11, PowerGrows, b - 1 \in Nat
<1> QED
    BY <1>1, <1>7, <1>9, <1>12 DEF d

LEMMA QuotientAtLeast ==
    ASSUME NEW a \in Nat, NEW b \in Nat \ {0}, NEW q \in Nat
    PROVE  a \div b >= q <=> a >= q * b
<1> DEFINE x == a \div b
<1>1. x \in Nat /\ x * b <= a /\ a < x * b + b
    BY QuotientOfNat
<1> HIDE DEF x
<1>2. ASSUME x >= q PROVE a >= q * b
  <2>1. PICK d \in Nat : x = q + d
      BY <1>1, <1>2, x - q \in Nat
  <2>2. x * b = q * b + d * b /\ d * b \in Nat /\ q * b \in Nat
      BY <2>1
  <2> QED
      BY <1>1, <2>2
<1>3. ASSUME x < q PROVE a < q * b
  <2>1. PICK d \in Nat : q = (x + 1) + d
      BY <1>1, <1>3, q - (x + 1) \in Nat
  <2>2. q * b = x * b + b + d * b /\ d * b \in Nat /\ x * b \in Nat
      BY <1>1, <2>1
  <2> QED
      BY <1>1, <2>2
<1>4. q * b \in Nat
    OBVIOUS
<1>5. x >= q <=> a >= q * b
    BY <1>1, <1>2, <1>3, <1>4
<1> QED
    BY <1>5 DEF x

LEMMA FactorAtLeast ==
    ASSUME NEW a \in Nat, NEW q \in Nat, NEW b \in Nat \ {0}
    PROVE  a * b >= q * b <=> a >= q
<1>1. (a * b) \div b = a
    BY QuotientExact
<1>2. (a * b) \div b >= q <=> a * b >= q * b
    BY QuotientAtLeast, a * b \in Nat
<1> QED
    BY <1>1, <1>2

(* How a scaled target compares with a power of two. *)
LEMMA ScaleAtLeast ==
    ASSUME DifficultyAssumption, NEW t \in Nat, NEW k \in Nat, NEW i \in Nat, NEW j \in Nat,
           j + DigitBits * 3 = i + DigitBits * k
    PROVE  Scale(t, k) >= 2^i <=> t >= 2^j
<1>1. 2^i \in Nat \ {0} /\ 2^j \in Nat \ {0} /\ DigitBits \in Nat \ {0}
    BY PowerType, Widths
<1>2. CASE k <= 3
  <2> DEFINE e == DigitBits * (3 - k)
  <2>1. e \in Nat /\ 2^e \in Nat \ {0}
      BY <1>2, DigitProducts, 3 - k \in Nat
  <2>2. i = j + e
    <3>1. DigitBits * (3 - k) = DigitBits * 3 - DigitBits * k
        BY <1>1
    <3>2. DigitBits * k \in Nat
        BY <1>1
    <3> QED
        BY <1>1, <3>1, <3>2
  <2>3. Scale(t, k) = t * 2^e
      BY <1>2 DEF Scale
  <2> HIDE DEF e
  <2>4. 2^i = 2^j * 2^e
      BY <2>1, <2>2, PowerAdds
  <2>5. t * 2^e >= 2^j * 2^e <=> t >= 2^j
      BY <1>1, <2>1, FactorAtLeast
  <2> QED
      BY <2>3, <2>4, <2>5
<1>3. CASE k > 3
  <2> DEFINE e == DigitBits * (k - 3)
  <2>1. e \in Nat /\ 2^e \in Nat \ {0}
      BY <1>3, DigitProducts, k - 3 \in Nat
  <2>2. j = i + e
    <3>1. DigitBits * (k - 3) = DigitBits * k - DigitBits * 3
        BY <1>1
    <3>2. DigitBits * k \in Nat
        BY <1>1
    <3> QED
        BY <1>1, <3>1, <3>2
  <2>3. Scale(t, k) = t \div 2^e
      BY <1>3 DEF Scale
  <2> HIDE DEF e
  <2>4. 2^j = 2^i * 2^e
      BY <2>1, <2>2, PowerAdds
  <2>5. t \div 2^e >= 2^i <=> t >= 2^i * 2^e
      BY <1>1, <2>1, QuotientAtLeast
  <2> QED
      BY <2>3, <2>4, <2>5
<1> QED
    BY <1>2, <1>3

LEMMA EncodedIs ==
    ASSUME DifficultyAssumption, NEW t \in Target
    PROVE  Encoded(t) = Unsigned([exponent |-> Digits(t), mantissa |-> Scale(t, Digits(t))])
BY DEF Encoded, Scale, MantissaDigits

(* from_target and to_target: a target of b bits comes back with its low   *)
(* Cut(b) bits cleared.                                                    *)
LEMMA CodedAndDecoded ==
    ASSUME DifficultyAssumption, NEW t \in Target, NEW b, HasBits(t, b)
    PROVE  Encoded(t) \in Encoding /\ Decoded(Encoded(t)) = FloorTo(t, Cut(b))
<1> DEFINE d == Digits(t)
           w == Width \div DigitBits
<1>1. /\ t \in Nat \ {0} /\ t < 2^Width /\ Width \in Nat \ {0} /\ DigitBits \in Nat \ {0}
      /\ b \in Nat \ {0} /\ b <= Width /\ 2^(b - 1) <= t /\ t < 2^b
    BY Widths DEF HasBits
<1>2. d \in 1..(w + 1) /\ DigitBits * (d - 1) < b /\ b <= DigitBits * d
    BY DigitsOfBits
<1>3. w \in Nat
    BY <1>1, QuotientOfNat
<1> HIDE DEF d
<1>4. /\ d \in Nat \ {0} /\ d - 1 \in Nat /\ d <= w + 1
      /\ DigitBits * d \in Nat \ {0} /\ DigitBits * (d - 1) \in Nat
      /\ DigitBits * d = DigitBits * (d - 1) + DigitBits
  <2>1. d \in Nat \ {0} /\ d - 1 \in Nat /\ d <= w + 1
      BY <1>2, <1>3
  <2>2. DigitBits * (d - 1) \in Nat /\ DigitBits * ((d - 1) + 1) = DigitBits * (d - 1) + DigitBits
      BY <2>1, DigitProducts
  <2> QED
      BY <1>1, <2>1, <2>2
<1> DEFINE m == Scale(t, d)
           full == DigitBits * 3
           sign == DigitBits * 3 - 1
<1>5. full \in Nat /\ sign \in Nat /\ SignBit = 2^sign /\ SignBit \in Nat \ {0} /\ 2^full \in Nat \ {0}
    BY <1>1, PowerType DEF SignBit, MantissaDigits
<1>6. m \in Nat
    BY <1>1, <1>4, ScaleType
<1>7. m < 2^full
  <2>1. m >= 2^full <=> t >= 2^(DigitBits * d)
      BY <1>1, <1>4, <1>5, ScaleAtLeast
  <2>2. 2^b <= 2^(DigitBits * d) /\ 2^b \in Nat /\ 2^(DigitBits * d) \in Nat
      BY <1>1, <1>2, <1>4, PowerGrows, PowerType
  <2> QED
      BY <1>1, <1>5, <1>6, <2>1, <2>2
<1>8. m >= SignBit <=> b = DigitBits * d
  <2> DEFINE top == DigitBits * d - 1
  <2>1. top \in Nat /\ top + full = sign + DigitBits * d
      BY <1>1, <1>4
  <2> HIDE DEF top
  <2>2. m >= 2^sign <=> t >= 2^top
      BY <1>1, <1>4, <1>5, <2>1, ScaleAtLeast
  <2>3. ASSUME b = DigitBits * d PROVE t >= 2^top
      BY <1>1, <2>3 DEF top
  <2>4. ASSUME t >= 2^top PROVE b = DigitBits * d
    <3>1. 2^top \in Nat /\ 2^b \in Nat
        BY <1>1, <2>1, PowerType
    <3>2. 2^top < 2^b
        BY <1>1, <2>4, <3>1
    <3>3. top < b
        BY <1>1, <2>1, <3>2, PowerGrows
    <3> QED
        BY <1>1, <1>2, <1>4, <3>3 DEF top
  <2> QED
      BY <1>5, <2>2, <2>3, <2>4
<1> DEFINE bits == [exponent |-> d, mantissa |-> m]
<1>9. Encoded(t) = Unsigned(bits)
    BY EncodedIs DEF d
<1> DEFINE next == Scale(t, d + 1)
<1>10. next = m \div 2^DigitBits
    BY <1>1, <1>4, ScaleNext
<1>11. ASSUME NEW k \in Nat, k <= d + 1 PROVE Lost(k) \in Nat /\ Lost(k) < Width
  <2>1. CASE k <= 3
      BY <1>1, <2>1 DEF Lost
  <2>2. CASE k > 3
    <3>1. k - 3 \in Nat /\ k - 3 <= d - 1
        BY <1>4, <1>11, <2>2
    <3>2. PICK c \in Nat : d - 1 = (k - 3) + c
        BY <1>4, <3>1, (d - 1) - (k - 3) \in Nat
    <3>3. DigitBits * (d - 1) = DigitBits * (k - 3) + DigitBits * c /\ DigitBits * c \in Nat
          /\ DigitBits * (k - 3) \in Nat
        BY <1>1, <3>1, <3>2
    <3>4. Lost(k) = DigitBits * (k - 3)
        BY <2>2 DEF Lost
    <3> QED
        BY <1>1, <1>2, <1>4, <3>3, <3>4
  <2> QED
      BY <2>1, <2>2
<1>12. CASE b # DigitBits * d
  <2>1. m < SignBit
      BY <1>5, <1>6, <1>8, <1>12
  <2>2. Encoded(t) = bits
      BY <1>9, <2>1 DEF Unsigned
  <2>3. b \div DigitBits = d - 1
    <3>1. /\ DigitBits * (d - 1) <= b /\ b < DigitBits * (d - 1) + DigitBits
          /\ b \in Int /\ d - 1 \in Int
        BY <1>1, <1>2, <1>4, <1>12
    <3> QED
        BY <1>1, <3>1, QuotientIs
  <2>4. Cut(b) = Lost(d)
      BY <1>4, <2>3 DEF Cut, Lost
  <2>5. Decoded(bits) = FloorTo(t, Lost(d))
      BY <1>4, <1>11, <2>1, DecodedScale
  <2>6. bits \in Encoding
      BY <1>3, <1>4, <1>5, <1>6, <1>7 DEF Encoding, MantissaDigits
  <2> QED
      BY <2>2, <2>4, <2>5, <2>6
<1>13. CASE b = DigitBits * d
  <2>1. m >= SignBit
      BY <1>8, <1>13
  <2>2. Encoded(t) = [exponent |-> d + 1, mantissa |-> next]
      BY <1>5, <1>6, <1>9, <1>10, <2>1 DEF Unsigned
  <2>3. b \div DigitBits = d
      BY <1>1, <1>4, <1>13, QuotientIs
  <2>4. Cut(b) = Lost(d + 1)
      BY <1>4, <2>3 DEF Cut, Lost
  <2>5. next < SignBit /\ next \in Nat /\ next < 2^full
    <3> DEFINE two == DigitBits * 2
    <3>1. two \in Nat /\ two <= sign /\ full = two + DigitBits /\ two <= full
        BY <1>1
    <3> HIDE DEF two, full, sign
    <3>2. 2^full = 2^two * 2^DigitBits
        BY <1>1, <3>1, PowerAdds
    <3>3. 2^two \in Nat \ {0} /\ 2^DigitBits \in Nat \ {0}
        BY <1>1, <3>1, PowerType
    <3>4. ~ (m \div 2^DigitBits >= 2^two)
        BY <1>5, <1>6, <1>7, <3>2, <3>3, QuotientAtLeast
    <3>5. m \div 2^DigitBits \in Nat
        BY <1>6, <3>3, QuotientOfNat
    <3>6. 2^two <= 2^sign /\ 2^two <= 2^full
        BY <1>5, <3>1, PowerGrows
    <3> QED
        BY <1>5, <1>10, <3>3, <3>4, <3>5, <3>6
  <2>6. Decoded([exponent |-> d + 1, mantissa |-> next]) = FloorTo(t, Lost(d + 1))
      BY <1>4, <1>11, <2>5, DecodedScale
  <2>7. d <= w
    <3>1. Width >= d * DigitBits
        BY <1>1, <1>4, <1>13
    <3> QED
        BY <1>1, <1>4, <3>1, QuotientAtLeast
  <2>8. [exponent |-> d + 1, mantissa |-> next] \in Encoding
      BY <1>3, <1>4, <1>5, <2>5, <2>7 DEF Encoding, MantissaDigits
  <2> QED
      BY <2>2, <2>4, <2>6, <2>8
<1> QED
    BY <1>12, <1>13

(* A number whose low bits are cut off is shorter by no bit, and the       *)
(* longer a target is the more is cut off.                                 *)
LEMMA CutType ==
    ASSUME DifficultyAssumption, NEW b \in Nat \ {0}
    PROVE  Cut(b) \in Nat /\ Cut(b) <= b - 1
<1>1. DigitBits \in Nat \ {0}
    BY Widths
<1> DEFINE q == b \div DigitBits
<1>2. q \in Nat /\ q * DigitBits <= b
    BY <1>1, QuotientOfNat
<1>3. Cut(b) = IF q <= 2 THEN 0 ELSE DigitBits * (q - 2)
    BY DEF Cut
<1> HIDE DEF q
<1>4. CASE q <= 2
    BY <1>3, <1>4
<1>5. CASE q > 2
  <2>1. DigitBits * (q - 2) = q * DigitBits - DigitBits * 2 /\ q * DigitBits \in Nat
      BY <1>1, <1>2
  <2>2. DigitBits * (q - 2) \in Nat
      BY <1>1, <1>2, <1>5, DigitProducts, q - 2 \in Nat
  <2> QED
      BY <1>1, <1>2, <1>3, <1>5, <2>1, <2>2
<1> QED
    BY <1>2, <1>4, <1>5

LEMMA CutGrows ==
    ASSUME DifficultyAssumption, NEW b \in Nat \ {0}, NEW c \in Nat \ {0}, b <= c
    PROVE  Cut(b) <= Cut(c)
<1>1. DigitBits \in Nat \ {0}
    BY Widths
<1> DEFINE q == b \div DigitBits
           r == c \div DigitBits
<1>2. q \in Nat /\ r \in Nat
    BY <1>1, QuotientOfNat
<1>3. q <= r
    BY <1>1, QuotientGrows
<1>4. Cut(b) = IF q <= 2 THEN 0 ELSE DigitBits * (q - 2)
    BY DEF Cut
<1>5. Cut(c) = IF r <= 2 THEN 0 ELSE DigitBits * (r - 2)
    BY DEF Cut
<1> HIDE DEF q, r
<1>6. CASE q <= 2
    BY <1>4, <1>6, CutType
<1>7. CASE q > 2
  <2>1. PICK d \in Nat : r = q + d
      BY <1>2, <1>3, r - q \in Nat
  <2>2. DigitBits * (r - 2) = DigitBits * (q - 2) + DigitBits * d /\ DigitBits * d \in Nat
        /\ DigitBits * (q - 2) \in Int
      BY <1>1, <1>2, <2>1
  <2> QED
      BY <1>2, <1>3, <1>4, <1>5, <1>7, <2>2
<1> QED
    BY <1>2, <1>6, <1>7

(* What a target is taken for after it went through its encoding. *)
Seen(t) == Decoded(Encoded(t))

LEMMA SeenIsFloor ==
    ASSUME DifficultyAssumption, NEW t \in Target, NEW b, HasBits(t, b)
    PROVE  Seen(t) = FloorTo(t, Cut(b))
BY CodedAndDecoded DEF Seen

(* The encoding rounds down, never to nothing. *)
LEMMA SeenRoundsDown ==
    ASSUME DifficultyAssumption, NEW t \in Target
    PROVE  Seen(t) \in 1..t /\ Seen(t) \in Target
<1>1. PICK b \in 1..Width : HasBits(t, b)
    BY BitsExist
<1>2. t \in Nat \ {0} /\ Width \in Nat \ {0} /\ b \in Nat \ {0} /\ b - 1 \in Nat
    BY Widths
<1> DEFINE c == Cut(b)
           v == FloorTo(t, c)
<1>3. c \in Nat /\ c <= b - 1
    BY <1>2, CutType
<1>4. Seen(t) = v
    BY <1>1, SeenIsFloor
<1> HIDE DEF c
<1>5. 2^c \in Nat \ {0} /\ 2^(b - 1) \in Nat /\ 2^c <= 2^(b - 1)
    BY <1>2, <1>3, PowerType, PowerGrows
<1>6. 2^c <= t
    BY <1>1, <1>2, <1>5 DEF HasBits
<1>7. t \div 2^c >= 1
    BY <1>2, <1>5, <1>6, QuotientAtLeast, 1 \in Nat
<1>8. v >= 1
  <2>1. t \div 2^c \in Nat
      BY <1>2, <1>5, QuotientOfNat
  <2>2. (t \div 2^c) * 2^c >= 1 * 2^c
      BY <1>5, <1>7, <2>1, FactorAtLeast, 1 \in Nat
  <2> QED
      BY <1>5, <2>1, <2>2 DEF FloorTo
<1>9. v \in Nat /\ v <= t
    BY <1>2, <1>3, FloorType
<1> HIDE DEF v
<1>10. 2^Width \in Nat \ {0} /\ t < 2^Width
    BY Widths
<1> QED
    BY <1>2, <1>4, <1>8, <1>9, <1>10 DEF Target

(* The higher the target, the higher what it is taken for. *)
LEMMA SeenGrows ==
    ASSUME DifficultyAssumption, NEW t \in Target, NEW u \in Target, t <= u
    PROVE  Seen(t) <= Seen(u)
<1>1. PICK b \in 1..Width : HasBits(t, b)
    BY BitsExist
<1>2. PICK c \in 1..Width : HasBits(u, c)
    BY BitsExist
<1>3. /\ t \in Nat \ {0} /\ u \in Nat \ {0} /\ Width \in Nat \ {0}
      /\ b \in Nat \ {0} /\ c \in Nat \ {0} /\ b - 1 \in Nat /\ c - 1 \in Nat
    BY Widths
<1>4. Seen(t) = FloorTo(t, Cut(b)) /\ Seen(u) = FloorTo(u, Cut(c))
    BY <1>1, <1>2, SeenIsFloor
<1>5. Cut(b) \in Nat /\ Cut(c) \in Nat /\ Cut(c) <= c - 1
    BY <1>3, CutType
<1>6. /\ 2^b \in Nat /\ 2^(b - 1) \in Nat /\ 2^c \in Nat /\ 2^(c - 1) \in Nat
      /\ 2^(b - 1) <= t /\ t < 2^b /\ 2^(c - 1) <= u /\ u < 2^c
    BY <1>1, <1>2, <1>3, PowerType DEF HasBits
<1>7. CASE b = c
    BY <1>3, <1>4, <1>5, <1>7, FloorGrows
<1>8. CASE b < c
  <2>1. 2^b <= 2^(c - 1)
      BY <1>3, <1>8, PowerGrows, b <= c - 1
  <2>2. FloorTo(t, Cut(b)) <= t /\ FloorTo(t, Cut(b)) \in Nat
      BY <1>3, <1>5, FloorType
  <2>3. FloorTo(2^(c - 1), Cut(c)) = 2^(c - 1)
    <3>1. FloorTo(1 * 2^(c - 1), Cut(c)) = 1 * 2^(c - 1)
        BY <1>3, <1>5, FloorOfMultiple, 1 \in Nat
    <3> QED
        BY <1>6, <3>1
  <2>4. FloorTo(2^(c - 1), Cut(c)) <= FloorTo(u, Cut(c))
      BY <1>3, <1>5, <1>6, FloorGrows
  <2>5. FloorTo(u, Cut(c)) \in Nat
      BY <1>3, <1>5, FloorType
  <2> QED
      BY <1>3, <1>4, <1>6, <2>1, <2>2, <2>3, <2>4, <2>5
<1>9. CASE c < b
  <2>1. 2^c <= 2^(b - 1)
      BY <1>3, <1>9, PowerGrows, c <= b - 1
  <2> QED
      BY <1>3, <1>6, <2>1
<1> QED
    BY <1>3, <1>7, <1>8, <1>9

(* Any bits that decode stand for a mantissa below the sign bit, followed  *)
(* by zero digits: the encoding keeps all of it.                           *)
LEMMA DecodedIsMultiple ==
    ASSUME DifficultyAssumption, NEW bits \in Encoding, Decoded(bits) # NotYet
    PROVE  /\ Decoded(bits) \in Target
           /\ \E q, p \in Nat : q < SignBit /\ Decoded(bits) = q * 2^(DigitBits * p)
<1> DEFINE v == Decoded(bits)
           places == bits.exponent - MantissaDigits
           target == IF places <= 0 THEN bits.mantissa \div 2^(DigitBits * (-places))
                     ELSE bits.mantissa * 2^(DigitBits * places)
<1>1. /\ bits.mantissa \in Nat /\ bits.exponent \in Nat
      /\ 2^Width \in Nat \ {0} /\ DigitBits \in Nat \ {0}
    BY Widths, PowerType, QuotientOfNat DEF Encoding, MantissaDigits
<1>2. SignBit \in Nat
    BY <1>1, PowerType, DigitBits * MantissaDigits - 1 \in Nat DEF SignBit, MantissaDigits
<1>3. v = target /\ bits.mantissa < SignBit /\ target < 2^Width
  <2>1. v = IF bits.mantissa >= SignBit \/ DigitBits * places >= Width \/ target >= 2^Width
            THEN NotYet ELSE target
      BY DEF Decoded
  <2>2. places \in Int /\ target \in Int
    <3>1. places \in Int
        BY <1>1 DEF MantissaDigits
    <3>2. CASE places <= 0
      <4>1. -places \in Nat
          BY <3>1, <3>2
      <4>2. 2^(DigitBits * (-places)) \in Nat \ {0}
          BY <4>1, DigitProducts
      <4> QED
          BY <1>1, <3>1, <3>2, <4>2, QuotientOfNat
    <3>3. CASE ~ (places <= 0)
      <4>1. places \in Nat
          BY <3>1, <3>3
      <4>2. 2^(DigitBits * places) \in Nat \ {0}
          BY <4>1, DigitProducts
      <4> QED
          BY <1>1, <3>1, <3>3, <4>2
    <3> QED
        BY <3>1, <3>2, <3>3
  <2> HIDE DEF target, v
  <2> QED
      BY <1>1, <1>2, <2>1, <2>2 DEF v
<1>4. places \in Int
    BY <1>1 DEF MantissaDigits
<1> HIDE DEF places
<1>5. CASE places <= 0
  <2> DEFINE d == 2^(DigitBits * (-places))
  <2>1. d \in Nat \ {0}
      BY <1>4, <1>5, DigitProducts, -places \in Nat
  <2>2. v = bits.mantissa \div d
      BY <1>3, <1>5
  <2> HIDE DEF d, v
  <2>3. v \in Nat /\ v * d <= bits.mantissa
      BY <1>1, <2>1, <2>2, QuotientOfNat
  <2>4. v <= v * d
    <3>1. PICK e \in Nat : d = e + 1
        BY <2>1, d - 1 \in Nat
    <3>2. v * d = v * e + v /\ v * e \in Nat
        BY <2>3, <3>1
    <3> QED
        BY <2>3, <3>2
  <2>5. v * d \in Nat
      BY <2>1, <2>3
  <2>6. v < SignBit
      BY <1>1, <1>2, <1>3, <2>3, <2>4, <2>5
  <2>7. v = v * 2^(DigitBits * 0)
    <3>1. DigitBits * 0 = 0
        BY <1>1
    <3>2. 2^0 = 1
        OBVIOUS
    <3>3. 2^(DigitBits * 0) = 1
        BY <3>1, <3>2
    <3>4. v * 1 = v
        BY <2>3
    <3> HIDE DEF v
    <3> QED
        BY <3>3, <3>4
  <2>8. v < 2^Width /\ v # NotYet
      BY <1>3 DEF v
  <2>9. v \in Target
      BY <1>1, <2>3, <2>8 DEF Target, NotYet
  <2>10. \E q, p \in Nat : q < SignBit /\ v = q * 2^(DigitBits * p)
      BY <2>3, <2>6, <2>7, 0 \in Nat
  <2> QED
      BY <2>9, <2>10 DEF v
<1>6. CASE ~ (places <= 0)
  <2>0. places \in Nat
      BY <1>4, <1>6
  <2>1. places \in Nat /\ 2^(DigitBits * places) \in Nat \ {0}
      BY <2>0, DigitProducts
  <2>2. v = bits.mantissa * 2^(DigitBits * places)
      BY <1>3, <1>6
  <2>3. v < 2^Width /\ v # NotYet
      BY <1>3
  <2> HIDE DEF v
  <2>4. v \in Nat
      BY <1>1, <2>1, <2>2
  <2>5. v \in Target
      BY <1>1, <2>3, <2>4 DEF Target, NotYet
  <2> QED
      BY <1>1, <1>3, <2>1, <2>2, <2>5 DEF v
<1> QED
    BY <1>5, <1>6

LEMMA DecodedIsStable ==
    ASSUME DifficultyAssumption, NEW bits \in Encoding, Decoded(bits) # NotYet
    PROVE  Decoded(bits) \in Target /\ Seen(Decoded(bits)) = Decoded(bits)
<1> DEFINE v == Decoded(bits)
<1>1. v \in Target
    BY DecodedIsMultiple
<1>2. PICK q \in Nat, p \in Nat : q < SignBit /\ v = q * 2^(DigitBits * p)
    BY DecodedIsMultiple
<1> HIDE DEF v
<1>3. PICK c \in 1..Width : HasBits(v, c)
    BY <1>1, BitsExist
<1> DEFINE low == DigitBits * p
           sign == DigitBits * 3 - 1
           digits == c \div DigitBits
<1>4. /\ DigitBits \in Nat \ {0} /\ Width \in Nat \ {0} /\ v \in Nat \ {0}
      /\ c \in Nat \ {0} /\ c - 1 \in Nat /\ 2^(c - 1) <= v
    BY <1>1, <1>3, Widths DEF HasBits
<1>5. low \in Nat /\ sign \in Nat /\ digits \in Nat
    BY <1>2, <1>4, DigitProducts, QuotientOfNat
<1>6. SignBit = 2^sign
    BY DEF SignBit, MantissaDigits
<1>7. sign + low = (p + 3) * DigitBits - 1
    BY <1>2, <1>4
<1> HIDE DEF low, sign, digits
<1>8. 2^(sign + low) = 2^sign * 2^low /\ 2^sign \in Nat \ {0} /\ 2^low \in Nat \ {0}
    BY <1>5, PowerAdds, PowerType
<1>9. v < 2^(sign + low)
  <2>1. PICK e \in Nat : 2^sign = (q + 1) + e
    <3>1. q \in Nat /\ 2^sign \in Nat /\ q < 2^sign
        BY <1>2, <1>6, <1>8
    <3>2. 2^sign - (q + 1) \in Nat /\ 2^sign = (q + 1) + (2^sign - (q + 1))
        BY <3>1
    <3> QED
        BY <3>2
  <2>2. 2^sign * 2^low = q * 2^low + 2^low + e * 2^low /\ e * 2^low \in Nat /\ q * 2^low \in Nat
    <3>1. ASSUME NEW r \in Nat, NEW f \in Nat, NEW m \in Nat
          PROVE  /\ ((r + 1) + f) * m = r * m + m + f * m
                 /\ f * m \in Nat /\ r * m \in Nat
        OBVIOUS
    <3>2. 2^low \in Nat
        BY <1>8
    <3> QED
        BY <1>2, <2>1, <3>1, <3>2
  <2>3. v = q * 2^low
      BY <1>2 DEF low
  <2> QED
      BY <1>8, <2>2, <2>3
<1>10. c - 1 < sign + low
  <2>1. 2^(c - 1) \in Nat /\ 2^(sign + low) \in Nat /\ sign + low \in Nat
      BY <1>4, <1>5, PowerType
  <2>2. 2^(c - 1) < 2^(sign + low)
      BY <1>4, <1>9, <2>1
  <2> QED
      BY <1>4, <2>1, <2>2, PowerGrows
<1>11. digits < p + 3
  <2>1. c < (p + 3) * DigitBits /\ (p + 3) * DigitBits \in Nat
      BY <1>2, <1>4, <1>5, <1>7, <1>10
  <2>2. p + 3 \in Nat /\ c \in Nat /\ ~ (c >= (p + 3) * DigitBits)
      BY <1>2, <1>4, <2>1
  <2>3. ~ (c \div DigitBits >= p + 3)
      BY <1>4, <2>2, QuotientAtLeast
  <2>4. ~ (digits >= p + 3)
      BY <2>3 DEF digits
  <2> QED
      BY <1>2, <1>5, <2>4
<1>12. Cut(c) \in Nat /\ Cut(c) <= low
  <2>1. Cut(c) \in Nat
      BY <1>4, CutType
  <2>2. Cut(c) = IF digits <= 2 THEN 0 ELSE DigitBits * (digits - 2)
      BY DEF Cut, digits
  <2>3. CASE digits > 2
    <3>1. PICK e \in Nat : p = (digits - 2) + e
        BY <1>2, <1>5, <1>11, p - (digits - 2) \in Nat
    <3>2. DigitBits * p = DigitBits * (digits - 2) + DigitBits * e /\ DigitBits * e \in Nat
          /\ DigitBits * (digits - 2) \in Int
        BY <1>4, <1>5, <3>1
    <3> QED
        BY <1>5, <2>1, <2>2, <2>3, <3>2 DEF low
  <2>4. CASE digits <= 2
      BY <1>5, <2>1, <2>2, <2>4
  <2> QED
      BY <1>5, <2>1, <2>3, <2>4
<1>13. FloorTo(v, Cut(c)) = v
  <2>1. v = q * 2^low
      BY <1>2 DEF low
  <2> QED
      BY <1>2, <1>5, <1>12, <2>1, FloorOfMultiple
<1>14. Seen(v) = v
    BY <1>1, <1>3, <1>13, SeenIsFloor
<1> QED
    BY <1>1, <1>14 DEF v

-----------------------------------------------------------------------------
(* The ASERT rule.  A product of natural numbers grows with its factors.   *)
LEMMA ProductGrows ==
    ASSUME NEW a \in Nat, NEW b \in Nat, NEW c \in Nat, NEW d \in Nat, a <= b, c <= d
    PROVE  a * c \in Nat /\ a * c <= b * d
<1>1. PICK e \in Nat : b = a + e
    BY b - a \in Nat
<1>2. PICK f \in Nat : d = c + f
    BY d - c \in Nat
<1>3. b * d = a * c + a * f + e * c + e * f
    BY <1>1, <1>2
<1>4. a * c \in Nat /\ a * f \in Nat /\ e * c \in Nat /\ e * f \in Nat
    OBVIOUS
<1> QED
    BY <1>3, <1>4

Constants ==
    /\ {CubicC1, CubicC2, CubicC3, MaxHalflives, HalflifeSecs, PowLimit, MsPerSecond} \subseteq Nat \ {0}
    /\ {IdealSecs, StampMax} \subseteq Nat
    /\ 1..PowLimit \subseteq Target

LEMMA ConstantsAre == ASSUME DifficultyAssumption PROVE Constants
<1>1. 2^Width \in Nat \ {0} /\ PowLimit \in Nat \ {0} /\ PowLimit < 2^Width
    BY Widths DEF DifficultyAssumption
<1>2. 1..PowLimit \subseteq Target
    BY <1>1 DEF Target
<1> QED
    BY <1>2 DEF Constants, DifficultyAssumption

Fraction == 0..(2^RadixBits - 1)

Poly(f) == CubicC1 * f + CubicC2 * f * f + CubicC3 * f * f * f + 2^(3 * RadixBits - 1)

LEMMA PolyGrows ==
    ASSUME DifficultyAssumption, NEW f \in Nat, NEW g \in Nat, f <= g
    PROVE  Poly(f) \in Nat /\ Poly(f) <= Poly(g)
<1>1. CubicC1 \in Nat /\ CubicC2 \in Nat /\ CubicC3 \in Nat
    BY ConstantsAre DEF Constants
<1>2. CubicC1 * f \in Nat /\ CubicC1 * f <= CubicC1 * g /\ CubicC1 * g \in Nat
    BY <1>1, ProductGrows
<1>3. CubicC2 * f \in Nat /\ CubicC2 * f <= CubicC2 * g /\ CubicC2 * g \in Nat
    BY <1>1, ProductGrows
<1>4. CubicC3 * f \in Nat /\ CubicC3 * f <= CubicC3 * g /\ CubicC3 * g \in Nat
    BY <1>1, ProductGrows
<1>5. CubicC2 * f * f \in Nat /\ CubicC2 * f * f <= CubicC2 * g * g /\ CubicC2 * g * g \in Nat
    BY <1>3, ProductGrows
<1>6. CubicC3 * f * f \in Nat /\ CubicC3 * f * f <= CubicC3 * g * g /\ CubicC3 * g * g \in Nat
    BY <1>4, ProductGrows
<1>7. /\ CubicC3 * f * f * f \in Nat /\ CubicC3 * f * f * f <= CubicC3 * g * g * g
      /\ CubicC3 * g * g * g \in Nat
    BY <1>6, ProductGrows
<1>8. 2^(3 * RadixBits - 1) \in Nat
    BY Widths, PowerType, 3 * RadixBits - 1 \in Nat
<1> HIDE DEF Poly
<1>9. ASSUME NEW x1 \in Nat, NEW x2 \in Nat, NEW x3 \in Nat, NEW y1 \in Nat, NEW y2 \in Nat,
             NEW y3 \in Nat, NEW z \in Nat, x1 <= y1, x2 <= y2, x3 <= y3
      PROVE  x1 + x2 + x3 + z \in Nat /\ x1 + x2 + x3 + z <= y1 + y2 + y3 + z
    BY <1>9
<1> QED
    BY <1>2, <1>5, <1>7, <1>8, <1>9 DEF Poly

LEMMA FactorType ==
    ASSUME DifficultyAssumption, CubicAssumption, NEW f \in Fraction
    PROVE  Factor(f) \in Nat /\ 2^RadixBits <= Factor(f) /\ Factor(f) <= 2 * 2^RadixBits
<1>1. 2^RadixBits \in Nat \ {0} /\ f \in Nat
    BY Widths DEF Fraction
<1>2. 2^(3 * RadixBits) \in Nat \ {0}
    BY Widths, PowerType, 3 * RadixBits \in Nat
<1>3. Poly(f) \div 2^(3 * RadixBits) \in Nat
    BY <1>1, <1>2, PolyGrows, QuotientOfNat
<1>4. Factor(f) = 2^RadixBits + Poly(f) \div 2^(3 * RadixBits)
    BY DEF Factor, Poly
<1>5. Factor(f) <= 2 * 2^RadixBits
    BY DEF CubicAssumption, Fraction
<1> HIDE DEF Factor
<1> QED
    BY <1>1, <1>3, <1>4, <1>5

LEMMA FactorGrows ==
    ASSUME DifficultyAssumption, NEW f \in Fraction, NEW g \in Fraction, f <= g
    PROVE  Factor(f) <= Factor(g)
<1>1. 2^RadixBits \in Nat \ {0} /\ f \in Nat /\ g \in Nat
    BY Widths DEF Fraction
<1>2. 2^(3 * RadixBits) \in Nat \ {0}
    BY Widths, PowerType, 3 * RadixBits \in Nat
<1>3. Poly(f) \in Nat /\ Poly(g) \in Nat /\ Poly(f) <= Poly(g)
    BY <1>1, PolyGrows
<1> DEFINE x == Poly(f) \div 2^(3 * RadixBits)
           y == Poly(g) \div 2^(3 * RadixBits)
<1>4. x <= y /\ x \in Nat /\ y \in Nat
    BY <1>2, <1>3, QuotientGrows, QuotientOfNat
<1>5. Factor(f) = 2^RadixBits + x /\ Factor(g) = 2^RadixBits + y
    BY DEF Factor, Poly
<1> HIDE DEF x, y
<1> QED
    BY <1>1, <1>4, <1>5

(* The shift by whole half-lives. *)
Shifted(p, k) == IF k >= 0 THEN p * 2^k ELSE p \div 2^(-k)

LEMMA ShiftedType ==
    ASSUME NEW p \in Nat, NEW k \in Int
    PROVE  Shifted(p, k) \in Nat
<1>1. CASE k >= 0
  <2>1. 2^k \in Nat
      BY <1>1, PowerType, k \in Nat
  <2> QED
      BY <1>1, <2>1 DEF Shifted
<1>2. CASE k < 0
  <2>1. 2^(-k) \in Nat \ {0}
      BY <1>2, PowerType, -k \in Nat
  <2> QED
      BY <1>2, <2>1, QuotientOfNat DEF Shifted
<1> QED
    BY <1>1, <1>2

LEMMA ShiftedGrows ==
    ASSUME NEW p \in Nat, NEW q \in Nat, NEW k \in Int, p <= q
    PROVE  Shifted(p, k) <= Shifted(q, k)
<1>1. CASE k >= 0
  <2>1. 2^k \in Nat
      BY <1>1, PowerType, k \in Nat
  <2>2. p * 2^k <= q * 2^k
      BY <2>1, ProductGrows
  <2> QED
      BY <1>1, <2>2 DEF Shifted
<1>2. CASE k < 0
  <2>1. 2^(-k) \in Nat \ {0}
      BY <1>2, PowerType, -k \in Nat
  <2>2. p \div 2^(-k) <= q \div 2^(-k)
      BY <2>1, QuotientGrows
  <2> QED
      BY <1>2, <2>2 DEF Shifted
<1> QED
    BY <1>1, <1>2

LEMMA ShiftedFurther ==
    ASSUME NEW p \in Nat, NEW k \in Int, NEW l \in Int, k <= l
    PROVE  Shifted(p, k) <= Shifted(p, l)
<1>1. CASE k >= 0
  <2>1. k \in Nat /\ l \in Nat /\ 2^k \in Nat /\ 2^l \in Nat /\ 2^k <= 2^l
      BY <1>1, PowerType, PowerGrows
  <2>2. p * 2^k <= p * 2^l
      BY <2>1, ProductGrows
  <2>3. l >= 0
      BY <1>1
  <2> QED
      BY <1>1, <2>2, <2>3 DEF Shifted
<1>2. CASE k < 0 /\ l >= 0
  <2>1. -k \in Nat /\ l \in Nat /\ 2^(-k) \in Nat \ {0} /\ 2^l \in Nat \ {0}
      BY <1>2, PowerType
  <2> DEFINE x == p \div 2^(-k)
  <2>2. x \in Nat /\ x * 2^(-k) <= p
      BY <2>1, QuotientOfNat
  <2>3. Shifted(p, k) = x /\ Shifted(p, l) = p * 2^l
      BY <1>2 DEF Shifted
  <2> HIDE DEF x
  <2>4. x * 1 <= x * 2^(-k) /\ p * 1 <= p * 2^l
      BY <2>1, <2>2, ProductGrows, 1 \in Nat
  <2>5. x * 2^(-k) \in Nat /\ p * 2^l \in Nat
      BY <2>1, <2>2
  <2> QED
      BY <2>2, <2>3, <2>4, <2>5
<1>3. CASE l < 0
  <2>1. -k \in Nat /\ -l \in Nat /\ -l <= -k /\ 2^(-k) \in Nat \ {0} /\ 2^(-l) \in Nat \ {0}
      BY <1>3, PowerType
  <2> DEFINE x == p \div 2^(-k)
  <2>2. x \in Nat /\ x * 2^(-k) <= p
      BY <2>1, QuotientOfNat
  <2>3. Shifted(p, k) = x /\ Shifted(p, l) = p \div 2^(-l)
      BY <1>3 DEF Shifted
  <2> HIDE DEF x
  <2>4. 2^(-l) <= 2^(-k)
      BY <2>1, PowerGrows
  <2>5. x * 2^(-l) <= x * 2^(-k) /\ x * 2^(-l) \in Nat /\ x * 2^(-k) \in Nat
      BY <2>1, <2>2, <2>4, ProductGrows
  <2>6. p >= x * 2^(-l)
      BY <2>2, <2>5
  <2>7. p \div 2^(-l) >= x
      BY <2>1, <2>2, <2>6, QuotientAtLeast
  <2> QED
      BY <2>1, <2>2, <2>3, <2>7, QuotientOfNat
<1> QED
    BY <1>1, <1>2, <1>3

LEMMA ShiftedTwice ==
    ASSUME NEW p \in Nat, NEW k \in Int
    PROVE  Shifted(2 * p, k) = Shifted(p, k + 1)
<1>1. CASE k >= 0
  <2>1. k \in Nat /\ 2^(k + 1) = 2^k + 2^k /\ 2^k \in Nat
      BY <1>1, PowerStep, PowerType
  <2>2. (2 * p) * 2^k = p * (2^k + 2^k)
      BY <2>1
  <2>3. k + 1 >= 0
      BY <1>1
  <2> QED
      BY <1>1, <2>1, <2>2, <2>3 DEF Shifted
<1>2. CASE k < 0
  <2> DEFINE j == -k - 1
  <2>1. j \in Nat /\ -k = j + 1 /\ -(k + 1) = j
      BY <1>2
  <2>2. 2^(j + 1) = 2^j + 2^j /\ 2^j \in Nat \ {0}
      BY <2>1, PowerStep, PowerType
  <2>3. Shifted(2 * p, k) = (2 * p) \div 2^(j + 1)
      BY <1>2, <2>1 DEF Shifted
  <2>4. (2 * p) \div 2^(j + 1) = p \div 2^j
    <3> HIDE DEF j
    <3>1. 2^(j + 1) = 2 * 2^j
        BY <2>2
    <3>2. ((2 * p) \div 2) \div 2^j = (2 * p) \div (2 * 2^j)
        BY <2>2, QuotientTwice, 2 * p \in Nat
    <3>3. (2 * p) \div 2 = p
        OBVIOUS
    <3> QED
        BY <3>1, <3>2, <3>3
  <2>5. Shifted(p, k + 1) = p \div 2^j
    <3>1. CASE k + 1 < 0
        BY <2>1, <3>1 DEF Shifted
    <3>2. CASE k + 1 = 0
      <4> HIDE DEF j
      <4>1. j = 0
          BY <3>2, <2>1
      <4>2. 2^j = 1
          BY <4>1, 2^0 = 1
      <4>3. 2^(k + 1) = 1
          BY <3>2, 2^0 = 1
      <4>4. Shifted(p, k + 1) = p * 2^(k + 1)
          BY <3>2 DEF Shifted
      <4>5. p \div 1 = p /\ p * 1 = p
          OBVIOUS
      <4> QED
          BY <4>2, <4>3, <4>4, <4>5
    <3> QED
        BY <1>2, <3>1, <3>2
  <2> QED
      BY <2>3, <2>4, <2>5
<1> QED
    BY <1>1, <1>2

(* The target for an exponent, a number of half-lives in fixed point. *)
Retarget(a, x) == Scaled(a * Factor(x - Shifts(x) * 2^RadixBits), Shifts(x))

LEMMA ExponentSplits ==
    ASSUME DifficultyAssumption, NEW x \in Int
    PROVE  Shifts(x) \in Int /\ x - Shifts(x) * 2^RadixBits \in Fraction
<1>1. 2^RadixBits \in Nat \ {0}
    BY Widths
<1> DEFINE q == x \div 2^RadixBits
           r == 2^RadixBits
<1>2. q \in Int /\ r * q <= x /\ x < r * q + r
    BY <1>1, Quotient
<1>3. Shifts(x) = q
    BY DEF Shifts
<1>4. r \in Nat \ {0}
    BY <1>1
<1> HIDE DEF q, r
<1>5. x - q * r \in 0..(r - 1)
  <2>1. q * r = r * q /\ r * q \in Int
      BY <1>2, <1>4
  <2> QED
      BY <1>2, <1>4, <2>1
<1> QED
    BY <1>2, <1>3, <1>5 DEF Fraction, r

LEMMA RetargetIs ==
    ASSUME DifficultyAssumption, CubicAssumption, NEW a \in Nat, NEW x \in Int
    PROVE  LET p == a * Factor(x - Shifts(x) * 2^RadixBits)
           IN  /\ p \in Nat /\ Retarget(a, x) \in Nat
               /\ Retarget(a, x) = Shifted(p, Shifts(x)) \div 2^RadixBits
<1> DEFINE f == x - Shifts(x) * 2^RadixBits
           p == a * Factor(f)
<1>1. Shifts(x) \in Int /\ f \in Fraction
    BY ExponentSplits
<1>2. p \in Nat
    BY <1>1, FactorType
<1>3. Retarget(a, x) = Shifted(p, Shifts(x)) \div 2^RadixBits
    BY DEF Retarget, Scaled, Shifted
<1> HIDE DEF p
<1>4. Shifted(p, Shifts(x)) \div 2^RadixBits \in Nat
    BY <1>1, <1>2, ShiftedType, Widths, QuotientOfNat
<1> QED
    BY <1>2, <1>3, <1>4 DEF p

(* A greater exponent gives no lower target, across the wrap as well. *)
LEMMA RetargetGrows ==
    ASSUME DifficultyAssumption, CubicAssumption,
           NEW a \in Nat, NEW x \in Int, NEW y \in Int, x <= y
    PROVE  Retarget(a, x) <= Retarget(a, y)
<1> DEFINE r == 2^RadixBits
           k == Shifts(x)
           l == Shifts(y)
           f == x - k * r
           g == y - l * r
           p == a * Factor(f)
           q == a * Factor(g)
<1>1. r \in Nat \ {0}
    BY Widths
<1>2. k \in Int /\ l \in Int /\ f \in Fraction /\ g \in Fraction
    BY ExponentSplits
<1>3. k <= l
    BY <1>1, QuotientGrows DEF Shifts
<1>4. p \in Nat /\ q \in Nat
    BY RetargetIs
<1>5. Retarget(a, x) = Shifted(p, k) \div r /\ Retarget(a, y) = Shifted(q, l) \div r
    BY RetargetIs
<1>6. /\ Factor(f) \in Nat /\ Factor(f) <= 2 * r
      /\ Factor(g) \in Nat /\ r <= Factor(g)
    BY <1>2, FactorType
<1>7. SUFFICES Shifted(p, k) <= Shifted(q, l)
  <2> HIDE DEF p, q, k, l, r
  <2>1. Shifted(p, k) \in Int /\ Shifted(q, l) \in Int
      BY <1>2, <1>4, ShiftedType
  <2> QED
      BY <1>1, <1>5, <2>1, QuotientGrows
<1>8. CASE k = l
  <2>1. f <= g /\ f \in Int /\ g \in Int
    <3> HIDE DEF k, l
    <3>1. k * r = l * r /\ k * r \in Int
        BY <1>1, <1>2, <1>8
    <3> HIDE DEF r
    <3> QED
        BY <3>1, <1>2
  <2>2. Factor(f) <= Factor(g)
      BY <1>2, <2>1, FactorGrows
  <2>3. p <= q
      BY <1>6, <2>2, ProductGrows
  <2> HIDE DEF p, q, k, l
  <2> QED
      BY <1>2, <1>4, <1>8, <2>3, ShiftedGrows
<1>9. CASE k # l
  <2> DEFINE s == a * r
  <2>1. s \in Nat /\ k + 1 <= l /\ k + 1 \in Int
      BY <1>1, <1>2, <1>3, <1>9
  <2>2. p <= a * (2 * r)
      BY <1>1, <1>6, ProductGrows, 2 * r \in Nat
  <2>3. a * (2 * r) = 2 * s
      BY <1>1
  <2>4. s <= q
      BY <1>1, <1>6, ProductGrows
  <2> HIDE DEF p, q, k, l, s
  <2>5. Shifted(p, k) <= Shifted(2 * s, k)
      BY <1>2, <1>4, <2>1, <2>2, <2>3, ShiftedGrows, 2 * s \in Nat
  <2>6. Shifted(2 * s, k) = Shifted(s, k + 1)
      BY <1>2, <2>1, ShiftedTwice
  <2>7. Shifted(s, k + 1) <= Shifted(s, l)
      BY <1>2, <2>1, ShiftedFurther
  <2>8. Shifted(s, l) <= Shifted(q, l)
      BY <1>2, <1>4, <2>1, <2>4, ShiftedGrows
  <2>9. /\ Shifted(p, k) \in Nat /\ Shifted(s, k + 1) \in Nat /\ Shifted(s, l) \in Nat
        /\ Shifted(q, l) \in Nat
      BY <1>2, <1>4, <2>1, ShiftedType
  <2> QED
      BY <2>5, <2>6, <2>7, <2>8, <2>9
<1> QED
    BY <1>8, <1>9

LEMMA TruncatedGrows ==
    ASSUME NEW a \in Int, NEW c \in Int, NEW b \in Nat \ {0}, a <= c
    PROVE  Truncated(a, b) \in Int /\ Truncated(a, b) <= Truncated(c, b)
<1>1. ASSUME NEW d \in Int PROVE
        /\ d >= 0 => Truncated(d, b) = d \div b /\ d \div b \in Nat
        /\ d < 0 => Truncated(d, b) = -((-d) \div b) /\ (-d) \div b \in Nat
  <2>1. CASE d >= 0
      BY <2>1, QuotientOfNat, d \in Nat DEF Truncated
  <2>2. CASE d < 0
    <3>1. -d \in Nat
        BY <2>2
    <3>2. (-d) \div b \in Nat
        BY <3>1, QuotientOfNat
    <3>3. Truncated(d, b) = -((-d) \div b)
        BY <2>2 DEF Truncated
    <3> QED
        BY <2>2, <3>2, <3>3
  <2> QED
      BY <2>1, <2>2
<1>2. CASE a >= 0
    BY <1>1, <1>2, QuotientGrows, c >= 0
<1>3. CASE a < 0 /\ c >= 0
  <2>1. Truncated(a, b) = -((-a) \div b) /\ (-a) \div b \in Nat
      BY <1>1, <1>3
  <2>2. Truncated(c, b) \in Nat
      BY <1>1, <1>3
  <2> QED
      BY <2>1, <2>2
<1>4. CASE c < 0
  <2>1. a < 0 /\ -a \in Int /\ -c \in Int /\ -c <= -a
      BY <1>4
  <2>2. Truncated(a, b) = -((-a) \div b) /\ (-a) \div b \in Nat
      BY <1>1, <2>1
  <2>3. Truncated(c, b) = -((-c) \div b) /\ (-c) \div b \in Nat
      BY <1>1, <1>4
  <2>4. (-c) \div b <= (-a) \div b
      BY <2>1, QuotientGrows
  <2> QED
      BY <2>2, <2>3, <2>4
<1> QED
    BY <1>2, <1>3, <1>4

LEMMA ClampedGrows ==
    ASSUME DifficultyAssumption, NEW x \in Int, NEW y \in Int, x <= y
    PROVE  Clamped(x) \in Int /\ Clamped(x) <= Clamped(y)
<1> DEFINE most == MaxHalflives * 2^RadixBits
<1>1. most \in Nat
    BY Widths, ConstantsAre DEF Constants
<1>2. ASSUME NEW z \in Int
      PROVE  Clamped(z) = IF z > most THEN most ELSE IF z < -most THEN -most ELSE z
    BY DEF Clamped
<1> HIDE DEF most
<1> QED
    BY <1>1, <1>2

LEMMA BoundedGrows ==
    ASSUME DifficultyAssumption, NEW x \in Nat, NEW y \in Nat, x <= y
    PROVE  /\ Bounded(x) \in 1..PowLimit /\ Bounded(x) <= Bounded(y)
           /\ Bounded(x) \in Target
<1>1. PowLimit \in Nat \ {0} /\ 1..PowLimit \subseteq Target
    BY ConstantsAre DEF Constants
<1>2. Bounded(x) \in 1..PowLimit /\ Bounded(x) <= Bounded(y)
    BY <1>1 DEF Bounded
<1> QED
    BY <1>1, <1>2

(* next_target puts these together. *)
Exponent(height, secs) ==
    Clamped(Truncated((secs - IdealSecs * height) * 2^RadixBits, HalflifeSecs))

Goal(a, height, secs) == Bounded(Retarget(a, Exponent(height, secs)))

LEMMA ExponentGrows ==
    ASSUME DifficultyAssumption, NEW height \in Nat, NEW u \in Int, NEW v \in Int, u <= v
    PROVE  Exponent(height, u) \in Int /\ Exponent(height, u) <= Exponent(height, v)
<1> DEFINE r == 2^RadixBits
           i == IdealSecs * height
           x == (u - i) * r
           y == (v - i) * r
<1>1. r \in Nat \ {0} /\ i \in Nat /\ HalflifeSecs \in Nat \ {0}
    BY Widths, ConstantsAre DEF Constants
<1>2. Exponent(height, u) = Clamped(Truncated(x, HalflifeSecs))
      /\ Exponent(height, v) = Clamped(Truncated(y, HalflifeSecs))
    BY DEF Exponent
<1> HIDE DEF r, i
<1>3. PICK d \in Nat : v - i = (u - i) + d
    BY <1>1, (v - i) - (u - i) \in Nat
<1>4. y = x + d * r /\ d * r \in Nat /\ x \in Int /\ y \in Int
    BY <1>1, <1>3
<1> HIDE DEF x, y
<1>5. x <= y /\ y <= y
    BY <1>4
<1>6. /\ Truncated(x, HalflifeSecs) \in Int /\ Truncated(y, HalflifeSecs) \in Int
      /\ Truncated(x, HalflifeSecs) <= Truncated(y, HalflifeSecs)
    BY <1>1, <1>4, <1>5, TruncatedGrows
<1> QED
    BY <1>2, <1>6, ClampedGrows

LEMMA NextTargetIs ==
    ASSUME DifficultyAssumption, CubicAssumption,
           NEW a \in Nat, NEW height \in Nat, NEW secs \in Int
    PROVE  /\ NextTarget(a, height, secs) = Encoded(Goal(a, height, secs))
           /\ Goal(a, height, secs) \in 1..PowLimit
           /\ Goal(a, height, secs) \in Target
<1> DEFINE e == Exponent(height, secs)
           next == Goal(a, height, secs)
<1>1. e \in Int
    BY ExponentGrows, secs <= secs
<1> HIDE DEF e
<1>2. Retarget(a, e) \in Nat
    BY <1>1, RetargetIs
<1>3. next \in 1..PowLimit /\ next \in Target
    BY <1>2, BoundedGrows, Retarget(a, e) <= Retarget(a, e) DEF Goal, e
<1>4. NextTarget(a, height, secs)
        = IF next = 0 THEN [exponent |-> 0, mantissa |-> 0] ELSE Encoded(next)
    BY DEF NextTarget, Goal, Retarget, Exponent
<1> HIDE DEF next
<1>5. next # 0
    BY <1>3, ConstantsAre DEF Constants
<1> QED
    BY <1>3, <1>4, <1>5 DEF next

-----------------------------------------------------------------------------
(* The chain: its anchor is a target that its bits stand for, and its last *)
(* block has bits that stand for one.                                      *)
DifficultyInv ==
    anchor # NotYet =>
        /\ anchor \in Target /\ Seen(anchor) = anchor
        /\ tip.height \in Nat /\ tip.stamp \in Nat /\ Decoded(tip.bits) \in Target

ExpectedGoal(height, stamp) == Goal(anchor, height, stamp \div MsPerSecond)

LEMMA ExpectedIs ==
    ASSUME DifficultyInv, anchor # NotYet, NEW height \in Nat, NEW stamp \in Nat
    PROVE  /\ Decoded(ExpectedBits(height, stamp)) = Seen(ExpectedGoal(height, stamp))
           /\ ExpectedGoal(height, stamp) \in 1..PowLimit
           /\ ExpectedGoal(height, stamp) \in Target
<1>1. anchor \in Nat
    BY Widths, DifficultyAssumption DEF DifficultyInv
<1>2. MsPerSecond \in Nat \ {0}
    BY ConstantsAre, DifficultyAssumption DEF Constants
<1>3. stamp \div MsPerSecond \in Int
    BY <1>2, QuotientOfNat
<1>4. /\ NextTarget(anchor, height, stamp \div MsPerSecond) = Encoded(ExpectedGoal(height, stamp))
      /\ ExpectedGoal(height, stamp) \in 1..PowLimit
      /\ ExpectedGoal(height, stamp) \in Target
    BY <1>1, <1>3, NextTargetIs, DifficultyAssumption, CubicAssumption DEF ExpectedGoal
<1> QED
    BY <1>4 DEF ExpectedBits, Seen

(* What validate_header asks for is a target within the limit. *)
LEMMA ExpectedIsMineable ==
    ASSUME DifficultyInv, anchor # NotYet, NEW height \in Nat, NEW stamp \in Nat
    PROVE  /\ Decoded(ExpectedBits(height, stamp)) \in 1..PowLimit
           /\ Decoded(ExpectedBits(height, stamp)) \in Target
<1> DEFINE goal == ExpectedGoal(height, stamp)
<1>1. /\ Decoded(ExpectedBits(height, stamp)) = Seen(goal)
      /\ goal \in 1..PowLimit /\ goal \in Target
    BY ExpectedIs
<1> HIDE DEF goal
<1>2. Seen(goal) \in 1..goal /\ Seen(goal) \in Target
    BY <1>1, SeenRoundsDown, DifficultyAssumption
<1>3. PowLimit \in Nat
    BY ConstantsAre, DifficultyAssumption DEF Constants
<1>4. Seen(goal) \in 1..PowLimit
    BY <1>1, <1>2, <1>3
<1> QED
    BY <1>1, <1>2, <1>4

LEMMA DifficultyStep == DifficultyInv /\ [DifficultyNext]_difficultyVars => DifficultyInv'
<1> SUFFICES ASSUME DifficultyInv, [DifficultyNext]_difficultyVars PROVE DifficultyInv'
    OBVIOUS
<1>1. ASSUME NEW bits \in Encoding, GenesisBlock(bits) PROVE DifficultyInv'
  <2>1. /\ Decoded(bits) # NotYet /\ anchor' = Decoded(bits)
        /\ tip' = [height |-> 0, stamp |-> 0, bits |-> bits]
      BY <1>1 DEF GenesisBlock
  <2>2. Decoded(bits) \in Target /\ Seen(Decoded(bits)) = Decoded(bits)
      BY <2>1, DecodedIsStable, DifficultyAssumption
  <2>3. /\ anchor' \in Target /\ Seen(anchor') = anchor'
        /\ tip'.height \in Nat /\ tip'.stamp \in Nat /\ Decoded(tip'.bits) \in Target
      BY <2>1, <2>2
  <2> QED
      BY <2>3 DEF DifficultyInv, Seen, Decoded, Encoded
<1>2. ASSUME NEW stamp \in 0..StampMax, NEW now \in 0..StampMax, MineAndValidate(stamp, now)
      PROVE  DifficultyInv'
  <2> DEFINE bits == ExpectedBits(tip.height + 1, stamp)
  <2>1. /\ anchor # NotYet /\ anchor' = anchor
        /\ tip' = [height |-> tip.height + 1, stamp |-> stamp, bits |-> bits]
      BY <1>2 DEF MineAndValidate
  <2>2. stamp \in Nat /\ tip.height + 1 \in Nat
      BY <2>1, ConstantsAre, DifficultyAssumption DEF Constants, DifficultyInv
  <2>3. Decoded(bits) \in Target
      BY <2>1, <2>2, ExpectedIsMineable
  <2> HIDE DEF bits
  <2>4. tip'.height \in Nat /\ tip'.stamp \in Nat /\ Decoded(tip'.bits) \in Target
      BY <2>1, <2>2, <2>3
  <2>5. anchor' \in Target /\ Seen(anchor') = anchor'
      BY <2>1 DEF DifficultyInv
  <2> QED
      BY <2>4, <2>5 DEF DifficultyInv, Seen, Decoded, Encoded
<1>3. CASE UNCHANGED difficultyVars
    BY <1>3 DEF difficultyVars, DifficultyInv, Seen, Decoded, Encoded
<1> QED
    BY <1>1, <1>2, <1>3 DEF DifficultyNext

(* The inductive invariant behind the theorems below. *)
THEOREM DifficultyInvariance == DifficultySpec => []DifficultyInv
<1>1. DifficultyInit => DifficultyInv
    BY DEF DifficultyInit, DifficultyInv
<1> QED
    BY <1>1, DifficultyStep, PTL DEF DifficultySpec

(* from_target and to_target: what is decoded is the largest target that   *)
(* some bits stand for and that is not above the one asked for, and every  *)
(* target that bits stand for comes back.                                  *)
THEOREM CompactIsExact == DifficultySpec => []CompactRoundsDown
<1>1. DifficultyInv => CompactRoundsDown
  <2> SUFFICES ASSUME DifficultyInv, anchor # NotYet
               PROVE  /\ Seen(anchor) = anchor
                      /\ \A t \in Target : Seen(t) <= t /\ (anchor <= t => anchor <= Seen(t))
      BY DEF CompactRoundsDown, Seen
  <2>1. anchor \in Target /\ Seen(anchor) = anchor
      BY DEF DifficultyInv
  <2>2. ASSUME NEW t \in Target PROVE Seen(t) <= t /\ (anchor <= t => anchor <= Seen(t))
    <3>1. Seen(t) <= t
        BY SeenRoundsDown, DifficultyAssumption
    <3>2. anchor <= t => Seen(anchor) <= Seen(t)
        BY <2>1, SeenGrows, DifficultyAssumption
    <3> QED
        BY <2>1, <3>1, <3>2
  <2> QED
      BY <2>1, <2>2
<1> QED
    BY <1>1, DifficultyInvariance, PTL

(* work_for_target, in 256 bits without 2^256 itself. *)
LEMMA WorkIs ==
    ASSUME NEW t \in Target
    PROVE  WorkFor(t) * (t + 1) <= 2^Width /\ 2^Width < (WorkFor(t) + 1) * (t + 1)
<1> DEFINE w == 2^Width
           d == t + 1
           rest == w - 1 - t
           q == rest \div d
<1>1. w \in Nat \ {0} /\ t \in Nat \ {0} /\ d \in Nat \ {0} /\ rest \in Nat
    BY Widths, DifficultyAssumption DEF Target
<1>2. q \in Nat /\ q * d <= rest /\ rest < q * d + d
    BY <1>1, QuotientOfNat
<1>3. WorkFor(t) = IF t = w - 1 THEN 1 ELSE q + 1
    BY DEF WorkFor
<1>4. w = rest + d
    BY <1>1
<1> HIDE DEF w, rest, q
<1>5. CASE t = w - 1
  <2>1. WorkFor(t) = 1 /\ d = w
      BY <1>1, <1>3, <1>5
  <2> HIDE DEF d
  <2>2. 1 * d = w /\ (1 + 1) * d = w + w
      BY <1>1, <2>1
  <2> QED
      BY <1>1, <2>1, <2>2 DEF d, w
<1>6. CASE t # w - 1
  <2> HIDE DEF d
  <2>1. WorkFor(t) = q + 1
      BY <1>3, <1>6
  <2>2. (q + 1) * d = q * d + d /\ (q + 1 + 1) * d = q * d + d + d /\ q * d \in Nat
      BY <1>1, <1>2
  <2>3. (q + 1) * d <= w /\ w < (q + 1 + 1) * d
      BY <1>1, <1>2, <1>4, <2>2
  <2> QED
      BY <2>1, <2>3 DEF d, w
<1> QED
    BY <1>5, <1>6

(* A chain never comes to a halt (next_target, validate_header): whatever  *)
(* the timestamps, its last block has the work its target stands for, and  *)
(* the next one can be mined.                                              *)
THEOREM ChainAlwaysGrows == DifficultySpec => []ChainGrows
<1>1. DifficultyInv => WorkIsExact
  <2> SUFFICES ASSUME DifficultyInv, anchor # NotYet
               PROVE  LET t == Decoded(tip.bits)
                      IN  /\ WorkFor(t) * (t + 1) <= 2^Width
                          /\ 2^Width < (WorkFor(t) + 1) * (t + 1)
      BY DEF WorkIsExact
  <2>1. Decoded(tip.bits) \in Target
      BY DEF DifficultyInv
  <2> QED
      BY <2>1, WorkIs
<1>2. DifficultyInv => AlwaysMineable
  <2> SUFFICES ASSUME DifficultyInv, anchor # NotYet, NEW stamp \in tip.stamp..StampMax
               PROVE  Decoded(ExpectedBits(tip.height + 1, stamp)) \in 1..PowLimit
      BY DEF AlwaysMineable
  <2>1. stamp \in Nat /\ tip.height + 1 \in Nat
      BY ConstantsAre, DifficultyAssumption DEF Constants, DifficultyInv
  <2> QED
      BY <2>1, ExpectedIsMineable
<1>3. DifficultyInv => ChainGrows
    BY <1>1, <1>2 DEF ChainGrows
<1> QED
    BY <1>3, DifficultyInvariance, PTL

(* next_target: a later timestamp never makes a block harder. *)
THEOREM LaterNeverHarder == DifficultySpec => []LaterIsNoHarder
<1>1. DifficultyInv => LaterIsNoHarder
  <2> SUFFICES ASSUME DifficultyInv, anchor # NotYet, NEW stamp \in tip.stamp..(StampMax - 1)
               PROVE  Decoded(ExpectedBits(tip.height + 1, stamp))
                        <= Decoded(ExpectedBits(tip.height + 1, stamp + 1))
      BY DEF LaterIsNoHarder
  <2> DEFINE height == tip.height + 1
             u == stamp \div MsPerSecond
             v == (stamp + 1) \div MsPerSecond
  <2>1. /\ stamp \in Nat /\ stamp + 1 \in Nat /\ height \in Nat /\ anchor \in Nat
        /\ MsPerSecond \in Nat \ {0}
      BY ConstantsAre, Widths, DifficultyAssumption DEF Constants, DifficultyInv
  <2>2. u \in Int /\ v \in Int /\ u <= v
    <3>1. stamp \in Int /\ stamp + 1 \in Int /\ stamp <= stamp + 1
        BY <2>1
    <3>2. u \in Int /\ v \in Int
        BY <2>1, <3>1, Quotient
    <3>3. u <= v
        BY <2>1, <3>1, QuotientGrows
    <3> QED
        BY <3>2, <3>3
  <2>3. /\ Decoded(ExpectedBits(height, stamp)) = Seen(ExpectedGoal(height, stamp))
        /\ ExpectedGoal(height, stamp) \in Target
        /\ Decoded(ExpectedBits(height, stamp + 1)) = Seen(ExpectedGoal(height, stamp + 1))
        /\ ExpectedGoal(height, stamp + 1) \in Target
      BY <2>1, ExpectedIs
  <2>4. ExpectedGoal(height, stamp) <= ExpectedGoal(height, stamp + 1)
    <3> DEFINE x == Exponent(height, u)
               y == Exponent(height, v)
    <3>1. x \in Int /\ y \in Int /\ x <= y
        BY <2>1, <2>2, ExponentGrows, DifficultyAssumption, v <= v
    <3>2. /\ ExpectedGoal(height, stamp) = Bounded(Retarget(anchor, x))
          /\ ExpectedGoal(height, stamp + 1) = Bounded(Retarget(anchor, y))
        BY DEF ExpectedGoal, Goal
    <3> HIDE DEF x, y
    <3>3. Retarget(anchor, x) <= Retarget(anchor, y)
        BY <2>1, <3>1, RetargetGrows, DifficultyAssumption, CubicAssumption
    <3>4. Retarget(anchor, x) \in Nat /\ Retarget(anchor, y) \in Nat
        BY <2>1, <3>1, RetargetIs, DifficultyAssumption, CubicAssumption
    <3> QED
        BY <3>2, <3>3, <3>4, BoundedGrows, DifficultyAssumption
  <2> HIDE DEF height
  <2>5. Seen(ExpectedGoal(height, stamp)) <= Seen(ExpectedGoal(height, stamp + 1))
      BY <2>3, <2>4, SeenGrows, DifficultyAssumption
  <2> QED
      BY <2>3, <2>5 DEF height
<1> QED
    BY <1>1, DifficultyInvariance, PTL

(* On schedule, next_target is the anchor's target, or the limit. *)
LEMMA RetargetOnSchedule ==
    ASSUME NEW a \in Nat
    PROVE  Retarget(a, 0) = a
<1> DEFINE r == 2^RadixBits
<1>1. r \in Nat \ {0} /\ RadixBits \in Nat \ {0}
    BY Widths, DifficultyAssumption
<1>2. Shifts(0) = 0
    BY <1>1, QuotientIs, 0 \in Int, r * 0 <= 0, 0 < r * 0 + r DEF Shifts
<1>3. Factor(0) = r
  <2> DEFINE half == 2^(3 * RadixBits - 1)
             whole == 2^(3 * RadixBits)
  <2>1. half \in Nat \ {0} /\ whole \in Nat \ {0} /\ half < whole
    <3>1. 3 * RadixBits - 1 \in Nat /\ 3 * RadixBits \in Nat /\ 3 * RadixBits - 1 < 3 * RadixBits
        BY <1>1
    <3> QED
        BY <3>1, PowerType, PowerGrows
  <2>2. CubicC1 * 0 + CubicC2 * 0 * 0 + CubicC3 * 0 * 0 * 0 = 0
    <3>1. CubicC1 \in Nat /\ CubicC2 \in Nat /\ CubicC3 \in Nat
        BY ConstantsAre, DifficultyAssumption DEF Constants
    <3> QED
        BY <3>1
  <2>3. Factor(0) = r + (CubicC1 * 0 + CubicC2 * 0 * 0 + CubicC3 * 0 * 0 * 0 + half) \div whole
      BY DEF Factor
  <2> HIDE DEF half, whole, r
  <2>4. Factor(0) = r + half \div whole
      BY <2>1, <2>2, <2>3
  <2>5. half \div whole = 0
    <3>1. whole * 0 <= half /\ half < whole * 0 + whole /\ half \in Int
        BY <2>1
    <3> QED
        BY <2>1, <3>1, QuotientIs
  <2> QED
      BY <1>1, <2>4, <2>5
<1>4. 0 - Shifts(0) * r = 0
    BY <1>1, <1>2
<1>5. Retarget(a, 0) = ((a * r) * 2^0) \div r
  <2>1. Retarget(a, 0) = Scaled(a * Factor(0 - Shifts(0) * r), Shifts(0))
      BY DEF Retarget
  <2>2. Retarget(a, 0) = Scaled(a * r, 0)
      BY <1>2, <1>3, <1>4, <2>1
  <2>3. Scaled(a * r, 0) = ((a * r) * 2^0) \div r
      BY DEF Scaled
  <2> QED
      BY <2>2, <2>3
<1> HIDE DEF r
<1>6. (a * r) * 2^0 = a * r
    BY <1>1, 2^0 = 1
<1>7. (a * r) \div r = a
    BY <1>1, QuotientExact
<1> QED
    BY <1>5, <1>6, <1>7

(* next_target: errors do not accumulate, whatever the timestamps before. *)
THEOREM OnScheduleExact == DifficultySpec => []OnScheduleIsAnchor
<1>1. DifficultyInv => OnScheduleIsAnchor
  <2> SUFFICES ASSUME DifficultyInv, anchor # NotYet
               PROVE  Decoded(ExpectedBits(tip.height + 1, IdealSecs * (tip.height + 1) * MsPerSecond))
                        = Seen(Bounded(anchor))
      BY DEF OnScheduleIsAnchor, Seen
  <2> DEFINE height == tip.height + 1
             secs == IdealSecs * height
             stamp == secs * MsPerSecond
  <2>1. height \in Nat /\ anchor \in Nat /\ MsPerSecond \in Nat \ {0} /\ IdealSecs \in Nat
        /\ HalflifeSecs \in Nat \ {0} /\ MaxHalflives \in Nat
      BY ConstantsAre, Widths, DifficultyAssumption DEF Constants, DifficultyInv
  <2> HIDE DEF height
  <2>2. secs \in Nat /\ stamp \in Nat
      BY <2>1
  <2>3. stamp \div MsPerSecond = secs
      BY <2>1, <2>2, QuotientExact
  <2>4. Exponent(height, secs) = 0
    <3> DEFINE r == 2^RadixBits
    <3>1. r \in Nat \ {0}
        BY Widths, DifficultyAssumption
    <3>2. (secs - IdealSecs * height) * r = 0
        BY <2>1, <2>2, <3>1
    <3>3. Truncated(0, HalflifeSecs) = 0
        BY <2>1, QuotientIs, 0 \in Int, HalflifeSecs * 0 <= 0, 0 < HalflifeSecs * 0 + HalflifeSecs
           DEF Truncated
    <3>4. Clamped(0) = 0
      <4> DEFINE most == MaxHalflives * r
      <4>1. most \in Nat
          BY <2>1, <3>1
      <4>2. Clamped(0) = IF 0 > most THEN most ELSE IF 0 < -most THEN -most ELSE 0
          BY DEF Clamped
      <4> HIDE DEF most
      <4> QED
          BY <4>1, <4>2
    <3>5. Exponent(height, secs) = Clamped(Truncated((secs - IdealSecs * height) * r, HalflifeSecs))
        BY DEF Exponent
    <3> QED
        BY <3>2, <3>3, <3>4, <3>5
  <2> HIDE DEF stamp, secs
  <2>5. ExpectedGoal(height, stamp) = Bounded(anchor)
      BY <2>1, <2>3, <2>4, RetargetOnSchedule DEF ExpectedGoal, Goal
  <2>6. Decoded(ExpectedBits(height, stamp)) = Seen(ExpectedGoal(height, stamp))
      BY <2>1, <2>2, ExpectedIs
  <2> QED
      BY <2>5, <2>6 DEF height, stamp, secs
<1> QED
    BY <1>1, DifficultyInvariance, PTL
=============================================================================
