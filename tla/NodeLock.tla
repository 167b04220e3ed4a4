------------------------------ MODULE NodeLock ------------------------------
(***************************************************************************)
(* The one lock over the node (crates/rpc/src/backend.rs) and how its      *)
(* users take it: the RPC methods (eth.rs), each on a worker thread of the *)
(* runtime, and the mining loop (crates/node/src/dev.rs).  A method is the *)
(* sequence of its lock operations; what it reads and writes in between is *)
(* in modules Rpc and DevNode.                                             *)
(*                                                                         *)
(* The lock (external: parking_lot::RwLock) has many readers or one        *)
(* writer.  A writer first claims it, which shuts out new readers, also    *)
(* one that holds it already, then waits for the readers inside to leave.  *)
(***************************************************************************)
EXTENDS Integers, Sequences, FiniteSets

CONSTANTS
    Thread,     \* the threads of the runtime
    CallsOf     \* thread -> the calls it may be given, each a sequence of operations

LockOp == {"read", "unread", "claim", "enter", "grow", "leave"}

(* How often a call does op before its p-th operation, and how many guards *)
(* it holds then.                                                          *)
Done(c, op, p) == Cardinality({q \in 1..(p - 1) : c[q] = op})

Depth(c, p) == Done(c, "read", p) - Done(c, "unread", p)

(* Guards are scopes: a call drops what it took and no more, claims the    *)
(* lock when it holds none, and does nothing but write until it leaves.    *)
Paired(c) ==
    /\ \A p \in 1..(Len(c) + 1) : Depth(c, p) >= 0
    /\ Depth(c, Len(c) + 1) = 0
    /\ \A p \in 1..Len(c) :
           /\ c[p] \in {"claim", "enter", "grow", "leave"} => Depth(c, p) = 0
           /\ c[p] \in {"claim", "enter", "grow"} => p < Len(c)
           /\ c[p] \in {"enter", "grow", "leave"}
                  <=> p > 1 /\ c[p - 1] \in {"claim", "enter", "grow"}

ASSUME LockAssumption ==
    /\ CallsOf \in [Thread -> SUBSET Seq(LockOp)]
    /\ \A t \in Thread : \A c \in CallsOf[t] : Paired(c)

VARIABLES
    call,       \* thread -> the call it is in, or was in last
    at,         \* thread -> the position of its next operation
    holds,      \* thread -> how many read guards it holds
    claimed,    \* the thread that has claimed the lock for writing, or Nobody
    grown       \* the height of the chain, modulo 2

lockVars == <<call, at, holds, claimed, grown>>

Nobody == "nobody"

ASSUME NobodyAssumption == Nobody \notin Thread

-----------------------------------------------------------------------------
(* Backend::read and Backend::write, around what the closure does. *)
Read(inner) == <<"read">> \o inner \o <<"unread">>

Write(inner) == <<"claim", "enter">> \o inner \o <<"leave">>

(* height, balance, nonce, params, next_base_fee. *)
Query == Read(<<>>)

(* eth_feeHistory: the height, the gas limit, then under a third guard the *)
(* fees, and with each height next_base_fee, which takes the lock again;   *)
(* last the fee of the next block.                                         *)
FeeHistory == Query \o Query \o Read(Query) \o Query

(* render_block asks for the parameters while it holds the lock. *)
RenderBlockLocks == Read(Query)

(* A block parameter such as "latest" is resolved by the height. *)
ResolveHeight == Query

(* eth_getBlockByNumber and ...ByHash: the height, then the block at it. *)
GetBlock == ResolveHeight \o RenderBlockLocks

(* eth_getTransactionReceipt: the receipt, the sender, the depth. *)
GetTransactionReceipt == Query \o Query \o Query

(* eth_getLogs: the height, both ends of the range, the logs. *)
GetLogsLocks == Query \o ResolveHeight \o ResolveHeight \o Read(<<>>)

(* The environment of a call: the base fee, the parameters, the nonce. *)
CallEnv == Query \o Query \o Query

(* eth_call: the parameters, the base fee and the height, the environment, *)
(* and last the state it runs on; eth_estimateGas runs it twice.           *)
Simulate == Query \o Query \o Query \o CallEnv \o Read(<<>>)

EstimateGas == Simulate \o Simulate

SendRawTransaction == Write(<<>>)

(* mine_once: the template, then the block. *)
MineOnce == Write(<<>>) \o Write(<<"grow">>)

-----------------------------------------------------------------------------
Op(t) == IF at[t] \in DOMAIN call[t] THEN call[t][at[t]] ELSE "idle"

Advanced(t) == at' = [at EXCEPT ![t] = @ + 1] /\ UNCHANGED call

Start(t, c) ==
    /\ Op(t) = "idle"
    /\ c \in CallsOf[t]
    /\ call' = [call EXCEPT ![t] = c]
    /\ at' = [at EXCEPT ![t] = 1]
    /\ UNCHANGED <<holds, claimed, grown>>

AcquireRead(t) ==
    /\ Op(t) = "read"
    /\ claimed = Nobody
    /\ holds' = [holds EXCEPT ![t] = @ + 1]
    /\ Advanced(t)
    /\ UNCHANGED <<claimed, grown>>

ReleaseRead(t) ==
    /\ Op(t) = "unread"
    /\ holds' = [holds EXCEPT ![t] = @ - 1]
    /\ Advanced(t)
    /\ UNCHANGED <<claimed, grown>>

Claim(t) ==
    /\ Op(t) = "claim"
    /\ claimed = Nobody
    /\ claimed' = t
    /\ Advanced(t)
    /\ UNCHANGED <<holds, grown>>

Drained(h) == \A r \in Thread : h[r] = 0

Enter(t) ==
    /\ Op(t) = "enter"
    /\ Drained(holds)
    /\ Advanced(t)
    /\ UNCHANGED <<holds, claimed, grown>>

Grow(t) ==
    /\ Op(t) = "grow"
    /\ grown' = (grown + 1) % 2
    /\ Advanced(t)
    /\ UNCHANGED <<holds, claimed>>

(* Mutant: the guard of a writer is kept. *)
MutUnclaimed == claimed

Unclaimed == Nobody

Leave(t) ==
    /\ Op(t) = "leave"
    /\ claimed' = Unclaimed
    /\ Advanced(t)
    /\ UNCHANGED <<holds, grown>>

LockInit ==
    /\ call = [t \in Thread |-> <<>>]
    /\ at = [t \in Thread |-> 1]
    /\ holds = [t \in Thread |-> 0]
    /\ claimed = Nobody
    /\ grown = 0

Step(t) ==
    \/ AcquireRead(t) \/ ReleaseRead(t)
    \/ Claim(t) \/ Enter(t) \/ Grow(t) \/ Leave(t)

LockNext == \E t \in Thread : Step(t) \/ \E c \in CallsOf[t] : Start(t, c)

LockSpec == LockInit /\ [][LockNext]_lockVars

(* A thread that can go on does; the miner's ticker always starts the next *)
(* round.                                                                  *)
LockFairness(miner) ==
    /\ \A t \in Thread : WF_lockVars(Step(t))
    /\ WF_lockVars(Start(miner, MineOnce))

-----------------------------------------------------------------------------
CanStep(t) ==
    \/ Op(t) \in {"read", "claim"} /\ claimed = Nobody
    \/ Op(t) = "enter" /\ Drained(holds)
    \/ Op(t) \in {"unread", "grow", "leave"}

(* Calls in progress do not all wait for each other, unless one of them    *)
(* asks for the lock while it holds it.                                    *)
StuckOnlyByReentry ==
    \/ \A t \in Thread : Op(t) = "idle"
    \/ \E t \in Thread : CanStep(t)
    \/ \E t \in Thread : Op(t) = "read" /\ holds[t] > 0

(* "So a chain with no traffic still advances and clients polling          *)
(* eth_blockNumber see progress" (dev.rs:243): the height keeps changing.  *)
HeightAdvances == []<>(grown = 0) /\ []<>(grown = 1)
=============================================================================
