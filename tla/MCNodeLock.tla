----------------------------- MODULE MCNodeLock -----------------------------
(* NodeLock for TLC: the mining loop and one RPC worker that only reads.   *)
EXTENDS NodeLock

MCCallsOf ==
    [t \in Thread |-> IF t = "miner" THEN {MineOnce}
                      ELSE {Query, FeeHistory, GetBlock}]

FairLockSpec == LockSpec /\ LockFairness("miner")
=============================================================================
