------------------------------ MODULE MCParts -------------------------------
(* The parts of a node that keep a state of their own, for TLC: the pool,  *)
(* the lock, the block store, the world state, difficulty and the chain    *)
(* parameters.  A behaviour is one of one of them; the others stay where   *)
(* they begin, so their state spaces add up.  The genesis of the world has *)
(* an account without code, or none, and a contract, or none.              *)
EXTENDS TxPool, NodeLock, Store, WorldState, Difficulty, Params

VARIABLE part

(* The transactions of the pool: seven of two senders, three of which      *)
(* compete for a nonce, and one that is refused.  The base fee changes     *)
(* which of two pays more.                                                 *)
TxOf(s, n, fee, priority) ==
    [sender |-> s, nonce |-> n, max_fee |-> fee, priority |-> priority,
     gas |-> 1, value |-> 0, well_formed |-> TRUE]

MCTx == {TxOf("ann", 0, 4, 1), TxOf("ann", 0, 3, 3), TxOf("ann", 0, 4, 3),
         TxOf("ann", 1, 4, 2), TxOf("ann", 2, 4, 4), TxOf("bob", 0, 4, 2),
         TxOf("bob", 1, 3, 3), [TxOf("bob", 2, 4, 4) EXCEPT !.well_formed = FALSE]}

(* The users of the lock: the mining loop and two workers. *)
MCCallsOf ==
    [t \in Thread |-> IF t = "miner" THEN {MineOnce}
                      ELSE {Query, FeeHistory, GetBlock, GetTransactionReceipt, GetLogsLocks,
                            Simulate, EstimateGas, SendRawTransaction}]

(* A second of six milliseconds, intervals that divide it and some that do *)
(* not, gas that the rate divides, some that it does not, and none.        *)
MCParamSets ==
    [interval_ms : {0, 1, 2, 3, 4, 6}, ghostdag_k : {0, 1}, gas_per_second : {0, 6, 7, 12}]

Only(name, others) == part = name /\ UNCHANGED others /\ UNCHANGED part

PartsInit ==
    /\ part \in {"pool", "lock", "store", "world", "difficulty", "params"}
    /\ Init /\ LockInit /\ StoreInit /\ WorldInit /\ DifficultyInit /\ ParamsInit
    /\ part # "pool" => base_fee = 0 /\ account = [s \in Sender |-> [nonce |-> 0, balance |-> 9]]
    /\ part # "world" => accounts = <<>>
    /\ \A a \in DOMAIN accounts : (a = "con") = (accounts[a].info.code # NoCode)

PartsNext ==
    \/ Only("pool", <<lockVars, storeVars, worldVars, difficultyVars, paramsVars>>) /\ Next
    \/ Only("lock", <<vars, storeVars, worldVars, difficultyVars, paramsVars>>) /\ LockNext
    \/ Only("store", <<vars, lockVars, worldVars, difficultyVars, paramsVars>>) /\ StoreNext
    \/ Only("world", <<vars, lockVars, storeVars, difficultyVars, paramsVars>>) /\ WorldNext
    \/ Only("difficulty", <<vars, lockVars, storeVars, worldVars, paramsVars>>)
           /\ DifficultyNext
    \/ Only("params", <<vars, lockVars, storeVars, worldVars, difficultyVars>>) /\ ParamsNext

PartsSpec == PartsInit /\ [][PartsNext]_<<part, vars, lockVars, storeVars, worldVars,
                                         difficultyVars, paramsVars>>
=============================================================================
