------------------------------- MODULE Params -------------------------------
(***************************************************************************)
(* Chain parameters (crates/primitives/src/params.rs): what is derived     *)
(* from a block interval, which sets validate accepts, and the fee market  *)
(* the executor steers by them (next_base_fee, crates/chain/src/           *)
(* executor.rs).  Node::boot takes no other set.                           *)
(*                                                                         *)
(* Operators named Mut... are wrong on purpose and in no action.           *)
(***************************************************************************)
EXTENDS Integers

CONSTANTS
    ParamSets,          \* the sets a configuration may name
    SecondMs,        \* MS_PER_SECOND
    MaxTxGasLimit,      \* MAX_TX_GAS_LIMIT
    LagSeconds,         \* DEFERRED_STATE_ROOT_LAG_SECONDS
    WindowSeconds,      \* PRUNING_WINDOW_SECONDS
    KMultiple,          \* MERGESET_SIZE_LIMIT_K_MULTIPLE
    InitialBaseFee,     \* INITIAL_BASE_FEE
    FeeMax              \* bound: the highest base fee looked at

ASSUME ParamsAssumption ==
    /\ \A p \in ParamSets : {p.interval_ms, p.ghostdag_k, p.gas_per_second} \subseteq Nat
    /\ SecondMs \in Nat \ {0} /\ MaxTxGasLimit \in Nat \ {0}
    /\ LagSeconds \in Nat \ {0} /\ WindowSeconds \in Nat \ {0}
    /\ LagSeconds <= WindowSeconds
    /\ KMultiple \in Nat \ {0}
    /\ InitialBaseFee \in Nat \ {0} /\ FeeMax \in Nat

VARIABLES
    params,     \* the ChainParams of the running node, or Unbooted
    next_fee    \* the base fee of the block after the tip, or NoFee

paramsVars == <<params, next_fee>>

Unbooted == [interval_ms |-> 0, ghostdag_k |-> 0, gas_per_second |-> 0]

-----------------------------------------------------------------------------
(* Derived parameters; u64 division. *)
BlocksPerSecond(p) == SecondMs \div p.interval_ms

BlockGasTarget(p) == p.gas_per_second \div BlocksPerSecond(p)

BlockGasLimit(p) ==
    IF BlockGasTarget(p) > MaxTxGasLimit THEN BlockGasTarget(p) ELSE MaxTxGasLimit

DeferredStateRootLag(p) == LagSeconds * BlocksPerSecond(p)

PruningWindowBlocks(p) == WindowSeconds * BlocksPerSecond(p)

MergesetSizeLimit(p) == KMultiple * p.ghostdag_k

(* ChainParams::validate. *)
(* Mutant: an interval need not divide a second. *)
MutValidates(p) == p.interval_ms # 0 /\ p.interval_ms <= SecondMs /\ p.ghostdag_k # 0

Validates(p) ==
    /\ p.interval_ms # 0
    /\ SecondMs % p.interval_ms = 0
    /\ p.gas_per_second % BlocksPerSecond(p) = 0
    /\ p.ghostdag_k # 0

-----------------------------------------------------------------------------
(* calc_next_block_base_fee (external: alloy), as next_base_fee calls it:  *)
(* with twice the block gas target as the limit, an elasticity of 2 and a  *)
(* change denominator of 8.                                                *)
Elasticity == 2

ChangeDenominator == 8

(* Mutant: it is called with the gas limit of a block. *)
MutSteeredBy(p) == BlockGasLimit(p)

SteeredBy(p) == 2 * BlockGasTarget(p)

Larger(a, b) == IF a > b THEN a ELSE b

(* Above a target of zero there is no fee: the division by it panics       *)
(* wherever the fee is asked for, in the next block first of all.          *)
NoFee == 0

NextBaseFee(p, used, fee) ==
    LET target == SteeredBy(p) \div Elasticity
    IN  IF used = target THEN fee
        ELSE IF target = 0 THEN NoFee
        ELSE IF used > target
        THEN fee + Larger(1, (fee * (used - target)) \div (target * ChangeDenominator))
        ELSE fee - (fee * (target - used)) \div (target * ChangeDenominator)

(* Node::boot with a valid set; the tip is genesis, which used no gas. *)
Boot(p) ==
    /\ params = Unbooted
    /\ Validates(p)
    /\ params' = p
    /\ next_fee' = NextBaseFee(p, 0, InitialBaseFee)

(* A chain block that used so much gas; no block uses more than the limit. *)
ExecuteBlock(used) ==
    /\ params # Unbooted
    /\ used <= BlockGasLimit(params)
    /\ next_fee # NoFee
    /\ next_fee <= FeeMax
    /\ next_fee' = NextBaseFee(params, used, next_fee)
    /\ UNCHANGED params

ParamsInit == params = Unbooted /\ next_fee = InitialBaseFee

ParamsNext ==
    \/ \E p \in ParamSets : Boot(p)
    \/ params # Unbooted /\ \E used \in 0..BlockGasLimit(params) : ExecuteBlock(used)

ParamsSpec == ParamsInit /\ [][ParamsNext]_paramsVars

-----------------------------------------------------------------------------
(* For a node that booted no derivation lost anything: blocks fill a       *)
(* second exactly, their gas adds up to the advertised throughput, the lag *)
(* and the window span the time they are named for, and the result a       *)
(* header publishes is not yet out of the window in which it can be        *)
(* undone.                                                                 *)
DerivedAreExact ==
    params # Unbooted =>
        /\ BlocksPerSecond(params) * params.interval_ms = SecondMs
        /\ BlockGasTarget(params) * BlocksPerSecond(params) = params.gas_per_second
        /\ DeferredStateRootLag(params) * params.interval_ms = LagSeconds * SecondMs
        /\ PruningWindowBlocks(params) * params.interval_ms = WindowSeconds * SecondMs
        /\ DeferredStateRootLag(params) <= PruningWindowBlocks(params)
        /\ MergesetSizeLimit(params) >= KMultiple

(* "Sustained use above the amortised target drives the base fee up"       *)
(* (params.rs:185), also where the ceiling is several times the target;    *)
(* use at the target leaves it; and it never falls to zero, from where     *)
(* only the smallest step would bring it back.  So for every set that      *)
(* validate accepts, but those without a gas target: with them a chain     *)
(* ends after the first block that uses gas.                               *)
FeeSteersToTarget ==
    params # Unbooted /\ BlockGasTarget(params) > 0 =>
        \A used \in 0..BlockGasLimit(params) :
            LET fee == NextBaseFee(params, used, next_fee)
            IN  next_fee >= 1 /\ fee >= 1 /\ (used > BlockGasTarget(params) <=> fee > next_fee)
=============================================================================
