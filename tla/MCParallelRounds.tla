-------------------------- MODULE MCParallelRounds --------------------------
(* Layering and ParallelRounds for TLC: accounts are interchangeable.  One *)
(* transaction or two do anything of interest with two coins each, or look *)
(* for a third one where they pay; three pay the miner they name; four are *)
(* only ordered.                                                           *)
EXTENDS ParallelRounds, TLC

Symmetry == Permutations(Address)

Does(miner, reach, nonce, value, tip, gas) ==
    [miner |-> miner, look |-> reach, reach |-> reach, nonce |-> nonce, least |-> 0,
     value |-> value, tip |-> tip, gas |-> gas]

MCCarriable ==
    [n \in 0..MaxTxs |->
        IF n > 3 THEN {}
        ELSE IF n = 3 THEN {Does(a, a, 0, 1, 1, 1) : a \in Address}
        ELSE UNION {{Does(a, b, 0, 1, 0, 1), Does(a, b, 0, 1, 1, 1), Does(a, b, 0, 2, 1, 2),
                     [Does(a, b, 0, 1, 1, 1) EXCEPT !.least = 3]} :
                        a \in Address, b \in Address}]
=============================================================================
