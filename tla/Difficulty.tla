----------------------------- MODULE Difficulty -----------------------------
(***************************************************************************)
(* Difficulty: the compact encoding of targets                             *)
(* (crates/difficulty/src/compact.rs), the ASERT rule (asert.rs), work     *)
(* (crates/ghostdag/src/work.rs), and a chain whose headers are mined and  *)
(* validated by them (crates/consensus/src/miner.rs and validate.rs), from *)
(* a genesis block with any bits that decode (genesis.rs).                 *)
(*                                                                         *)
(* Numbers are the code's with fewer bits: Width for 256, DigitBits for    *)
(* the 8 of a mantissa byte, RadixBits for 16, and the coefficients of the *)
(* cubic in as many bits, which stands for 2^x - 1 on [0, 1) all the same. *)
(* Operators named Mut... are wrong on purpose and in no action.           *)
(***************************************************************************)
EXTENDS Integers

CONSTANTS
    Width, DigitBits, RadixBits,
    CubicC1, CubicC2, CubicC3,
    MaxHalflives,
    IdealSecs, HalflifeSecs, PowLimit,  \* AsertParams
    MsPerSecond, FutureDriftMs,
    StampMax,                           \* bound: the latest timestamp, in ms after genesis
    HeightMax                           \* bound: how many blocks are looked at

ASSUME DifficultyAssumption ==
    /\ {Width, DigitBits, RadixBits, CubicC1, CubicC2, CubicC3} \subseteq Nat \ {0}
    /\ {MaxHalflives, HalflifeSecs, PowLimit, MsPerSecond} \subseteq Nat \ {0}
    /\ {IdealSecs, FutureDriftMs, StampMax, HeightMax} \subseteq Nat
    /\ PowLimit < 2^Width

VARIABLES
    anchor,     \* the genesis target, or NotYet
    tip         \* the last header: [height, stamp, bits]

difficultyVars == <<anchor, tip>>

NotYet == 0

MantissaDigits == 3

Target == 1..(2^Width - 1)

-----------------------------------------------------------------------------
(* CompactTarget, with every exponent that does not overflow by itself, and *)
(* one that does.                                                          *)
Encoding == [exponent : 0..(Width \div DigitBits + MantissaDigits),
             mantissa : 0..(2^(DigitBits * MantissaDigits) - 1)]

SignBit == 2^(DigitBits * MantissaDigits - 1)

(* to_target, or NotYet (no target) where it returns an error: a mantissa  *)
(* that is zero or has the sign bit, one shifted out, one that overflows.  *)
Decoded(bits) ==
    LET places == bits.exponent - MantissaDigits
        target == IF places <= 0 THEN bits.mantissa \div 2^(DigitBits * (-places))
                  ELSE bits.mantissa * 2^(DigitBits * places)
    IN  IF bits.mantissa >= SignBit \/ DigitBits * places >= Width \/ target >= 2^Width
        THEN NotYet ELSE target

Digits(target) ==
    CHOOSE n \in 1..(Width \div DigitBits + 1) :
        target < 2^(DigitBits * n) /\ target >= 2^(DigitBits * (n - 1))

(* from_target: the leading digits, one less where the sign bit would be   *)
(* set.                                                                    *)
(* Mutant: one less also where it is not.                                  *)
MutUnsigned(bits) == [exponent |-> bits.exponent + 1, mantissa |-> bits.mantissa \div 2^DigitBits]

Unsigned(bits) ==
    IF bits.mantissa < SignBit THEN bits
    ELSE [exponent |-> bits.exponent + 1, mantissa |-> bits.mantissa \div 2^DigitBits]

Encoded(target) ==
    LET n == Digits(target)
    IN  Unsigned([exponent |-> n,
                  mantissa |-> IF n <= MantissaDigits
                               THEN target * 2^(DigitBits * (MantissaDigits - n))
                               ELSE target \div 2^(DigitBits * (n - MantissaDigits))])

-----------------------------------------------------------------------------
(* i128 division: towards zero. *)
Truncated(a, b) == IF a >= 0 THEN a \div b ELSE -((-a) \div b)

Clamped(x) ==
    LET most == MaxHalflives * 2^RadixBits
    IN  IF x > most THEN most ELSE IF x < -most THEN -most ELSE x

(* Whole half-lives; an arithmetic shift rounds down. *)
Shifts(x) == x \div 2^RadixBits

(* 2^frac, with RadixBits bits after the point. *)
Factor(frac) ==
    2^RadixBits + (CubicC1 * frac + CubicC2 * frac * frac + CubicC3 * frac * frac * frac
                   + 2^(3 * RadixBits - 1)) \div 2^(3 * RadixBits)

(* The coefficients keep it within [1, 2] ("(RADIX..=2 * RADIX)            *)
(* .contains(&factor)", asert.rs:111).                                     *)
ASSUME CubicAssumption == \A frac \in 0..(2^RadixBits - 1) : Factor(frac) <= 2 * 2^RadixBits

(* next = product * 2^shifts / RADIX, in 512 bits.                         *)
(* Mutant: in 256 bits, where it wraps around.                             *)
MutScaled(product, shifts) ==
    ((IF shifts >= 0 THEN product * 2^shifts ELSE product \div 2^(-shifts)) % 2^Width)
        \div 2^RadixBits

Scaled(product, shifts) ==
    (IF shifts >= 0 THEN product * 2^shifts ELSE product \div 2^(-shifts)) \div 2^RadixBits

(* The result is within [1, pow_limit].                                    *)
(* Mutant: it may reach zero.                                              *)
MutBounded(next) == IF next > PowLimit THEN PowLimit ELSE next

Bounded(next) == IF next > PowLimit THEN PowLimit ELSE IF next = 0 THEN 1 ELSE next

NextTarget(anchorTarget, height, secs) ==
    LET drift    == secs - IdealSecs * height
        exponent == Clamped(Truncated(drift * 2^RadixBits, HalflifeSecs))
        frac     == exponent - Shifts(exponent) * 2^RadixBits
        next     == Bounded(Scaled(anchorTarget * Factor(frac), Shifts(exponent)))
    IN  IF next = 0 THEN [exponent |-> 0, mantissa |-> 0] ELSE Encoded(next)

(* expected_bits, timestamps counted from the anchor's.                    *)
(* Mutant: the schedule is counted from the first block after it.          *)
MutExpectedBits(height, stamp) == NextTarget(anchor, height - 1, stamp \div MsPerSecond)

ExpectedBits(height, stamp) == NextTarget(anchor, height, stamp \div MsPerSecond)

(* work_for_target, in Width bits: !t is 2^Width - 1 - t.                  *)
WorkFor(t) == IF t = 2^Width - 1 THEN 1 ELSE (2^Width - 1 - t) \div (t + 1) + 1

-----------------------------------------------------------------------------
(* check_pow. *)
Meets(hash, bits) == hash <= Decoded(bits)

(* validate_header, in its order: not too far in the future, not before    *)
(* the parent, the bits the rule requires, the work they require.          *)
Valid(header, now) ==
    /\ header.stamp <= now + FutureDriftMs
    /\ header.stamp >= tip.stamp
    /\ header.bits = ExpectedBits(tip.height + 1, header.stamp)
    /\ Decoded(header.bits) # NotYet
    /\ Meets(header.hash, header.bits)

(* genesis_header: any bits, written by from_target or not; the anchor is  *)
(* the target they decode to, and bits that do not decode anchor no chain. *)
GenesisBlock(bits) ==
    /\ anchor = NotYet
    /\ Decoded(bits) # NotYet
    /\ anchor' = Decoded(bits)
    /\ tip' = [height |-> 0, stamp |-> 0, bits |-> bits]

(* Miner::mine finds a header and validate_header takes it; `now` is the   *)
(* validator's clock.                                                      *)
MineAndValidate(stamp, now) ==
    /\ anchor # NotYet
    /\ tip.height < HeightMax
    /\ LET bits == ExpectedBits(tip.height + 1, stamp)
       IN  /\ \E hash \in {0, Decoded(bits)} :
                  Valid([stamp |-> stamp, bits |-> bits, hash |-> hash], now)
           /\ tip' = [height |-> tip.height + 1, stamp |-> stamp, bits |-> bits]
    /\ UNCHANGED anchor

DifficultyInit ==
    /\ anchor = NotYet
    /\ tip = [height |-> 0, stamp |-> 0, bits |-> [exponent |-> 0, mantissa |-> 0]]

DifficultyNext ==
    \/ \E bits \in Encoding : GenesisBlock(bits)
    \/ \E stamp, now \in 0..StampMax : MineAndValidate(stamp, now)

DifficultySpec == DifficultyInit /\ [][DifficultyNext]_difficultyVars

-----------------------------------------------------------------------------
(* "Rounding down so the encoded target is never easier than the one       *)
(* requested" (compact.rs:74), and no more than it has to: whatever the    *)
(* genesis bits decode to, encoded and decoded again, comes back, and for  *)
(* every target at or above it from_target finds nothing below it.  So of  *)
(* all targets that some bits stand for, it finds the largest that is not  *)
(* above the one requested.                                                *)
CompactRoundsDown ==
    anchor # NotYet /\ tip.height = 0 =>
        /\ Decoded(Encoded(anchor)) = anchor
        /\ \A t \in Target :
               LET found == Decoded(Encoded(t))
               IN  found <= t /\ (anchor <= t => anchor <= found)

(* Whatever the timestamps so far, there is a next block: for every        *)
(* timestamp that may follow, the bits required decode to a target that a  *)
(* hash can meet and that is no easier than the limit.                     *)
AlwaysMineable ==
    anchor # NotYet =>
        \A stamp \in tip.stamp..StampMax :
            Decoded(ExpectedBits(tip.height + 1, stamp)) \in 1..PowLimit

(* A later timestamp never makes a block harder, also where the fraction   *)
(* wraps from one half-life to the next and where the clamps begin.        *)
LaterIsNoHarder ==
    anchor # NotYet =>
        \A stamp \in tip.stamp..(StampMax - 1) :
            Decoded(ExpectedBits(tip.height + 1, stamp))
                <= Decoded(ExpectedBits(tip.height + 1, stamp + 1))

(* "Retargeting error cannot accumulate" (asert.rs:5): once the chain is   *)
(* back on schedule, its target is the anchor's, or the limit.             *)
OnScheduleIsAnchor ==
    anchor # NotYet =>
        Decoded(ExpectedBits(tip.height + 1, IdealSecs * (tip.height + 1) * MsPerSecond))
            = Decoded(Encoded(Bounded(anchor)))

(* Work is floor(2^256 / (target + 1)), for the extreme targets too, and   *)
(* so never zero: each block makes the chain heavier.                      *)
WorkIsExact ==
    anchor # NotYet =>
        LET t == Decoded(tip.bits)
        IN  /\ WorkFor(t) * (t + 1) <= 2^Width
            /\ 2^Width < (WorkFor(t) + 1) * (t + 1)

(* A chain never comes to a halt: its last block made it heavier by what   *)
(* its target stands for, and a next one can be mined.                     *)
ChainGrows == WorkIsExact /\ AlwaysMineable
=============================================================================
