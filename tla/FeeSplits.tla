----------------------------- MODULE FeeSplits -----------------------------
(***************************************************************************)
(* The arithmetic of a payout (programs/slotword/src/instructions/         *)
(* helpers.rs): the platform fee of a pot, the keeper's tip out of it and  *)
(* what is left for the platform.  Amounts are u64 token units.            *)
(***************************************************************************)
EXTENDS Integers

CONSTANT U64_MAX        \* the largest u64; runs give it a smaller stand-in

ASSUME U64MaxAssumption == U64_MAX \in Nat

BPS_DENOMINATOR == 10000

\* Whether checked_mul returns Some.
MulFits(a, b) == a * b <= U64_MAX

SaturatingSub(a, b) == IF a >= b THEN a - b ELSE 0

Lesser(a, b) == IF a <= b THEN a ELSE b

\* Broken: the platform is given the fee before the tip is taken out of it.
PlatformShareIgnoringTip(fee, tip) == fee

PlatformShare(fee, tip) == SaturatingSub(fee, tip)

\* Broken: the tip is paid in full even when the fee does not cover it.
KeeperTipUncapped(fee, from_fee, keeper_tip_usdc) ==
  IF from_fee THEN keeper_tip_usdc ELSE 0

KeeperTip(fee, from_fee, keeper_tip_usdc) ==
  IF from_fee THEN Lesser(fee, keeper_tip_usdc) ELSE 0

\* Broken: the division rounds up instead of down.
FeeRoundedUp(pot, bps) == (pot * bps + BPS_DENOMINATOR - 1) \div BPS_DENOMINATOR

Fee(pot, bps) == (pot * bps) \div BPS_DENOMINATOR

(***************************************************************************)
(* fee_splits returns Err(Overflow) unless MulFits(pot, bps).              *)
(***************************************************************************)
fee_splits(pot, bps, from_fee, keeper_tip_usdc) ==
  LET fee == Fee(pot, bps)
      tip == KeeperTip(fee, from_fee, keeper_tip_usdc)
  IN  [fee |-> fee, keeper_tip |-> tip, platform_fee |-> PlatformShare(fee, tip)]
=============================================================================
