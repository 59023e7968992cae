-------------------------- MODULE FeeSplitsProofs --------------------------
(***************************************************************************)
(* The properties of fee_splits that MCFeeSplits samples, for every pot,   *)
(* every rate and every tip.                                               *)
(***************************************************************************)
EXTENDS MCFeeSplits, CommonProofs

InputsOK == total_pot \in Nat /\ bps \in Nat /\ from_fee \in BOOLEAN /\ tip \in Nat

LEMMA InputsHold == Spec => []InputsOK
<1>1. Init => InputsOK
  BY InputAssumption DEF Init, InputsOK
<1>2. InputsOK /\ [Next]_inputs => InputsOK'
  BY DEF InputsOK, Next, inputs
<1> QED
  BY <1>1, <1>2, PTL DEF Spec

(***************************************************************************)
(* The fee of every pot is the exact share rounded down: one unit more     *)
(* would exceed the rate, and at rates up to 100 percent settle_win can    *)
(* take it out of the pot.                                                 *)
(***************************************************************************)
THEOREM FeesAreFloors == Spec => []FeeIsFloor
<1>1. InputsOK => FeeIsFloor
  <2> SUFFICES ASSUME InputsOK, bps <= BPS_DENOMINATOR
               PROVE  /\ Split.fee \in 0..total_pot
                      /\ Split.fee * BPS_DENOMINATOR <= total_pot * bps
                      /\ (Split.fee + 1) * BPS_DENOMINATOR > total_pot * bps
    BY DEF FeeIsFloor
  <2>1. bps \in 0..BPS_DENOMINATOR
    BY DEF InputsOK, BPS_DENOMINATOR
  <2>2. Split.fee = Fee(total_pot, bps)
    BY DEF Split, fee_splits
  <2>3. Fee(total_pot, bps) \in Nat /\ Fee(total_pot, bps) <= total_pot
    BY <2>1, FeeWithinPot DEF InputsOK
  <2>4. /\ Fee(total_pot, bps) * BPS_DENOMINATOR <= total_pot * bps
        /\ (Fee(total_pot, bps) + 1) * BPS_DENOMINATOR > total_pot * bps
    BY FeeIsTheFloor DEF InputsOK
  <2> QED
    BY <2>2, <2>3, <2>4 DEF InputsOK
<1> QED
  BY <1>1, InputsHold, PTL

(***************************************************************************)
(* The keeper is served before the platform and no one else is: the two    *)
(* shares make up the fee, and whenever tips are taken from the fee and    *)
(* the platform gets any of it, the whole tip has been paid.               *)
(***************************************************************************)
THEOREM KeeperComesFirst == Spec => []KeeperServedFirst
<1>1. InputsOK => KeeperServedFirst
  <2> SUFFICES ASSUME InputsOK
               PROVE  KeeperServedFirst
    OBVIOUS
  <2> DEFINE split == fee_splits(total_pot, bps, from_fee, tip)
  <2>1. /\ total_pot \in Nat /\ bps \in Nat
        /\ from_fee \in BOOLEAN /\ tip \in Nat
    BY DEF InputsOK
  <2>2. /\ split.keeper_tip + split.platform_fee = split.fee
        /\ from_fee /\ split.platform_fee > 0 => split.keeper_tip = tip
        /\ ~from_fee => split.keeper_tip = 0
    BY <2>1, SplitIsExact
  <2> HIDE DEF split
  <2>3. Split = split
    BY DEF Split, split
  <2> QED
    BY <2>2, <2>3 DEF KeeperServedFirst
<1> QED
  BY <1>1, InputsHold, PTL
=============================================================================
