---------------------------- MODULE MCFeeSplits ----------------------------
(***************************************************************************)
(* fee_splits over every pot up to a bound, for several rates and tips,    *)
(* against what a fee is meant to be.                                      *)
(***************************************************************************)
EXTENDS FeeSplits

CONSTANTS MaxPot, BpsInput, TipInput

ASSUME InputAssumption == BpsInput \subseteq Nat /\ TipInput \subseteq Nat

VARIABLES total_pot, bps, from_fee, tip

inputs == <<total_pot, bps, from_fee, tip>>

Init ==
  /\ total_pot = 0
  /\ bps \in BpsInput
  /\ from_fee \in BOOLEAN
  /\ tip \in TipInput

Next ==
  /\ total_pot < MaxPot
  /\ total_pot' = total_pot + 1
  /\ UNCHANGED <<bps, from_fee, tip>>

Spec == Init /\ [][Next]_inputs

Split == fee_splits(total_pot, bps, from_fee, tip)

(***************************************************************************)
(* The fee is the exact share rounded down: charging one unit more would   *)
(* exceed the rate, and settle_win can always take it out of the pot.      *)
(***************************************************************************)
FeeIsFloor ==
  (MulFits(total_pot, bps) /\ bps <= BPS_DENOMINATOR) =>
    /\ Split.fee \in 0..total_pot
    /\ Split.fee * BPS_DENOMINATOR <= total_pot * bps
    /\ (Split.fee + 1) * BPS_DENOMINATOR > total_pot * bps

(***************************************************************************)
(* The keeper is served before the platform and no one else is: the two    *)
(* shares make up the fee, and the platform gets something only when the   *)
(* keeper's whole tip has been paid or no tip is due.                      *)
(***************************************************************************)
KeeperServedFirst ==
  /\ Split.keeper_tip + Split.platform_fee = Split.fee
  /\ (from_fee /\ Split.platform_fee > 0) => Split.keeper_tip = tip
  /\ ~from_fee => Split.keeper_tip = 0
=============================================================================
