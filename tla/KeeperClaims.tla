---------------------------- MODULE KeeperClaims ----------------------------
(***************************************************************************)
(* What the script's header says the keeper does where, with the key it    *)
(* uses by default, the program does not let it.                           *)
(***************************************************************************)
EXTENDS Keeper

LandSettlement(r) ==
  \E t \in sent : t.instruction = "settle_duel" /\ t.room = r /\ Land(t)

\* As FairKeeperSpec, and a settlement the program would take lands as well.
FairLandingSpec ==
  FairKeeperSpec /\ \A r \in Room : WF_keeperVars(LandSettlement(r))

(***************************************************************************)
(* scripts/keeper.ts:9, its second responsibility: "Call `settle_duel`     *)
(* for rooms past their deadline".  Such rooms are closed.                 *)
(***************************************************************************)
KeeperClosesRooms ==
  \A r \in Room :
    (Active(r) /\ Joined(r) /\ now >= room[r].deadline) ~> ~Active(r)
=============================================================================
