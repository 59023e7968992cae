------------------------------- MODULE MCDuel -------------------------------
(***************************************************************************)
(* A small instance of Duel about money.  Alice holds two token accounts,  *)
(* so she can also be the keeper of a room she plays in.  A room can own   *)
(* its associated accounts of two mints; bob has tokens of both, so a room *)
(* may be created in either, and his stake may go to another vault than    *)
(* alice's.                                                                *)
(***************************************************************************)
EXTENDS Duel, TLC

CONSTANTS alice, bob, op, ana, ana2, bo, bo2, plat, ata, ata2,
          usdc, coin, seed1, night, torch, salt1

MCTwoRooms == {<<alice, 1>>, <<bob, 1>>}

MCHolder == (ana :> alice) @@ (ana2 :> alice) @@ (bo :> bob) @@ (bo2 :> bob)
            @@ (plat :> op)

MCMintOf == [a \in TokenAccount \cup Vault |-> IF a \in {bo2, ata2} THEN coin ELSE usdc]

MCRoomAta == (usdc :> ata) @@ (coin :> ata2)

\* Enough for one stake each: a player must get out of a room to enter another.
MCTightBalance == [a \in TokenAccount |-> IF a \in {ana, bo, bo2} THEN 700000 ELSE 0]

MCDayInput == {<<1, seed1, <<seed1, night>>>>}
=============================================================================
