---------------------------- MODULE MCDuelLedger ----------------------------
(***************************************************************************)
(* A small instance of DuelLedger and of the claims about it: one room of  *)
(* alice's, bob to join it and carol to keep it.  Alice holds two token    *)
(* accounts, so she may be the keeper of her own room; the authority holds *)
(* one, so it may not.                                                     *)
(***************************************************************************)
EXTENDS DuelClaims, TLC

CONSTANTS alice, bob, carol, op, ana, ana2, bo, ca, plat,
          ata, spare, usdc, seed1, night, torch, salt1

MCRoom == {<<alice, 1>>}

MCHolder == (ana :> alice) @@ (ana2 :> alice) @@ (bo :> bob)
            @@ (ca :> carol) @@ (plat :> op)

MCMintOf == [a \in TokenAccount \cup Vault |-> usdc]

MCRoomAta == [m \in Mint |-> ata]

MCInitialBalance == [a \in TokenAccount |-> IF a \in {ana, bo} THEN 3000000 ELSE 0]

MCDayInput == {<<1, seed1, <<seed1, night>>>>}
=============================================================================
