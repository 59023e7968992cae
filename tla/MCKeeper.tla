------------------------------ MODULE MCKeeper ------------------------------
(***************************************************************************)
(* Small instances of the keeper over the program.  Every wallet has one   *)
(* token account, its associated one, and so has every room.               *)
(***************************************************************************)
EXTENDS KeeperClaims, TLC

CONSTANTS alice, bob, carol, op, ana, bo, ca, plat, ata, usdc,
          seed1, night, torch, salt1

MCOneRoom == {<<alice, 1>>}

MCTwoRooms == {<<alice, 1>>, <<alice, 2>>}

MCHolder == (ana :> alice) @@ (bo :> bob) @@ (ca :> carol) @@ (plat :> op)

MCAta == (alice :> ana) @@ (bob :> bo) @@ (carol :> ca) @@ (op :> plat)

MCMintOf == [a \in TokenAccount \cup Vault |-> usdc]

MCRoomAta == [m \in Mint |-> ata]

MCInitialBalance == [a \in TokenAccount |-> IF a \in {ana, bo} THEN 3000000 ELSE 0]

MCDayInput == {<<1, seed1, <<seed1, night>>>>}

\* The rooms of one creator have different words.
MCWordOf ==
  [h \in RoomSolutionHashes |-> IF h[2][2] = 1 THEN night ELSE torch]
=============================================================================
