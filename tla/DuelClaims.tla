----------------------------- MODULE DuelClaims -----------------------------
(***************************************************************************)
(* What the product document says of a duel where the program does         *)
(* otherwise.  Each claim is checked on its own and refuted.               *)
(***************************************************************************)
EXTENDS DuelLedger

(***************************************************************************)
(* Slotword_PRD.md:231, of join_duel: "Now both entries' 45-second clocks  *)
(* start running", so nobody commits sooner than that after the join.      *)
(***************************************************************************)
ClocksStartAtJoin ==
  \A r \in Room, p \in Player :
    entry[r][p].commit_hash # ZERO =>
      entry[r][p].commit_timestamp
        >= OpponentEntry(r).join_unix_timestamp + MIN_SOLVE_SECONDS

(***************************************************************************)
(* Slotword_PRD.md:236, of the test of commit_hash: "prevents double       *)
(* commits".  Who has committed has a commit_timestamp (line 240).         *)
(***************************************************************************)
CommitsOnceStep ==
  \A r \in Room, p \in Player :
    entry[r][p].commit_timestamp > 0 =>
      entry'[r][p].commit_timestamp = entry[r][p].commit_timestamp

CommitsOnce == [][CommitsOnceStep]_ledgerVars

(***************************************************************************)
(* Slotword_PRD.md:143: "a losing player cannot copy the winner's Reveal   *)
(* transaction to tie the game".                                           *)
(***************************************************************************)
CopierNeverTies ==
  \A r \in Room, p \in Player :
    (<<r, p>> \in copiers /\ room[r].status = "Settled") =>
      room[r].winner # DefaultPubkey

(***************************************************************************)
(* Slotword_PRD.md:230, of join_duel: "Caller transfers `stake_amount`     *)
(* USDC into the room escrow", the token account the creator's stake is in *)
(* (line 226).  settle_duel takes one account, so one has to hold the pot  *)
(* of a room that is to be settled.                                        *)
(***************************************************************************)
PotInOneVault ==
  \A r \in Room : (Active(r) /\ Joined(r)) => \E v \in Vault : PoolsPot(r, v)
=============================================================================
