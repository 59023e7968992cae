----------------------------- MODULE DuelLedger -----------------------------
(***************************************************************************)
(* Duel with a record of what no account keeps: who had revealed, and      *)
(* when, at the moment a room was settled, what the settlement paid to     *)
(* whom, and who committed with the rival's word already in the open.      *)
(* Without it a reveal that arrives after the settlement makes the         *)
(* accounts look as if the wrong player had won.                           *)
(***************************************************************************)
EXTENDS Duel

VARIABLES
  verdict,      \* per room: the facts at its settlement
  copiers       \* the <<room, player>> that committed after the rival's reveal

ledgerVars == <<vars, verdict, copiers>>

NoVerdict == [settled |-> FALSE]

Settling(r) == /\ Active(r) /\ Joined(r)
               /\ room'[r].status # "Active"

Committing(r, p) == entry'[r][p].commit_timestamp # entry[r][p].commit_timestamp
                    \/ entry'[r][p].commit_hash # entry[r][p].commit_hash

LedgerInit ==
  /\ Init
  /\ verdict = [r \in Room |-> NoVerdict]
  /\ copiers = {}

LedgerNext ==
  /\ Next
  /\ verdict' = [r \in Room |->
       IF Settling(r)
       THEN [settled |-> TRUE, time |-> now, revealers |-> Revealers(r),
             paid |-> [a \in TokenAccount |-> balance'[a] - balance[a]]]
       ELSE verdict[r]]
  /\ copiers' = copiers \cup
       {c \in Room \X Player :
          Committing(c[1], c[2]) /\ Revealers(c[1]) \ {c[2]} # {}}

LedgerSpec == LedgerInit /\ [][LedgerNext]_ledgerVars

-----------------------------------------------------------------------------
Settled(r) == verdict[r].settled

Seated(r) == {room[r].creator, room[r].opponent}

CommitTime(r, p) == entry[r][p].commit_timestamp

\* The revealers nobody beat to the commitment.
Fastest(r) ==
  {p \in verdict[r].revealers :
     \A q \in verdict[r].revealers : CommitTime(r, p) <= CommitTime(r, q)}

PaidTo(r, w) == SumFunctionOnSet(verdict[r].paid, AccountsOf(w))

(***************************************************************************)
(* The resolution matrix, read off the facts at settlement and not off the *)
(* accounts afterwards: both revealed, or the deadline had passed; the one *)
(* fastest revealer wins; two equally fast tie; with no revealer the       *)
(* stakes go back.  A reveal that comes later changes nothing.             *)
(***************************************************************************)
ResolutionMatrix ==
  \A r \in Room : Settled(r) =>
    /\ verdict[r].revealers = Seated(r) \/ verdict[r].time >= room[r].deadline
    /\ room[r].status = "Refunded" <=> verdict[r].revealers = {}
    /\ room[r].winner # DefaultPubkey <=> Cardinality(Fastest(r)) = 1
    /\ room[r].winner # DefaultPubkey => room[r].winner \in Fastest(r)

(***************************************************************************)
(* What settlement pays: a winner gets the pot less at most the configured *)
(* share and never less, a loser no more than the tip of having been the   *)
(* keeper as well (or, as the authority, the fee); without a winner both   *)
(* stakes come back whole.  The whole pot is paid, and nobody but the      *)
(* seated players, one keeper and the authority gets any of it.            *)
(***************************************************************************)
MoneyFollowsVerdict ==
  \A r \in Room : Settled(r) =>
    LET pot    == 2 * room[r].stake_amount
        winner == room[r].winner
        bps    == config.platform_fee_bps
        tip    == config.keeper_tip_usdc
        gainers == {w \in Wallet : PaidTo(r, w) > 0}
    IN
    /\ SumFunction(verdict[r].paid) = pot
    /\ Cardinality(gainers \ (Seated(r) \cup {config.authority})) <= 1
    /\ winner = DefaultPubkey =>
         \A p \in Seated(r) : PaidTo(r, p) = room[r].stake_amount
    /\ winner # DefaultPubkey =>
         /\ (pot - PaidTo(r, winner)) * BPS_DENOMINATOR <= pot * bps
         /\ \A p \in Seated(r) \ {winner, config.authority} : PaidTo(r, p) <= tip

(***************************************************************************)
(* Committing after the rival has revealed the word never wins the pot: a  *)
(* copier's commitment is never the strictly earlier one, and the rival    *)
(* has revealed for good.                                                  *)
(***************************************************************************)
CopierNeverWins ==
  \A r \in Room, p \in Player : <<r, p>> \in copiers => room[r].winner # p
=============================================================================
