----------------------------- MODULE MoneyProofs -----------------------------
(***************************************************************************)
(* Where the money of the duels goes, for every value of the constants:    *)
(* Duel implements Escrow, a wallet loses no more than it staked, an       *)
(* unmatched stake can be taken back, and what a settlement pays follows   *)
(* its verdict.                                                            *)
(***************************************************************************)
EXTENDS VerdictProofs

-----------------------------------------------------------------------------
(* Duel implements Escrow.                                                 *)

LEMMA PhaseCases ==
  ASSUME NEW r
  PROVE  /\ ~Exists(r) => Phase(r) = "none"
         /\ Exists(r) /\ ~Active(r) => Phase(r) = "closed"
         /\ Active(r) /\ ~Joined(r) => Phase(r) = "open"
         /\ Active(r) /\ Joined(r) => Phase(r) = "matched"
BY DEF Phase, Active

\* Two rooms whose accounts agree on the fields Phase reads are in one phase.
LEMMA PhaseReads ==
  ASSUME NEW q, room'[q].creator = room[q].creator,
         room'[q].opponent = room[q].opponent,
         room'[q].status = room[q].status
  PROVE  Phase(q)' = Phase(q)
BY DEF Phase, Exists, Active, Joined

\* The vaults of every room hold what it owes, before a step and after it.
LEMMA Backed == IInv => EscrowBacksRoom
BY PlacedIsHeld DEF IInv

LEMMA BackedLater == IInv' => EscrowBacksRoom'
BY Backed, PTL

LEMMA EscrowInitMaps == Init => Money!EscrowInit
<1> SUFFICES ASSUME Init PROVE Money!EscrowInit
  OBVIOUS
<1>1. \A r \in Room : Phase(r) = "none"
  BY PhaseCases DEF Init, Exists, ZeroRoom
<1>2. EscrowBacksRoom
  BY IInvInit, Backed
<1>3. \A r \in Room : Holding(r) = 0
  BY <1>2 DEF EscrowBacksRoom, Held, Active, Exists, Init, ZeroRoom
<1> QED
  BY <1>1, <1>3 DEF Init, Money!EscrowInit

LEMMA EscrowStepMaps ==
  IInv /\ IInv' /\ [Next]_vars => [Money!EscrowNext]_(Money!escrowVars)
<1> SUFFICES ASSUME IInv, IInv', [Next]_vars
             PROVE  Money!EscrowNext \/ UNCHANGED Money!escrowVars
  OBVIOUS
<1> DEFINE phase == [r \in Room |-> Phase(r)]
<1> DEFINE pot == [r \in Room |-> Holding(r)]
<1> DEFINE Goal == Money!EscrowNext \/ UNCHANGED Money!escrowVars
<1> TypeOK /\ TypeOK' /\ StakesPlaced /\ BlankRooms
  BY DEF IInv
<1>e. \A q \in Room : Holding(q) = Held(q)
  BY Backed DEF EscrowBacksRoom
<1>n. \A q \in Room : Holding(q)' = Held(q)'
  BY BackedLater DEF EscrowBacksRoom
<1>f. ASSUME room' = room PROVE phase' = phase /\ pot' = pot
  <2>1. \A q \in Room : Phase(q)' = Phase(q)
    BY <1>f, PhaseReads
  <2>2. \A q \in Room : Held(q)' = Held(q)
    BY <1>f DEF Held, Active, Exists, Joined, Pot
  <2>3. \A q \in Room : Holding(q)' = Holding(q)
    BY <1>e, <1>n, <2>2
  <2> QED
    BY <2>1, <2>3
<1>g. ASSUME room' = room, balance' = balance PROVE Goal
  BY <1>f, <1>g DEF Money!escrowVars
<1>h. ASSUME NEW r \in Room, NEW ph, Phase(r)' = ph,
             \A q \in Room \ {r} : room'[q] = room[q]
      PROVE  phase' = [phase EXCEPT ![r] = ph]
  <2>1. \A q \in Room \ {r} : Phase(q)' = Phase(q)
    BY <1>h, PhaseReads
  <2> QED
    BY <1>h, <2>1
<1>s. ASSUME NEW r \in Room, NEW amount, Held(r)' = amount,
             \A q \in Room \ {r} : room'[q] = room[q]
      PROVE  pot' = [pot EXCEPT ![r] = amount]
  <2>1. \A q \in Room \ {r} : Held(q)' = Held(q)
    BY <1>s DEF Held, Active, Exists, Joined, Pot
  <2>2. \A q \in Room \ {r} : Holding(q)' = Holding(q)
    BY <1>e, <1>n, <2>1
  <2>3. Holding(r)' = amount
    BY <1>n, <1>s
  <2> QED
    BY <2>2, <2>3
<1>1. CASE PlatformNext /\ UNCHANGED <<now, duelVars>>
  BY <1>1, <1>g DEF duelVars
<1>2. ASSUME NEW r \in Room, NEW d \in DayIndex, NEW stake \in StakeInput,
             NEW offset \in OffsetInput, NEW a \in TokenAccount,
             create_duel(r, d, stake, offset, a)
      PROVE  Goal
  <2>1. Phase(r) = "none" /\ pot[r] = 0
    BY <1>2, <1>e, PhaseCases DEF create_duel, Held, Active
  <2>2. Exists(r)' /\ Active(r)' /\ ~Joined(r)'
    BY <1>2, CreateEffect, PlayersAreSomebody DEF Exists, Active, Joined
  <2>3. phase' = [phase EXCEPT ![r] = "open"]
    <3>1. Phase(r)' = "open"
      BY <2>2 DEF Phase
    <3> QED
      BY <1>2, <1>h, <3>1, CreateEffect
  <2>4. pot' = [pot EXCEPT ![r] = pot[r] + stake]
    <3>1. stake \in Nat /\ Held(r)' = stake
      BY <1>2, <2>2, CreateEffect, DuelAssumption DEF Held
    <3>2. pot[r] + stake = stake
      BY <2>1, <3>1
    <3> QED
      BY <1>2, <1>s, <3>1, <3>2, CreateEffect
  <2>5. /\ balance[a] >= stake
        /\ balance' = [balance EXCEPT ![a] = balance[a] - stake]
    BY <1>2 DEF create_duel, Affords
  <2>6. Money!OpenPot(r)
    BY <2>1, <2>3, <2>4, <2>5 DEF Money!OpenPot, Money!Stake
  <2> QED
    BY <2>6 DEF Money!EscrowNext
<1>3. ASSUME NEW r \in Room, NEW p \in Player, NEW a \in TokenAccount,
             NEW v \in Vault, join_duel(r, p, a, v)
      PROVE  Goal
  <2>1. Phase(r) = "open" /\ pot[r] = room[r].stake_amount
    BY <1>3, <1>e, PhaseCases DEF join_duel, SeatFree, Held
  <2>2. Exists(r)' /\ Active(r)' /\ Joined(r)'
    BY <1>3, JoinEffect, PlayersAreSomebody DEF Exists, Active, Joined, join_duel
  <2>3. phase' = [phase EXCEPT ![r] = "matched"]
    <3>1. Phase(r)' = "matched"
      BY <2>2 DEF Phase
    <3> QED
      BY <1>3, <1>h, <3>1, JoinEffect
  <2>4. pot' = [pot EXCEPT ![r] = pot[r] + pot[r]]
    <3>1. Held(r)' = 2 * room[r].stake_amount
      BY <1>3, <2>2, JoinEffect DEF Held, Pot
    <3>2. room[r].stake_amount \in Nat
      BY DEF TypeOK, RoomRecord
    <3>3. Held(r)' = pot[r] + pot[r]
      BY <2>1, <3>1, <3>2
    <3> QED
      BY <1>3, <1>s, <3>3, JoinEffect
  <2>5. /\ balance[a] >= pot[r]
        /\ balance' = [balance EXCEPT ![a] = balance[a] - pot[r]]
    BY <1>3, <2>1 DEF join_duel, Affords
  <2>6. Money!MatchPot(r)
    BY <2>1, <2>3, <2>4, <2>5 DEF Money!MatchPot, Money!Stake
  <2> QED
    BY <2>6 DEF Money!EscrowNext
<1>4. ASSUME NEW r \in Room, NEW w \in Wallet,
             NEW h \in DuelSolutionHashes \cup {ZERO}, set_duel_word(r, w, h)
      PROVE  Goal
  <2>1. \A q \in Room : Phase(q)' = Phase(q)
    BY <1>4, SetWordEffect, PhaseReads
  <2>2. \A q \in Room : Held(q)' = Held(q)
    BY <1>4, SetWordEffect DEF Held, Active, Exists, Joined, Pot
  <2>3. \A q \in Room : Holding(q)' = Holding(q)
    BY <1>e, <1>n, <2>2
  <2>4. phase' = phase /\ pot' = pot /\ balance' = balance
    BY <1>4, <2>1, <2>3 DEF set_duel_word, tokenVars
  <2> QED
    BY <2>4 DEF Money!escrowVars
<1>5. ASSUME NEW r \in Room, NEW p \in Player,
             NEW h \in CommitHashes \cup {ZERO}, commit_duel_solution(r, p, h)
      PROVE  Goal
  BY <1>5, <1>g DEF commit_duel_solution, tokenVars
<1>6. ASSUME NEW r \in Room, NEW p \in Player, NEW word \in Word,
             NEW salt \in Salt, reveal_duel_solution(r, p, word, salt)
      PROVE  Goal
  BY <1>6, <1>g DEF reveal_duel_solution, tokenVars
<1>7. ASSUME NEW r \in Room, NEW keeper \in Wallet,
             NEW c \in TokenAccount, NEW o \in TokenAccount,
             NEW k \in TokenAccount, NEW p \in TokenAccount,
             NEW v \in Vault, settle_duel(r, keeper, c, o, k, p, v)
      PROVE  Goal
  <2>1. Phase(r) = "matched" /\ pot[r] = Pot(r)
    BY <1>7, <1>e, PhaseCases DEF settle_duel, Held
  <2>2. Exists(r)' /\ ~Active(r)'
    BY <1>7, SettleEffect DEF Exists, Active, settle_duel
  <2>3. phase' = [phase EXCEPT ![r] = "closed"]
    <3>1. Phase(r)' = "closed"
      BY <2>2 DEF Phase
    <3> QED
      BY <1>7, <1>h, <3>1, SettleEffect
  <2>4. PICK share \in Amounts : /\ Total(share) = Pot(r)
                                 /\ Pay(r, c, o, k, p, v, share)
    BY <1>7, SettleEffect
  <2>5. pot' = [pot EXCEPT ![r] = 0]
    <3>1. Held(r)' = 0
      BY <2>2 DEF Held
    <3> QED
      BY <1>7, <1>s, <3>1, SettleEffect
  <2>6. c \notin {o, k, p} /\ o \notin {k, p} /\ k # p
    BY <1>7 DEF settle_duel, PayoutAccountsDistinct
  <2>7. /\ share.creator \in Nat /\ share.opponent \in Nat
        /\ share.keeper \in Nat /\ share.platform \in Nat
        /\ share.creator + share.opponent + share.keeper + share.platform = Pot(r)
    BY <2>4 DEF Amounts, Total
  <2>8. /\ \A a \in TokenAccount : balance[a] \in Nat
        /\ balance' = [a \in TokenAccount |->
                         balance[a] + Received(a, c, o, k, p, share)]
    BY <2>4 DEF Pay, TypeOK
  <2>9. /\ balance'[c] - balance[c] = share.creator
        /\ balance'[o] - balance[o] = share.opponent
        /\ balance'[k] - balance[k] = share.keeper
        /\ balance'[p] - balance[p] = share.platform
        /\ \A a \in TokenAccount \ {c, o, k, p} : balance'[a] - balance[a] = 0
    BY <2>6, <2>7, <2>8 DEF Received
  <2>10. Money!SharePot(r)
    BY <2>1, <2>3, <2>5, <2>6, <2>7, <2>9
    DEF Money!SharePot, Money!Empty, Money!Gain
  <2> QED
    BY <2>10 DEF Money!EscrowNext
<1>8. ASSUME NEW r \in Room, NEW p \in Player, NEW a \in TokenAccount,
             NEW v \in Vault, cancel_duel(r, p, a, v)
      PROVE  Goal
  <2>1. Phase(r) = "open" /\ pot[r] = room[r].stake_amount
    BY <1>8, <1>e, PhaseCases DEF cancel_duel, CanCancel, Cancellable, Held
  <2>2. Exists(r)' /\ ~Active(r)'
    BY <1>8, CancelEffect DEF Exists, Active, cancel_duel, CanCancel, Cancellable
  <2>3. phase' = [phase EXCEPT ![r] = "closed"]
    <3>1. Phase(r)' = "closed"
      BY <2>2 DEF Phase
    <3> QED
      BY <1>8, <1>h, <3>1, CancelEffect
  <2>4. pot' = [pot EXCEPT ![r] = 0]
    <3>1. Held(r)' = 0
      BY <2>2 DEF Held
    <3> QED
      BY <1>8, <1>s, <3>1, CancelEffect
  <2>5. balance' = [balance EXCEPT ![a] = balance[a] + pot[r]]
    BY <1>8, <2>1 DEF cancel_duel
  <2>6. Money!CancelPot(r)
    BY <2>1, <2>3, <2>4, <2>5 DEF Money!CancelPot, Money!Empty
  <2> QED
    BY <2>6 DEF Money!EscrowNext
<1>9. CASE Tick
  BY <1>9, <1>g DEF Tick, duelVars
<1>10. CASE OpenAnyVault
  BY <1>10, <1>g, OpenEffect
<1>11. CASE UNCHANGED vars
  BY <1>11, <1>g DEF vars
<1> QED
  BY <1>1, <1>2, <1>3, <1>4, <1>5, <1>6, <1>7, <1>8, <1>9, <1>10, <1>11, AccountsTyped
  DEF Next, CreateDuel, JoinDuel, SetDuelWord, CommitDuelSolution,
      RevealDuelSolution, SettleDuel, CancelDuel

(***************************************************************************)
(* Whatever the players, the authority, the keepers and the clock do, the  *)
(* tokens move only as the abstract escrow allows: one stake opens a pot,  *)
(* an equal one matches it, and it is emptied once.                        *)
(***************************************************************************)
THEOREM DuelImplementsEscrow == Spec => ImplementsEscrow
<1>1. IInv /\ IInv' /\ [Next]_vars => [Money!EscrowNext]_(Money!escrowVars)
  BY EscrowStepMaps
<1> QED
  BY <1>1, EscrowInitMaps, IInvHolds, PTL DEF Spec, ImplementsEscrow, Money!EscrowSpec

-----------------------------------------------------------------------------
(* What a settlement pays.                                                 *)

(***************************************************************************)
(* The share of the verdict that holds: without a winner both stakes go    *)
(* back whole; a winner gets the pot less a fee within the rate, the loser *)
(* nothing, and the keeper at most the tip.                                *)
(***************************************************************************)
LEMMA SettlePays ==
  ASSUME TypeOK, StakesPlaced, NEW r \in Room, NEW keeper \in Wallet,
         NEW c \in TokenAccount, NEW o \in TokenAccount,
         NEW k \in TokenAccount, NEW p \in TokenAccount,
         NEW v \in Vault, settle_duel(r, keeper, c, o, k, p, v)
  PROVE  \E share \in Amounts :
           /\ Total(share) = Pot(r)
           /\ Pay(r, c, o, k, p, v, share)
           /\ share.keeper <= config.keeper_tip_usdc
           /\ \/ /\ room'[r].winner = DefaultPubkey
                 /\ share.creator = room[r].stake_amount
                 /\ share.opponent = room[r].stake_amount
                 /\ share.keeper = 0 /\ share.platform = 0
              \/ /\ room'[r].winner = room[r].creator
                 /\ share.opponent = 0
                 /\ (Pot(r) - share.creator) * BPS_DENOMINATOR
                      <= Pot(r) * config.platform_fee_bps
              \/ /\ room'[r].winner = room[r].opponent
                 /\ share.creator = 0
                 /\ (Pot(r) - share.opponent) * BPS_DENOMINATOR
                      <= Pot(r) * config.platform_fee_bps
<1> DEFINE stake == room[r].stake_amount
           tip == config.keeper_tip_usdc
           bps == config.platform_fee_bps
<1>1. /\ stake \in Nat /\ Pot(r) = 2 * stake /\ Pot(r) \in Nat
      /\ bps \in 0..BPS_DENOMINATOR /\ bps \in Nat /\ tip \in Nat
      /\ config.keeper_tip_from_fee \in BOOLEAN
  <2>1. stake \in Nat
    BY DEF TypeOK, RoomRecord
  <2>2. Pot(r) = 2 * stake
    BY DEF Pot
  <2>3. /\ bps \in 0..BPS_DENOMINATOR /\ tip \in Nat
        /\ config.keeper_tip_from_fee \in BOOLEAN
    BY ConfigTyped DEF TypeOK
  <2> HIDE DEF stake, bps, tip
  <2>4. bps \in Nat
    BY <2>3 DEF BPS_DENOMINATOR
  <2> QED
    BY <2>1, <2>2, <2>3, <2>4
<1>2. ASSUME NEW s, NEW w, Close(r, s, w)
      PROVE  room'[r].winner = w
  BY <1>2 DEF Close, TypeOK, RoomRecord
<1>3. CASE settle_tie(r, c, o, k, p, v)
  <2>1. Pay(r, c, o, k, p, v, TieShare(r)) /\ room'[r].winner = DefaultPubkey
    BY <1>2, <1>3 DEF settle_tie
  <2>2. (2 * stake) \div 2 = stake /\ 2 * stake - stake = stake
    BY <1>1
  <2>3. TieShare(r) = [creator |-> stake, opponent |-> stake,
                       keeper |-> 0, platform |-> 0]
    BY <1>1, <2>2 DEF TieShare
  <2>4. TieShare(r) \in Amounts /\ Total(TieShare(r)) = Pot(r)
    BY <1>1, <2>3 DEF Amounts, Total
  <2> QED
    BY <1>1, <2>1, <2>3, <2>4
<1>4. CASE settle_refund(r, c, o, k, p, v)
  <2>1. Pay(r, c, o, k, p, v, RefundShare(r)) /\ room'[r].winner = DefaultPubkey
    BY <1>2, <1>4 DEF settle_refund
  <2>2. RefundShare(r) \in Amounts /\ Total(RefundShare(r)) = Pot(r)
    BY <1>1 DEF Amounts, Total, RefundShare
  <2> QED
    BY <1>1, <2>1, <2>2 DEF RefundShare
<1>5. ASSUME NEW w \in {room[r].creator, room[r].opponent},
             settle_win(r, c, o, k, p, v, w)
      PROVE  /\ Pay(r, c, o, k, p, v, WinShare(r, w))
             /\ WinShare(r, w) \in Amounts
             /\ Total(WinShare(r, w)) = Pot(r)
             /\ WinShare(r, w).keeper <= tip
             /\ room'[r].winner = w
             /\ (Pot(r) - (Pot(r) - SplitOfPot(r).fee)) * BPS_DENOMINATOR <= Pot(r) * bps
  <2>1. Pay(r, c, o, k, p, v, WinShare(r, w)) /\ room'[r].winner = w
    BY <1>2, <1>5 DEF settle_win
  <2>2. WinShare(r, w) \in Amounts /\ Total(WinShare(r, w)) = Pot(r)
    BY SharesAreThePot
  <2> DEFINE split == fee_splits(Pot(r), bps, config.keeper_tip_from_fee, tip)
  <2>3. /\ split.fee = Fee(Pot(r), bps) /\ split.keeper_tip <= tip
        /\ Fee(Pot(r), bps) \in Nat
        /\ Fee(Pot(r), bps) * BPS_DENOMINATOR <= Pot(r) * bps
    <3> DEFINE pot == Pot(r)
               from_fee == config.keeper_tip_from_fee
    <3>0. pot \in Nat /\ bps \in Nat /\ tip \in Nat /\ from_fee \in BOOLEAN
      BY <1>1
    <3> HIDE DEF pot, from_fee, bps, tip
    <3>1. split.fee = Fee(pot, bps) /\ split.keeper_tip <= tip
      BY <3>0, SplitIsExact DEF pot, from_fee
    <3>2. Fee(pot, bps) \in Nat /\ Fee(pot, bps) * BPS_DENOMINATOR <= pot * bps
      BY <3>0, FeeIsTheFloor
    <3> HIDE DEF split
    <3> QED
      BY <3>1, <3>2 DEF pot
  <2> HIDE DEF split
  <2>4. SplitOfPot(r) = split
    BY DEF SplitOfPot, split
  <2>5. WinShare(r, w).keeper <= tip
    BY <2>3, <2>4 DEF WinShare
  <2>6. Pot(r) - (Pot(r) - split.fee) = split.fee
    BY <1>1, <2>3
  <2> QED
    BY <2>1, <2>2, <2>3, <2>4, <2>5, <2>6
<1>6. CASE CreatorWins(r) /\ settle_win(r, c, o, k, p, v, room[r].creator)
  <2> DEFINE share == WinShare(r, room[r].creator)
  <2>1. share.creator = Pot(r) - SplitOfPot(r).fee /\ share.opponent = 0
    BY DEF WinShare
  <2>2. /\ Pay(r, c, o, k, p, v, share)
        /\ share \in Amounts /\ Total(share) = Pot(r) /\ share.keeper <= tip
        /\ room'[r].winner = room[r].creator
        /\ (Pot(r) - (Pot(r) - SplitOfPot(r).fee)) * BPS_DENOMINATOR <= Pot(r) * bps
    BY <1>5, <1>6
  <2> HIDE DEF share
  <2> QED
    BY <2>1, <2>2
<1>7. CASE OpponentWins(r) /\ settle_win(r, c, o, k, p, v, room[r].opponent)
  <2> DEFINE share == WinShare(r, room[r].opponent)
  <2>0. room[r].opponent # room[r].creator
    BY DEF settle_duel
  <2>1. share.opponent = Pot(r) - SplitOfPot(r).fee /\ share.creator = 0
    BY <2>0 DEF WinShare
  <2>2. /\ Pay(r, c, o, k, p, v, share)
        /\ share \in Amounts /\ Total(share) = Pot(r) /\ share.keeper <= tip
        /\ room'[r].winner = room[r].opponent
        /\ (Pot(r) - (Pot(r) - SplitOfPot(r).fee)) * BPS_DENOMINATOR <= Pot(r) * bps
    BY <1>5, <1>7
  <2> HIDE DEF share
  <2> QED
    BY <2>1, <2>2
<1> QED
  BY <1>3, <1>4, <1>6, <1>7 DEF settle_duel

LEMMA AccountsFinite ==
  ASSUME NEW w
  PROVE  /\ IsFiniteSet(AccountsOf(w))
         /\ \A a \in AccountsOf(w) : a \in TokenAccount /\ Holder[a] = w
         /\ \A a \in TokenAccount : a \in AccountsOf(w) <=> Holder[a] = w
<1>1. AccountsOf(w) \in SUBSET TokenAccount
  BY DEF AccountsOf
<1>2. IsFiniteSet(AccountsOf(w))
  BY <1>1, FiniteAssumption, FS_Subset
<1> QED
  BY <1>2 DEF AccountsOf

\* What a share brings the owner of the four payout accounts.
ShareOf(w, c, o, k, p, share) ==
  (IF Holder[c] = w THEN share.creator ELSE 0)
    + (IF Holder[o] = w THEN share.opponent ELSE 0)
    + (IF Holder[k] = w THEN share.keeper ELSE 0)
    + (IF Holder[p] = w THEN share.platform ELSE 0)

\* A payment brings every wallet its part of the share.
LEMMA PayingGains ==
  ASSUME TypeOK, NEW r \in Room, NEW c \in TokenAccount, NEW o \in TokenAccount,
         NEW k \in TokenAccount, NEW p \in TokenAccount, NEW v \in Vault,
         PayoutAccountsDistinct(c, o, k, p),
         NEW share \in Amounts, Pay(r, c, o, k, p, v, share), NEW w,
         NEW gain, \A a \in TokenAccount : gain[a] = balance'[a] - balance[a]
  PROVE  /\ \A a \in TokenAccount : gain[a] \in Nat
         /\ SumFunctionOnSet(gain, TokenAccount) = Total(share)
         /\ SumFunctionOnSet(gain, AccountsOf(w)) = ShareOf(w, c, o, k, p, share)
<1>1. /\ share.creator \in Nat /\ share.opponent \in Nat
      /\ share.keeper \in Nat /\ share.platform \in Nat
  BY DEF Amounts
<1>2. c \notin {o, k, p} /\ o \notin {k, p} /\ k # p
  BY DEF PayoutAccountsDistinct
<1>3. /\ gain[c] = share.creator /\ gain[o] = share.opponent
      /\ gain[k] = share.keeper /\ gain[p] = share.platform
      /\ \A a \in TokenAccount \ {c, o, k, p} : gain[a] = 0
  BY <1>1, <1>2 DEF Pay, Received, TypeOK
<1>4. \A a \in TokenAccount : gain[a] \in Nat
  BY <1>1, <1>3
<1> DEFINE S == AccountsOf(w)
<1>5. /\ IsFiniteSet(S)
      /\ \A a \in S : gain[a] \in Int
      /\ \A a \in S \ {c, o, k, p} : gain[a] = 0
      /\ c \in S <=> Holder[c] = w
      /\ o \in S <=> Holder[o] = w
      /\ k \in S <=> Holder[k] = w
      /\ p \in S <=> Holder[p] = w
  BY <1>3, <1>4, AccountsFinite
<1> HIDE DEF S
<1>6. SumFunctionOnSet(gain, S)
        = (IF c \in S THEN gain[c] ELSE 0) + (IF o \in S THEN gain[o] ELSE 0)
            + (IF k \in S THEN gain[k] ELSE 0) + (IF p \in S THEN gain[p] ELSE 0)
  BY <1>2, <1>5, SumOfFour
<1>7. SumFunctionOnSet(gain, S) = ShareOf(w, c, o, k, p, share)
  BY <1>3, <1>5, <1>6 DEF ShareOf
<1>8. SumFunctionOnSet(gain, TokenAccount) = Total(share)
  <2>1. /\ IsFiniteSet(TokenAccount)
        /\ \A a \in TokenAccount : gain[a] \in Int
        /\ \A a \in TokenAccount \ {c, o, k, p} : gain[a] = 0
    BY <1>3, <1>4, FiniteAssumption
  <2>2. SumFunctionOnSet(gain, TokenAccount)
          = (IF c \in TokenAccount THEN gain[c] ELSE 0)
              + (IF o \in TokenAccount THEN gain[o] ELSE 0)
              + (IF k \in TokenAccount THEN gain[k] ELSE 0)
              + (IF p \in TokenAccount THEN gain[p] ELSE 0)
    BY <1>2, <2>1, SumOfFour
  <2> QED
    BY <1>3, <2>2 DEF Total
<1> QED
  BY <1>4, <1>7, <1>8 DEF S

\* A wallet's holdings move by what its accounts gain or lose.
LEMMA HoldingsMove ==
  ASSUME TypeOK, TypeOK', NEW w,
         NEW gain, \A a \in TokenAccount : gain[a] = balance'[a] - balance[a]
  PROVE  /\ HoldingsOf(w) \in Int
         /\ SumFunctionOnSet(gain, AccountsOf(w)) \in Int
         /\ HoldingsOf(w)' = HoldingsOf(w) + SumFunctionOnSet(gain, AccountsOf(w))
<1> DEFINE old == balance
           new == balance'
           S == AccountsOf(w)
<1>1. /\ IsFiniteSet(S)
      /\ \A a \in S : /\ old[a] \in Int /\ new[a] \in Int /\ gain[a] \in Int
                      /\ gain[a] = new[a] - old[a]
  BY AccountsFinite DEF TypeOK
<1>2. S' = S
  BY DEF AccountsOf
<1> HIDE DEF old, new, S
<1>3. SumFunctionOnSet(gain, S) = SumFunctionOnSet(new, S) - SumFunctionOnSet(old, S)
  BY <1>1, SumOfDifferences
<1>4. /\ SumFunctionOnSet(gain, S) \in Int
      /\ SumFunctionOnSet(new, S) \in Int
      /\ SumFunctionOnSet(old, S) \in Int
  BY <1>1, SumIsInt
<1>5. /\ HoldingsOf(w) = SumFunctionOnSet(old, S)
      /\ HoldingsOf(w)' = SumFunctionOnSet(new, S)
  BY <1>2 DEF HoldingsOf, old, new, S
<1> QED
  BY <1>3, <1>4, <1>5 DEF S

\* The same when only one account moves.
LEMMA OneHolderMoves ==
  ASSUME TypeOK, TypeOK', NEW w, NEW a \in TokenAccount,
         \A b \in TokenAccount \ {a} : balance'[b] = balance[b]
  PROVE  /\ HoldingsOf(w) \in Int
         /\ HoldingsOf(w)' = HoldingsOf(w)
              + (IF Holder[a] = w THEN balance'[a] - balance[a] ELSE 0)
<1> DEFINE gain == [b \in TokenAccount |-> balance'[b] - balance[b]]
           S == AccountsOf(w)
<1>1. /\ \A b \in TokenAccount : gain[b] = balance'[b] - balance[b]
      /\ \A b \in TokenAccount \ {a} : gain[b] = 0
      /\ \A b \in TokenAccount : gain[b] \in Int
  BY DEF TypeOK
<1>2. IsFiniteSet(S) /\ S \subseteq TokenAccount /\ (a \in S <=> Holder[a] = w)
  BY AccountsFinite
<1> HIDE DEF gain, S
<1>3. SumFunctionOnSet(gain, S)
        = (IF a \in S THEN gain[a] ELSE 0) + SumFunctionOnSet(gain, S \ {a})
  <2>1. \A b \in S : gain[b] \in Int
    BY <1>1, <1>2
  <2> QED
    BY <1>2, <2>1, SumWithout
<1>4. SumFunctionOnSet(gain, S \ {a}) = 0
  <2>1. IsFiniteSet(S \ {a}) /\ \A b \in S \ {a} : gain[b] = 0
    BY <1>1, <1>2, FS_RemoveElement
  <2> QED
    BY <2>1, SumOfZeros
<1>5. SumFunctionOnSet(gain, S) = IF Holder[a] = w THEN balance'[a] - balance[a] ELSE 0
  BY <1>1, <1>2, <1>3, <1>4
<1>6. /\ HoldingsOf(w) \in Int
      /\ HoldingsOf(w)' = HoldingsOf(w) + SumFunctionOnSet(gain, S)
  BY <1>1, HoldingsMove DEF S
<1> QED
  BY <1>5, <1>6

-----------------------------------------------------------------------------
(* A wallet loses no more than it staked.                                  *)

Stakes == [r \in Room |-> room[r].stake_amount]

RiskOf(w) == SumFunctionOnSet(Stakes, AtRisk(w))

RiskIn(w, r) == IF r \in AtRisk(w) THEN room[r].stake_amount ELSE 0

LossBounded(w) == HoldingsOf(w) + RiskOf(w) >= OpeningOf(w)

\* A step that changes one room changes the risk by what that room adds.
LEMMA RiskMoves ==
  ASSUME TypeOK, TypeOK', NEW w, NEW r \in Room,
         \A q \in Room \ {r} : room'[q] = room[q]
  PROVE  /\ RiskOf(w) \in Int /\ RiskIn(w, r) \in Int /\ RiskIn(w, r)' \in Int
         /\ RiskOf(w)' = RiskOf(w) + (RiskIn(w, r)' - RiskIn(w, r))
<1> DEFINE old == Stakes
           new == Stakes'
           S == AtRisk(w)
           T == AtRisk(w)'
<1>1. /\ \A q \in Room : /\ old[q] \in Int /\ new[q] \in Int
                         /\ old[q] = room[q].stake_amount
                         /\ new[q] = room'[q].stake_amount
      /\ \A q \in Room \ {r} : new[q] = old[q]
  BY DEF Stakes, TypeOK, RoomRecord
<1>2. /\ S \subseteq Room /\ T \subseteq Room
      /\ S \ {r} = T \ {r}
  BY DEF AtRisk, Participant, Active, Exists
<1> DEFINE rest == S \ {r}
<1>3. IsFiniteSet(S) /\ IsFiniteSet(T) /\ IsFiniteSet(rest) /\ rest \subseteq Room
  BY <1>2, FiniteAssumption, FS_Subset, FS_RemoveElement
<1>4. /\ RiskOf(w) = SumFunctionOnSet(old, S)
      /\ RiskOf(w)' = SumFunctionOnSet(new, T)
      /\ RiskIn(w, r) = IF r \in S THEN old[r] ELSE 0
      /\ RiskIn(w, r)' = IF r \in T THEN new[r] ELSE 0
  BY DEF RiskOf, RiskIn, Stakes
<1>s. r \notin rest /\ rest = S \ {r}
  OBVIOUS
<1>t. rest = T \ {r}
  BY <1>2
<1> HIDE DEF old, new, S, T, rest
<1>5. SumFunctionOnSet(old, S) = (IF r \in S THEN old[r] ELSE 0) + SumFunctionOnSet(old, rest)
  <2>1. \A q \in S : old[q] \in Int
    BY <1>1, <1>2
  <2>2. SumFunctionOnSet(old, S)
          = (IF r \in S THEN old[r] ELSE 0) + SumFunctionOnSet(old, S \ {r})
    BY <1>3, <2>1, SumWithout
  <2> QED
    BY <1>s, <2>2
<1>6. SumFunctionOnSet(new, T) = (IF r \in T THEN new[r] ELSE 0) + SumFunctionOnSet(new, rest)
  <2>1. \A q \in T : new[q] \in Int
    BY <1>1, <1>2
  <2>2. SumFunctionOnSet(new, T)
          = (IF r \in T THEN new[r] ELSE 0) + SumFunctionOnSet(new, T \ {r})
    BY <1>3, <2>1, SumWithout
  <2> QED
    BY <1>t, <2>2
<1>7. /\ SumFunctionOnSet(old, rest) = SumFunctionOnSet(new, rest)
      /\ SumFunctionOnSet(old, rest) \in Int
  <2>1. \A q \in rest : old[q] \in Int /\ old[q] = new[q]
    BY <1>1, <1>3, <1>s
  <2> QED
    BY <1>3, <2>1, SumsAgree, SumIsInt
<1> QED
  BY <1>1, <1>4, <1>5, <1>6, <1>7

LEMMA OpeningTyped == \A w : OpeningOf(w) \in Int
<1> TAKE w
<1>1. \A a \in AccountsOf(w) : InitialBalance[a] \in Int
  BY DuelAssumption, AccountsFinite
<1> QED
  BY <1>1, AccountsFinite, SumIsInt DEF OpeningOf

\* Whoever sits in a room that is not closed has its stake at risk.
LEMMA RiskReads ==
  ASSUME RaceInv, NEW w \in Wallet, NEW r \in Room
  PROVE  /\ ~Exists(r) => RiskIn(w, r) = 0
         /\ Active(r) => RiskIn(w, r) =
              IF w = room[r].creator \/ w = room[r].opponent
              THEN room[r].stake_amount ELSE 0
<1>1. w # DefaultPubkey
  BY PlatformAssumption
<1>2. ~Exists(r) => room[r].opponent = DefaultPubkey
  BY DEF RaceInv, IInv, BlankRooms, ZeroRoom
<1> QED
  BY <1>1, <1>2 DEF RiskIn, AtRisk, Participant, Exists

\* A step that moves one account and one room, the one by as much as the other.
LEMMA StakeMoves ==
  ASSUME TypeOK, TypeOK', NEW w, NEW r \in Room, NEW a \in TokenAccount,
         \A q \in Room \ {r} : room'[q] = room[q],
         \A b \in TokenAccount \ {a} : balance'[b] = balance[b],
         (IF Holder[a] = w THEN balance'[a] - balance[a] ELSE 0)
           = RiskIn(w, r) - RiskIn(w, r)',
         LossBounded(w)
  PROVE  LossBounded(w)'
<1>1. /\ RiskOf(w) \in Int /\ RiskIn(w, r) \in Int /\ RiskIn(w, r)' \in Int
      /\ RiskOf(w)' = RiskOf(w) + (RiskIn(w, r)' - RiskIn(w, r))
  BY RiskMoves
<1>2. /\ HoldingsOf(w) \in Int
      /\ HoldingsOf(w)' = HoldingsOf(w) + (RiskIn(w, r) - RiskIn(w, r)')
  BY OneHolderMoves
<1>3. HoldingsOf(w)' + RiskOf(w)' = HoldingsOf(w) + RiskOf(w)
  BY <1>1, <1>2
<1>4. OpeningOf(w)' = OpeningOf(w)
  BY DEF OpeningOf, AccountsOf
<1> QED
  BY <1>3, <1>4 DEF LossBounded

\* A settlement returns what it takes out of risk, and more to nobody's harm.
LEMMA SettleBounds ==
  ASSUME RaceInv, TypeOK', NEW w \in Wallet, LossBounded(w),
         NEW r \in Room, NEW keeper \in Wallet,
         NEW c \in TokenAccount, NEW o \in TokenAccount,
         NEW k \in TokenAccount, NEW p \in TokenAccount,
         NEW v \in Vault, settle_duel(r, keeper, c, o, k, p, v)
  PROVE  LossBounded(w)'
<1> TypeOK /\ StakesPlaced
  BY DEF RaceInv, IInv
<1> DEFINE stake == room[r].stake_amount
           gain == [a \in TokenAccount |-> balance'[a] - balance[a]]
<1>1. /\ PayoutAccountsDistinct(c, o, k, p)
      /\ Holder[c] = room[r].creator /\ Holder[o] = room[r].opponent
      /\ room[r].creator # room[r].opponent
      /\ Active(r) /\ stake \in Nat
  BY DEF settle_duel, AccountsOf, TypeOK, RoomRecord
<1>2. PICK share \in Amounts :
        /\ Pay(r, c, o, k, p, v, share)
        /\ \/ /\ room'[r].winner = DefaultPubkey
              /\ share.creator = stake /\ share.opponent = stake
           \/ room'[r].winner \in {room[r].creator, room[r].opponent}
  BY SettlePays
<1>3. /\ share.creator \in Nat /\ share.opponent \in Nat
      /\ share.keeper \in Nat /\ share.platform \in Nat
  BY DEF Amounts
<1>4. \A a \in TokenAccount : gain[a] = balance'[a] - balance[a]
  OBVIOUS
<1> HIDE DEF gain
<1>5. SumFunctionOnSet(gain, AccountsOf(w)) = ShareOf(w, c, o, k, p, share)
  BY <1>1, <1>2, <1>4, PayingGains
<1>6. /\ HoldingsOf(w) \in Int
      /\ HoldingsOf(w)' = HoldingsOf(w) + ShareOf(w, c, o, k, p, share)
  BY <1>4, <1>5, HoldingsMove
<1>7. /\ \A q \in Room \ {r} : room'[q] = room[q]
      /\ room'[r].creator = room[r].creator /\ room'[r].opponent = room[r].opponent
      /\ room'[r].stake_amount = stake /\ room'[r].status # "Active"
  BY SettleEffect
<1>8. /\ RiskOf(w) \in Int /\ RiskIn(w, r) \in Int /\ RiskIn(w, r)' \in Int
      /\ RiskOf(w)' = RiskOf(w) + (RiskIn(w, r)' - RiskIn(w, r))
  BY <1>7, RiskMoves
<1>9. RiskIn(w, r) = IF w = room[r].creator \/ w = room[r].opponent THEN stake ELSE 0
  BY <1>1, RiskReads
<1>10. room[r].creator # DefaultPubkey /\ room[r].opponent # DefaultPubkey
  BY DEF settle_duel, Active, Exists, Joined
<1>11. RiskIn(w, r)' = IF room'[r].winner = DefaultPubkey THEN 0 ELSE RiskIn(w, r)
  BY <1>7, <1>9 DEF RiskIn, AtRisk, Participant, Active
<1>12. ShareOf(w, c, o, k, p, share) \in Nat
  BY <1>3 DEF ShareOf
<1>13. ShareOf(w, c, o, k, p, share) >= RiskIn(w, r) - RiskIn(w, r)'
  <2>1. CASE room'[r].winner = DefaultPubkey
    BY <1>1, <1>2, <1>3, <1>9, <1>10, <1>11, <2>1 DEF ShareOf
  <2>2. CASE room'[r].winner # DefaultPubkey
    BY <1>8, <1>11, <1>12, <2>2
  <2> QED
    BY <2>1, <2>2
<1>14. HoldingsOf(w)' + RiskOf(w)' >= HoldingsOf(w) + RiskOf(w)
  BY <1>6, <1>8, <1>12, <1>13
<1>15. OpeningOf(w)' = OpeningOf(w) /\ OpeningOf(w) \in Int
  BY OpeningTyped DEF OpeningOf, AccountsOf
<1>16. HoldingsOf(w)' \in Int /\ RiskOf(w)' \in Int
  BY <1>6, <1>8, <1>12
<1> QED
  BY <1>6, <1>8, <1>14, <1>15, <1>16 DEF LossBounded

LEMMA LossStep ==
  ASSUME RaceInv, TypeOK', [Next]_vars, NEW w \in Wallet, LossBounded(w)
  PROVE  LossBounded(w)'
<1> TypeOK /\ StakesPlaced
  BY DEF RaceInv, IInv
<1>o. OpeningOf(w)' = OpeningOf(w)
  BY DEF OpeningOf, AccountsOf
<1>q. ASSUME room' = room, balance' = balance
      PROVE  LossBounded(w)'
  BY <1>q, <1>o
  DEF LossBounded, HoldingsOf, AccountsOf, RiskOf, Stakes, AtRisk, Participant,
      Active, Exists
<1>1. ASSUME NEW r \in Room, NEW d \in DayIndex, NEW stake \in StakeInput,
             NEW offset \in OffsetInput, NEW a \in TokenAccount,
             create_duel(r, d, stake, offset, a)
      PROVE  LossBounded(w)'
  <2>1. /\ room'[r].creator = r[1] /\ room'[r].opponent = DefaultPubkey
        /\ room'[r].status = "Active" /\ room'[r].stake_amount = stake
        /\ \A q \in Room \ {r} : room'[q] = room[q]
    BY <1>1 DEF create_duel, TypeOK, ZeroRoom
  <2>2. r[1] # DefaultPubkey /\ w # DefaultPubkey /\ stake \in Nat
    BY RoomKeys, PlayersAreSomebody, PlatformAssumption, DuelAssumption
  <2>3. RiskIn(w, r) = 0
    BY <1>1, RiskReads DEF create_duel
  <2>4. RiskIn(w, r)' = IF w = r[1] THEN stake ELSE 0
    BY <2>1, <2>2 DEF RiskIn, AtRisk, Participant, Active, Exists
  <2>5. /\ Holder[a] = r[1]
        /\ \A b \in TokenAccount \ {a} : balance'[b] = balance[b]
        /\ balance'[a] - balance[a] = 0 - stake
    BY <1>1, <2>2 DEF create_duel, AccountsOf, TypeOK
  <2>6. (IF Holder[a] = w THEN balance'[a] - balance[a] ELSE 0)
          = RiskIn(w, r) - RiskIn(w, r)'
    BY <2>2, <2>3, <2>4, <2>5
  <2> QED
    BY <2>1, <2>5, <2>6, StakeMoves
<1>2. ASSUME NEW r \in Room, NEW p \in Player, NEW a \in TokenAccount,
             NEW v \in Vault, join_duel(r, p, a, v)
      PROVE  LossBounded(w)'
  <2> DEFINE stake == room[r].stake_amount
  <2>1. /\ room'[r].creator = room[r].creator /\ room'[r].opponent = p
        /\ room'[r].status = "Active" /\ room'[r].stake_amount = stake
        /\ \A q \in Room \ {r} : room'[q] = room[q]
        /\ Active(r) /\ p # room[r].creator /\ room[r].opponent = DefaultPubkey
    BY <1>2, JoinEffect DEF join_duel, Active, SeatFree, Joined
  <2>2. w # DefaultPubkey /\ stake \in Nat /\ room[r].creator # DefaultPubkey
    BY <2>1, PlatformAssumption DEF TypeOK, RoomRecord, Active, Exists
  <2>3. RiskIn(w, r) = IF w = room[r].creator THEN stake ELSE 0
    BY <2>1, <2>2, RiskReads
  <2>4. RiskIn(w, r)' = IF w = room[r].creator \/ w = p THEN stake ELSE 0
    BY <2>1, <2>2 DEF RiskIn, AtRisk, Participant, Active, Exists
  <2>5. /\ Holder[a] = p
        /\ \A b \in TokenAccount \ {a} : balance'[b] = balance[b]
        /\ balance'[a] - balance[a] = 0 - stake
    BY <1>2, <2>2 DEF join_duel, AccountsOf, TypeOK
  <2>6. (IF Holder[a] = w THEN balance'[a] - balance[a] ELSE 0)
          = RiskIn(w, r) - RiskIn(w, r)'
    BY <2>1, <2>2, <2>3, <2>4, <2>5
  <2> QED
    BY <2>1, <2>5, <2>6, StakeMoves
<1>3. ASSUME NEW r \in Room, NEW v \in Wallet,
             NEW h \in DuelSolutionHashes \cup {ZERO}, set_duel_word(r, v, h)
      PROVE  LossBounded(w)'
  <2>1. \A q \in Room :
          /\ room'[q].creator = room[q].creator
          /\ room'[q].opponent = room[q].opponent
          /\ room'[q].status = room[q].status
          /\ room'[q].winner = room[q].winner
          /\ room'[q].stake_amount = room[q].stake_amount
    BY <1>3 DEF set_duel_word, TypeOK, RoomRecord
  <2>2. Stakes' = Stakes /\ AtRisk(w)' = AtRisk(w)
    BY <2>1 DEF Stakes, AtRisk, Participant, Active, Exists
  <2>3. balance' = balance
    BY <1>3 DEF set_duel_word, tokenVars
  <2> QED
    BY <1>o, <2>2, <2>3 DEF LossBounded, HoldingsOf, AccountsOf, RiskOf
<1>4. ASSUME NEW r \in Room, NEW keeper \in Wallet,
             NEW c \in TokenAccount, NEW o \in TokenAccount,
             NEW k \in TokenAccount, NEW p \in TokenAccount,
             NEW v \in Vault, settle_duel(r, keeper, c, o, k, p, v)
      PROVE  LossBounded(w)'
  BY <1>4, SettleBounds
<1>5. ASSUME NEW r \in Room, NEW p \in Player, NEW a \in TokenAccount,
             NEW v \in Vault, cancel_duel(r, p, a, v)
      PROVE  LossBounded(w)'
  <2> DEFINE stake == room[r].stake_amount
  <2>1. /\ Active(r) /\ room[r].opponent = DefaultPubkey /\ p = room[r].creator
        /\ room[r].winner = DefaultPubkey
    BY <1>5 DEF cancel_duel, CanCancel, Cancellable, Joined, Active, RaceInv,
                OpenUndecided
  <2>2. /\ room'[r].status = "Refunded" /\ room'[r].winner = DefaultPubkey
        /\ \A q \in Room \ {r} : room'[q] = room[q]
    BY <1>5, <2>1 DEF cancel_duel, TypeOK, RoomRecord
  <2>3. w # DefaultPubkey /\ stake \in Nat
    BY PlatformAssumption DEF TypeOK, RoomRecord
  <2>4. RiskIn(w, r) = IF w = p THEN stake ELSE 0
    BY <2>1, <2>3, RiskReads
  <2>5. RiskIn(w, r)' = 0
    BY <2>2 DEF RiskIn, AtRisk, Active
  <2>6. /\ Holder[a] = p
        /\ \A b \in TokenAccount \ {a} : balance'[b] = balance[b]
        /\ balance'[a] - balance[a] = stake
    BY <1>5, <2>3 DEF cancel_duel, CanCancel, AccountsOf, TypeOK
  <2>7. (IF Holder[a] = w THEN balance'[a] - balance[a] ELSE 0)
          = RiskIn(w, r) - RiskIn(w, r)'
    BY <2>3, <2>4, <2>5, <2>6
  <2> QED
    BY <2>2, <2>6, <2>7, StakeMoves
<1>6. CASE CommitDuelSolution \/ RevealDuelSolution
  BY <1>6, <1>q DEF CommitDuelSolution, RevealDuelSolution, commit_duel_solution,
                    reveal_duel_solution, tokenVars
<1>7. CASE (PlatformNext /\ UNCHANGED <<now, duelVars>>) \/ Tick
          \/ OpenAnyVault \/ UNCHANGED vars
  BY <1>7, <1>q, OpenEffect DEF Tick, duelVars, vars
<1> QED
  BY <1>1, <1>2, <1>3, <1>4, <1>5, <1>6, <1>7, AccountsTyped
  DEF Next, CreateDuel, JoinDuel, SetDuelWord, SettleDuel, CancelDuel

(***************************************************************************)
(* Whatever the other wallets, the keepers and the authority do, a wallet  *)
(* is never worse off than by its own stakes in the rooms that are still   *)
(* open or that somebody won.                                              *)
(***************************************************************************)
THEOREM LossesAreStaked == Spec => []LossIsStaked
<1> DEFINE I == \A w \in Wallet : LossBounded(w)
<1>1. Init => I
  <2> SUFFICES ASSUME Init, NEW w \in Wallet PROVE LossBounded(w)
    OBVIOUS
  <2>1. AtRisk(w) = {}
    BY PlatformAssumption DEF Init, AtRisk, Participant, ZeroRoom
  <2>2. RiskOf(w) = 0 /\ HoldingsOf(w) = OpeningOf(w)
    BY <2>1, SumOfNothing DEF RiskOf, HoldingsOf, OpeningOf, Init
  <2> QED
    BY <2>2, OpeningTyped DEF LossBounded
<1>2. I /\ RaceInv /\ RaceInv' /\ [Next]_vars => I'
  <2>1. RaceInv' => TypeOK'
    BY DEF RaceInv, IInv
  <2> QED
    BY <2>1, LossStep
<1>3. I => LossIsStaked
  BY DEF LossIsStaked, LossBounded, RiskOf, Stakes
<1> HIDE DEF I
<1> QED
  BY <1>1, <1>2, <1>3, RaceInvHolds, PTL DEF Spec

-----------------------------------------------------------------------------
(* A stake nobody matched can be taken back.                               *)

(***************************************************************************)
(* While a room waits for an opponent, whatever has happened meanwhile and *)
(* whatever the time, every condition of cancel_duel holds for its creator *)
(* with some account of the creator's and the vault the stake went to, the *)
(* existing one of that account's mint: the stake can be had back.         *)
(***************************************************************************)
THEOREM StakesAreRecoverable == Spec => []StakeRecoverable
<1>1. IInv => StakeRecoverable
  <2> SUFFICES ASSUME IInv, NEW r \in Room, Active(r), ~Joined(r)
               PROVE  \E a \in TokenAccount, v \in Vault :
                        CanCancel(r, room[r].creator, a, v)
    BY DEF StakeRecoverable
  <2>1. PICK v \in OpeningVaults(r) : escrow[r] = OneStakeIn(r, v)
    BY DEF IInv, StakesPlaced, StakePlaced
  <2>2. /\ v \in Vault /\ VaultOf(r, v)
        /\ \E a \in AccountsOf(room[r].creator) : SameMint({a, v})
    BY <2>1 DEF OpeningVaults
  <2>3. PICK a \in AccountsOf(room[r].creator) : SameMint({a, v})
    BY <2>2
  <2>4. room[r].stake_amount \in Nat
    BY DEF IInv, TypeOK, RoomRecord
  <2>5. escrow[r][v] >= room[r].stake_amount
    BY <2>1, <2>2, <2>4 DEF OneStakeIn, PaidInto, EmptyVaults
  <2>6. CanCancel(r, room[r].creator, a, v)
    BY <2>2, <2>3, <2>5 DEF CanCancel, Cancellable
  <2> QED
    BY <2>2, <2>3, <2>6, AccountsTyped
<1> QED
  BY <1>1, IInvHolds, PTL

-----------------------------------------------------------------------------
(* The payout follows the verdict.                                         *)

\* What MoneyFollowsVerdict says of one room.
PaidOut(r) ==
  LET pot    == 2 * room[r].stake_amount
      winner == room[r].winner
      bps    == config.platform_fee_bps
      tip    == config.keeper_tip_usdc
      gainers == {w \in Wallet : PaidTo(r, w) > 0}
  IN
  /\ SumFunction(verdict[r].paid) = pot
  /\ Cardinality(gainers \ (Seated(r) \cup {config.authority})) <= 1
  /\ winner = DefaultPubkey =>
       \A p \in Seated(r) : PaidTo(r, p) = room[r].stake_amount
  /\ winner # DefaultPubkey =>
       /\ (pot - PaidTo(r, winner)) * BPS_DENOMINATOR <= pot * bps
       /\ \A p \in Seated(r) \ {winner, config.authority} : PaidTo(r, p) <= tip

\* A settlement pays as its verdict says.
LEMMA SettlingPaysOut ==
  ASSUME RaceInv, RaceInv', LedgerNext, NEW r \in Room, Settling(r)
  PROVE  Configured' /\ PaidOut(r)'
<1> IInv /\ TypeOK /\ TypeOK' /\ StakesPlaced /\ [Next]_vars
  BY DEF RaceInv, IInv, LedgerNext
<1>1. PICK keeper \in Wallet, c, o, k, p \in TokenAccount, v \in Vault :
        settle_duel(r, keeper, c, o, k, p, v)
  BY ClosedBySettlement DEF Settling, Active
<1> DEFINE stake == room[r].stake_amount
           tip == config.keeper_tip_usdc
           fees == Pot(r) * config.platform_fee_bps
           creator == room[r].creator
           opponent == room[r].opponent
           authority == config.authority
           winner == room'[r].winner
           gain == verdict'[r].paid
           Gain(w) == SumFunctionOnSet(gain, AccountsOf(w))
<1>2. /\ PayoutAccountsDistinct(c, o, k, p)
      /\ Holder[c] = creator /\ Holder[o] = opponent
      /\ Holder[k] = keeper /\ Holder[p] = authority
      /\ creator # opponent /\ creator # DefaultPubkey /\ opponent # DefaultPubkey
      /\ Configured
  BY <1>1 DEF settle_duel, AccountsOf, Active, Exists, Joined
<1>3. PICK share \in Amounts :
        /\ Total(share) = Pot(r)
        /\ Pay(r, c, o, k, p, v, share)
        /\ share.keeper <= tip
        /\ \/ /\ winner = DefaultPubkey
              /\ share.creator = stake /\ share.opponent = stake
              /\ share.keeper = 0 /\ share.platform = 0
           \/ /\ winner = creator /\ share.opponent = 0
              /\ (Pot(r) - share.creator) * BPS_DENOMINATOR <= fees
           \/ /\ winner = opponent /\ share.creator = 0
              /\ (Pot(r) - share.opponent) * BPS_DENOMINATOR <= fees
  BY <1>1, SettlePays
<1>4. /\ share.creator \in Nat /\ share.opponent \in Nat
      /\ share.keeper \in Nat /\ share.platform \in Nat
  BY DEF Amounts
<1>5. /\ gain = [a \in TokenAccount |-> balance'[a] - balance[a]]
      /\ room'[r].creator = creator /\ room'[r].opponent = opponent
      /\ room'[r].stake_amount = stake
      /\ config' = config
  BY <1>1, SettleEffect DEF LedgerNext, settle_duel, platformVars
<1>6. /\ SumFunctionOnSet(gain, TokenAccount) = Total(share)
      /\ \A w : Gain(w) = ShareOf(w, c, o, k, p, share)
  <2>1. \A a \in TokenAccount : gain[a] = balance'[a] - balance[a]
    BY <1>5
  <2>2. PayoutAccountsDistinct(c, o, k, p) /\ Pay(r, c, o, k, p, v, share)
    BY <1>2, <1>3
  <2> HIDE DEF gain
  <2>3. ASSUME NEW w
        PROVE  /\ SumFunctionOnSet(gain, TokenAccount) = Total(share)
               /\ SumFunctionOnSet(gain, AccountsOf(w)) = ShareOf(w, c, o, k, p, share)
    BY <2>1, <2>2, PayingGains
  <2> QED
    BY <2>3
<1>7. SumFunction(gain) = Pot(r)
  BY <1>3, <1>5, <1>6 DEF SumFunction
<1>8. /\ stake \in Nat /\ Pot(r) = 2 * stake /\ Pot(r) \in Nat
      /\ fees \in Nat /\ tip \in Nat
  <2>0. stake \in Nat
    BY DEF TypeOK, RoomRecord
  <2> DEFINE bps == config.platform_fee_bps
  <2>1. tip \in Nat /\ bps \in 0..BPS_DENOMINATOR
    <3>1. PlatformTypeOK
      BY DEF TypeOK
    <3> QED
      BY <3>1, ConfigTyped
  <2>2. Pot(r) = 2 * stake
    BY DEF Pot
  <2>3. fees = Pot(r) * bps
    OBVIOUS
  <2> HIDE DEF stake, tip, fees, bps
  <2>4. bps \in Nat
    BY <2>1 DEF BPS_DENOMINATOR
  <2> QED
    BY <2>0, <2>1, <2>2, <2>3, <2>4
<1> HIDE DEF stake, tip, fees, creator, opponent, authority, winner, gain, Gain
<1>9. Cardinality({w \in Wallet : Gain(w) > 0} \ ({creator, opponent} \cup {authority})) <= 1
  <2> DEFINE others == {w \in Wallet : Gain(w) > 0} \ ({creator, opponent} \cup {authority})
  <2>1. \A w \in others : w = keeper
    BY <1>2, <1>4, <1>6 DEF ShareOf
  <2>2. others \subseteq {keeper} /\ IsFiniteSet({keeper}) /\ Cardinality({keeper}) = 1
    BY <2>1, FS_Singleton
  <2> HIDE DEF others
  <2>3. Cardinality(others) <= 1
    BY <2>2, FS_Subset
  <2> QED
    BY <2>3 DEF others
<1>10. winner = DefaultPubkey => Gain(creator) = stake /\ Gain(opponent) = stake
  BY <1>2, <1>3, <1>4, <1>6, <1>8 DEF ShareOf
<1>11. \A w : Gain(w) \in Nat
  BY <1>4, <1>6 DEF ShareOf
<1>12. winner # DefaultPubkey => (2 * stake - Gain(winner)) * BPS_DENOMINATOR <= fees
  <2>1. Gain(creator) >= share.creator /\ Gain(opponent) >= share.opponent
    BY <1>2, <1>4, <1>6 DEF ShareOf
  <2> QED
    BY <1>3, <1>4, <1>8, <1>11, <2>1 DEF BPS_DENOMINATOR
<1>13. winner # DefaultPubkey =>
         \A q \in {creator, opponent} \ {winner, authority} : Gain(q) <= tip
  BY <1>2, <1>3, <1>4, <1>6, <1>8 DEF ShareOf
<1>14. \A w : PaidTo(r, w)' = Gain(w)
  BY DEF PaidTo, AccountsOf, Gain, gain
<1>15. Configured'
  BY <1>2, <1>5 DEF Configured
<1>16. /\ Seated(r)' = {creator, opponent} /\ config'.authority = authority
       /\ room'[r].winner = winner /\ room'[r].stake_amount = stake
       /\ config'.keeper_tip_usdc = tip
       /\ (2 * stake) * config'.platform_fee_bps = fees
       /\ verdict'[r].paid = gain
  BY <1>5, <1>8 DEF Seated, stake, tip, fees, creator, opponent, authority, winner, gain
<1>17. PaidOut(r)'
  BY <1>7, <1>8, <1>9, <1>10, <1>12, <1>13, <1>14, <1>16 DEF PaidOut
<1> QED
  BY <1>15, <1>17

\* The configuration is written once.
LEMMA ConfigFrozen ==
  ASSUME Configured, [Next]_vars
  PROVE  config' = config
<1>1. CASE PlatformNext
  BY <1>1 DEF PlatformNext, initialize_config, initialize_day
<1>2. CASE CreateDuel \/ JoinDuel \/ SetDuelWord
  <2>1. \A r, d, stake, offset, a : create_duel(r, d, stake, offset, a) => config' = config
    BY DEF create_duel, platformVars
  <2>2. \A r, p, a, v : join_duel(r, p, a, v) => config' = config
    BY DEF join_duel, platformVars
  <2>3. \A r, w, h : set_duel_word(r, w, h) => config' = config
    BY DEF set_duel_word, platformVars
  <2> QED
    BY <1>2, <2>1, <2>2, <2>3 DEF CreateDuel, JoinDuel, SetDuelWord
<1>3. CASE CommitDuelSolution \/ RevealDuelSolution
  BY <1>3 DEF CommitDuelSolution, RevealDuelSolution, commit_duel_solution,
              reveal_duel_solution, platformVars
<1>4. CASE \E r \in Room : SettleDuel(r)
  <2>1. \A r, keeper, c, o, k, p, v :
          settle_duel(r, keeper, c, o, k, p, v) => config' = config
    BY DEF settle_duel, platformVars
  <2> QED
    BY <1>4, <2>1 DEF SettleDuel
<1>5. CASE CancelDuel \/ Tick \/ OpenAnyVault \/ UNCHANGED vars
  BY <1>5, OpenEffect DEF CancelDuel, cancel_duel, Tick, platformVars, vars
<1> QED
  BY <1>1, <1>2, <1>3, <1>4, <1>5 DEF Next

PInv == VInv /\ \A r \in Room : Settled(r) => Configured /\ PaidOut(r)

LEMMA PInvStep == PInv /\ [LedgerNext]_ledgerVars => PInv'
<1> SUFFICES ASSUME PInv, [LedgerNext]_ledgerVars PROVE PInv'
  OBVIOUS
<1> VInv /\ VInv' /\ RaceInv /\ RaceInv' /\ IInv /\ [Next]_vars
  BY VInvStep, LedgerSteps DEF PInv, VInv, RaceInv
<1>1. ASSUME NEW r \in Room, Settled(r)'
      PROVE  Configured' /\ PaidOut(r)'
  <2>1. CASE LedgerNext /\ Settling(r)
    BY <2>1, SettlingPaysOut
  <2>2. CASE verdict'[r] = verdict[r]
    <3>1. Settled(r) /\ Configured /\ PaidOut(r)
      BY <1>1, <2>2 DEF PInv, Settled
    <3>2. config' = config
      BY <3>1, ConfigFrozen
    <3>3. room'[r] = room[r]
      BY <3>1, FinalStep DEF VInv, VerdictsStand, ClosedIsFinalStep
    <3>4. /\ \A w : PaidTo(r, w)' = PaidTo(r, w)
          /\ Seated(r)' = Seated(r)
      BY <2>2, <3>3 DEF PaidTo, AccountsOf, Seated
    <3>5. PaidOut(r)'
      BY <2>2, <3>1, <3>2, <3>3, <3>4 DEF PaidOut
    <3> QED
      BY <3>1, <3>2, <3>5 DEF Configured
  <2> QED
    BY <2>1, <2>2 DEF LedgerNext, ledgerVars
<1> QED
  BY <1>1 DEF PInv

(***************************************************************************)
(* In every settled room, for ever after: the whole pot was paid, to       *)
(* nobody but the two players, one keeper and the authority; the winner    *)
(* lost at most the fee rate, a loser gained at most the tip, and without  *)
(* a winner both stakes came back whole.                                   *)
(***************************************************************************)
THEOREM PayoutsFollowVerdicts == LedgerSpec => []MoneyFollowsVerdict
<1>1. LedgerInit => PInv
  <2> SUFFICES ASSUME LedgerInit PROVE PInv
    OBVIOUS
  <2>1. \A r \in Room : ~Settled(r)
    BY DEF LedgerInit, Settled, NoVerdict
  <2> QED
    BY <2>1, VInvInit DEF PInv
<1>2. PInv => MoneyFollowsVerdict
  BY DEF PInv, MoneyFollowsVerdict, PaidOut
<1> QED
  BY <1>1, <1>2, PInvStep, PTL DEF LedgerSpec
=============================================================================
