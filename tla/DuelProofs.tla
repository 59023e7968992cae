----------------------------- MODULE DuelProofs -----------------------------
(***************************************************************************)
(* Theorems about Duel for any number of wallets, rooms, words and token   *)
(* accounts, any stakes in the configured range and any clock bound.       *)
(***************************************************************************)
EXTENDS Duel, CommonProofs

-----------------------------------------------------------------------------
(* Amounts.                                                                *)

Amounts == [creator : Nat, opponent : Nat, keeper : Nat, platform : Nat]

LEMMA ConfigTyped ==
  ASSUME PlatformTypeOK
  PROVE  /\ config.platform_fee_bps \in 0..BPS_DENOMINATOR
         /\ config.keeper_tip_usdc \in Nat
         /\ config.keeper_tip_from_fee \in BOOLEAN
         /\ config.min_stake_usdc \in Nat
         /\ config.max_stake_usdc \in Nat
<1>1. DEFAULT_PLATFORM_FEE_BPS \in 0..BPS_DENOMINATOR /\ 0 \in 0..BPS_DENOMINATOR
  BY PlatformAssumption, FeeAssumption DEF BPS_DENOMINATOR
<1>2. CASE config = ZeroConfig
  BY <1>1, <1>2 DEF ZeroConfig
<1>3. CASE \E w \in Wallet : config = DefaultConfig(w)
  BY <1>1, <1>3, PlatformAssumption DEF DefaultConfig
<1> QED
  BY <1>2, <1>3 DEF PlatformTypeOK

(***************************************************************************)
(* Whatever the verdict, settle_duel pays out the whole pot: the tie and   *)
(* the refund without a fee, the win with the fee divided between keeper   *)
(* and platform.                                                           *)
(***************************************************************************)
LEMMA SharesAreThePot ==
  ASSUME TypeOK, NEW r \in Room
  PROVE  /\ TieShare(r) \in Amounts /\ Total(TieShare(r)) = Pot(r)
         /\ RefundShare(r) \in Amounts /\ Total(RefundShare(r)) = Pot(r)
         /\ \A w : WinShare(r, w) \in Amounts /\ Total(WinShare(r, w)) = Pot(r)
         /\ SplitOfPot(r).fee <= Pot(r)
<1>1. room[r].stake_amount \in Nat
  BY DEF TypeOK, RoomRecord
<1>2. Pot(r) \in Nat
  BY <1>1 DEF Pot
<1>3. TieShare(r) \in Amounts /\ Total(TieShare(r)) = Pot(r)
  <2> DEFINE half == Pot(r) \div 2
  <2>1. half \in Nat /\ half <= Pot(r)
    BY <1>2, SMT
  <2>2. TieShare(r) = [creator |-> half, opponent |-> Pot(r) - half,
                       keeper |-> 0, platform |-> 0]
    BY DEF TieShare
  <2> HIDE DEF half
  <2> QED
    BY <1>2, <2>1, <2>2 DEF Amounts, Total
<1>4. RefundShare(r) \in Amounts /\ Total(RefundShare(r)) = Pot(r)
  BY <1>1 DEF RefundShare, Amounts, Total, Pot
<1> DEFINE split == SplitOfPot(r)
<1>5. /\ split.fee \in Nat
      /\ split.fee <= Pot(r)
      /\ split.keeper_tip \in Nat
      /\ split.platform_fee \in Nat
      /\ split.keeper_tip + split.platform_fee = split.fee
  BY <1>2, ConfigTyped, FeeIsDividedExactly DEF SplitOfPot, TypeOK
<1>6. ASSUME NEW w
      PROVE  WinShare(r, w) \in Amounts /\ Total(WinShare(r, w)) = Pot(r)
  <2> HIDE DEF split
  <2>1. WinShare(r, w) =
          [creator  |-> IF w = room[r].creator THEN Pot(r) - split.fee ELSE 0,
           opponent |-> IF w = room[r].creator THEN 0 ELSE Pot(r) - split.fee,
           keeper   |-> split.keeper_tip,
           platform |-> split.platform_fee]
    BY DEF WinShare, split
  <2>2. Pot(r) - split.fee \in Nat
    BY <1>2, <1>5
  <2> QED
    BY <1>2, <1>5, <2>1, <2>2 DEF Amounts, Total
<1> QED
  BY <1>3, <1>4, <1>5, <1>6

(***************************************************************************)
(* The transfers of a settlement leave naturals behind.                    *)
(***************************************************************************)
LEMMA PayTyped ==
  ASSUME TypeOK, NEW r \in Room, NEW share \in Amounts,
         NEW c \in TokenAccount, NEW o \in TokenAccount,
         NEW k \in TokenAccount, NEW p \in TokenAccount, NEW v \in Vault,
         Pay(r, c, o, k, p, v, share)
  PROVE  /\ escrow' \in [Room -> [Vault -> Nat]]
         /\ balance' \in [TokenAccount -> Nat]
<1>1. Total(share) \in Nat
  BY DEF Amounts, Total
<1>2. escrow[r][v] - Total(share) \in Nat
  BY <1>1 DEF Pay, TypeOK
<1>3. escrow' \in [Room -> [Vault -> Nat]]
  BY <1>2 DEF Pay, TypeOK
<1>4. balance' \in [TokenAccount -> Nat]
  <2>1. \A a \in TokenAccount : Received(a, c, o, k, p, share) \in Nat
    BY DEF Amounts, Received
  <2> QED
    BY <2>1 DEF Pay, TypeOK
<1> QED
  BY <1>3, <1>4

-----------------------------------------------------------------------------
(* Type correctness.                                                       *)

(***************************************************************************)
(* The instructions change these fields of a room and of an entry.         *)
(***************************************************************************)
LEMMA RoomUpdates ==
  ASSUME TypeOK, NEW r \in Room
  PROVE  /\ \A p \in Player :
              [room EXCEPT ![r].opponent = p] \in [Room -> RoomRecord]
         /\ \A h \in DuelSolutionHashes \cup {ZERO} :
              [room EXCEPT ![r].duel_solution_hash = h, ![r].word_set = TRUE]
                \in [Room -> RoomRecord]
         /\ \A s \in {"Settled", "Refunded"} :
              [room EXCEPT ![r].status = s] \in [Room -> RoomRecord]
         /\ \A s \in {"Settled", "Refunded"}, w \in Player \cup {DefaultPubkey} :
              [room EXCEPT ![r].status = s, ![r].winner = w]
                \in [Room -> RoomRecord]
<1>1. room \in [Room -> RoomRecord] /\ room[r] \in RoomRecord
  BY DEF TypeOK
<1>2. ASSUME NEW p \in Player
      PROVE  [room[r] EXCEPT !.opponent = p] \in RoomRecord
  BY <1>1 DEF RoomRecord
<1>3. ASSUME NEW h \in DuelSolutionHashes \cup {ZERO}
      PROVE  [room[r] EXCEPT !.duel_solution_hash = h, !.word_set = TRUE]
               \in RoomRecord
  BY <1>1 DEF RoomRecord
<1>4. ASSUME NEW s \in {"Settled", "Refunded"}
      PROVE  [room[r] EXCEPT !.status = s] \in RoomRecord
  BY <1>1 DEF RoomRecord
<1>5. ASSUME NEW s \in {"Settled", "Refunded"},
             NEW w \in Player \cup {DefaultPubkey}
      PROVE  [room[r] EXCEPT !.status = s, !.winner = w] \in RoomRecord
  BY <1>1 DEF RoomRecord
<1> QED
  BY <1>1, <1>2, <1>3, <1>4, <1>5

LEMMA RoomKeys == \A r \in Room : r[1] \in Player
BY DuelAssumption

LEMMA StartedEntryTyped ==
  ASSUME TypeOK
  PROVE  \A p \in Player : StartedEntry(p) \in EntryRecord
<1> now \in Nat
  BY DuelAssumption DEF TypeOK
<1> QED
  BY DEF StartedEntry, EntryRecord

LEMMA StartedEntryFresh ==
  \A p : StartedEntry(p).commit_hash = ZERO /\ ~StartedEntry(p).revealed
BY DEF StartedEntry

LEMMA AccountsTyped == \A w : AccountsOf(w) \subseteq TokenAccount
BY DEF AccountsOf

LEMMA TypeOKInit == Init => TypeOK
<1> SUFFICES ASSUME Init PROVE TypeOK
  OBVIOUS
<1>1. PlatformTypeOK
  BY DEF Init, PlatformInit, PlatformTypeOK, ZeroDay
<1>2. now \in 0..MaxTime
  BY DuelAssumption DEF Init
<1>3. room \in [Room -> RoomRecord]
  BY DEF Init, ZeroRoom, RoomRecord
<1>4. entry \in [Room -> [Player -> EntryRecord]]
  BY DEF Init, ZeroEntry, EntryRecord
<1>5. escrow \in [Room -> [Vault -> Nat]] /\ opened \in [Room -> SUBSET Vault]
  BY DEF Init, EmptyVaults
<1>6. balance \in [TokenAccount -> Nat]
  BY DuelAssumption DEF Init
<1> QED
  BY <1>1, <1>2, <1>3, <1>4, <1>5, <1>6 DEF TypeOK

LEMMA AtasAreVaults == \A a \in TokenAccount : RoomAta[MintOf[a]] \in Vault
BY DuelAssumption

(***************************************************************************)
(* Opening a token account for a room changes nothing else.                *)
(***************************************************************************)
LEMMA OpenEffect ==
  ASSUME OpenAnyVault
  PROVE  /\ config' = config /\ daily' = daily /\ now' = now
         /\ room' = room /\ entry' = entry /\ escrow' = escrow
         /\ balance' = balance
         /\ PlatformTypeOK => PlatformTypeOK'
         /\ \E r \in Room, v \in Vault : opened' = [opened EXCEPT ![r] = @ \cup {v}]
BY DEF OpenAnyVault, OpenVault, platformVars, PlatformTypeOK

LEMMA TypeOKStep == TypeOK /\ [Next]_vars => TypeOK'
<1> SUFFICES ASSUME TypeOK, [Next]_vars PROVE TypeOK'
  OBVIOUS
<1> USE DEF TypeOK
<1>1. CASE PlatformNext /\ UNCHANGED <<now, duelVars>>
  BY <1>1, PlatformStep DEF duelVars
<1>2. ASSUME NEW r \in Room, NEW d \in DayIndex, NEW stake \in StakeInput,
             NEW offset \in OffsetInput, NEW a \in TokenAccount,
             create_duel(r, d, stake, offset, a)
      PROVE  TypeOK'
  <2>1. PlatformTypeOK' /\ now' = now
    BY <1>2 DEF create_duel, platformVars, PlatformTypeOK
  <2>2. stake \in Nat /\ now + offset \in Nat
    BY DuelAssumption
  <2>3. RoomSolutionHash(daily[d].slot_hash_seed, r) \in RoomSolutionHashes
    BY <1>2 DEF create_duel, DayOpen, PlatformTypeOK, RoomSolutionHashes
  <2>4. room' \in [Room -> RoomRecord]
    BY <1>2, <2>2, <2>3, RoomKeys DEF create_duel, RoomRecord, ZeroRoom
  <2>5. entry' \in [Room -> [Player -> EntryRecord]]
    BY <1>2, StartedEntryTyped, RoomKeys DEF create_duel
  <2>6. escrow' \in [Room -> [Vault -> Nat]] /\ balance' \in [TokenAccount -> Nat]
    <3> DEFINE v == RoomAta[MintOf[a]]
    <3>1. v \in Vault
      BY AtasAreVaults
    <3>2. escrow' = [escrow EXCEPT ![r][v] = @ + stake]
      BY <1>2 DEF create_duel
    <3>3. balance' = [balance EXCEPT ![a] = @ - stake] /\ balance[a] >= stake
      BY <1>2 DEF create_duel, Affords
    <3> HIDE DEF v
    <3> QED
      BY <2>2, <3>1, <3>2, <3>3
  <2>7. opened' \in [Room -> SUBSET Vault]
    BY <1>2, AtasAreVaults DEF create_duel
  <2> QED
    BY <2>1, <2>4, <2>5, <2>6, <2>7
<1>3. ASSUME NEW r \in Room, NEW p \in Player, NEW a \in TokenAccount,
             NEW v \in Vault, join_duel(r, p, a, v)
      PROVE  TypeOK'
  <2>1. PlatformTypeOK' /\ now' = now
    BY <1>3 DEF join_duel, platformVars, PlatformTypeOK
  <2>2. room[r].stake_amount \in Nat
    BY DEF RoomRecord
  <2>3. room' \in [Room -> RoomRecord]
    BY <1>3, RoomUpdates DEF join_duel
  <2>4. entry' \in [Room -> [Player -> EntryRecord]]
    BY <1>3, StartedEntryTyped DEF join_duel
  <2>5. escrow' \in [Room -> [Vault -> Nat]] /\ balance' \in [TokenAccount -> Nat]
    BY <1>3, <2>2 DEF join_duel, Affords
  <2>6. opened' = opened
    BY <1>3 DEF join_duel
  <2> QED
    BY <2>1, <2>3, <2>4, <2>5, <2>6
<1>4. ASSUME NEW r \in Room, NEW w \in Wallet,
             NEW h \in DuelSolutionHashes \cup {ZERO}, set_duel_word(r, w, h)
      PROVE  TypeOK'
  <2>1. PlatformTypeOK'
    BY <1>4 DEF set_duel_word, platformVars, PlatformTypeOK
  <2>2. room' \in [Room -> RoomRecord]
    BY <1>4, RoomUpdates DEF set_duel_word
  <2> QED
    BY <1>4, <2>1, <2>2 DEF set_duel_word, tokenVars
<1>5. ASSUME NEW r \in Room, NEW p \in Player,
             NEW h \in CommitHashes \cup {ZERO}, commit_duel_solution(r, p, h)
      PROVE  TypeOK'
  <2>1. PlatformTypeOK'
    BY <1>5 DEF commit_duel_solution, platformVars, PlatformTypeOK
  <2>2. entry' \in [Room -> [Player -> EntryRecord]]
    BY <1>5 DEF commit_duel_solution, EntryRecord
  <2> QED
    BY <1>5, <2>1, <2>2 DEF commit_duel_solution, tokenVars
<1>6. ASSUME NEW r \in Room, NEW p \in Player, NEW word \in Word,
             NEW salt \in Salt, reveal_duel_solution(r, p, word, salt)
      PROVE  TypeOK'
  <2>1. PlatformTypeOK'
    BY <1>6 DEF reveal_duel_solution, platformVars, PlatformTypeOK
  <2>2. entry' \in [Room -> [Player -> EntryRecord]]
    <3>1. [entry[r][p] EXCEPT !.revealed = TRUE] \in EntryRecord
      <4>1. entry[r][p] \in EntryRecord
        OBVIOUS
      <4> QED
        BY <4>1 DEF EntryRecord
    <3> QED
      BY <1>6, <3>1 DEF reveal_duel_solution
  <2> QED
    BY <1>6, <2>1, <2>2 DEF reveal_duel_solution, tokenVars
<1>7. ASSUME NEW r \in Room, NEW keeper \in Wallet,
             NEW c \in TokenAccount, NEW o \in TokenAccount,
             NEW k \in TokenAccount, NEW p \in TokenAccount,
             NEW v \in Vault, settle_duel(r, keeper, c, o, k, p, v)
      PROVE  TypeOK'
  <2>1. PlatformTypeOK' /\ now' = now /\ entry' = entry
    BY <1>7 DEF settle_duel, platformVars, PlatformTypeOK
  <2>2. room' \in [Room -> RoomRecord]
    <3>1. PICK s \in {"Settled", "Refunded"}, w \in Player \cup {DefaultPubkey} :
            room' = [room EXCEPT ![r].status = s, ![r].winner = w]
      <4>1. room[r].creator \in Player \cup {DefaultPubkey}
            /\ room[r].opponent \in Player \cup {DefaultPubkey}
        BY DEF RoomRecord
      <4> QED
        BY <1>7, <4>1 DEF settle_duel, settle_tie, settle_win, settle_refund, Close
    <3> QED
      BY <3>1, RoomUpdates
  <2>3. PICK share \in Amounts : Pay(r, c, o, k, p, v, share)
    BY <1>7, SharesAreThePot DEF settle_duel, settle_tie, settle_win, settle_refund
  <2>4. escrow' \in [Room -> [Vault -> Nat]] /\ balance' \in [TokenAccount -> Nat]
    BY <2>3, PayTyped
  <2>5. opened' = opened
    BY <1>7 DEF settle_duel
  <2> QED
    BY <2>1, <2>2, <2>4, <2>5
<1>8. ASSUME NEW r \in Room, NEW p \in Player, NEW a \in TokenAccount,
             NEW v \in Vault, cancel_duel(r, p, a, v)
      PROVE  TypeOK'
  <2>1. PlatformTypeOK' /\ now' = now /\ entry' = entry
    BY <1>8 DEF cancel_duel, CanCancel, platformVars, PlatformTypeOK
  <2>2. room[r].stake_amount \in Nat
    BY DEF RoomRecord
  <2>3. room' \in [Room -> RoomRecord]
    BY <1>8, RoomUpdates DEF cancel_duel, CanCancel
  <2>4. escrow' \in [Room -> [Vault -> Nat]] /\ balance' \in [TokenAccount -> Nat]
    BY <1>8, <2>2 DEF cancel_duel, CanCancel
  <2>5. opened' = opened
    BY <1>8 DEF cancel_duel
  <2> QED
    BY <2>1, <2>3, <2>4, <2>5
<1>9. CASE Tick
  BY <1>9, DuelAssumption DEF Tick, platformVars, duelVars, PlatformTypeOK
<1>11. CASE OpenAnyVault
  BY <1>11, OpenEffect
<1>10. CASE UNCHANGED vars
  BY <1>10 DEF vars, PlatformTypeOK
<1> QED
  BY <1>1, <1>2, <1>3, <1>4, <1>5, <1>6, <1>7, <1>8, <1>9, <1>10, <1>11, AccountsTyped
  DEF Next, CreateDuel, JoinDuel, SetDuelWord, CommitDuelSolution,
      RevealDuelSolution, SettleDuel, CancelDuel

(***************************************************************************)
(* Every account of the program always holds a value of its type; in       *)
(* particular no balance of a wallet or a vault ever goes below zero.       *)
(***************************************************************************)
THEOREM TypeCorrect == Spec => []TypeOK
BY TypeOKInit, TypeOKStep, PTL DEF Spec

-----------------------------------------------------------------------------
(* What each instruction does to the room it names and to the others.      *)

LEMMA CreateEffect ==
  ASSUME TypeOK, NEW r \in Room, NEW d \in DayIndex, NEW stake \in StakeInput,
         NEW offset \in OffsetInput, NEW a \in TokenAccount,
         create_duel(r, d, stake, offset, a)
  PROVE  /\ room'[r].creator \in Player
         /\ room'[r].opponent = DefaultPubkey
         /\ room'[r].status = "Active"
         /\ room'[r].stake_amount = stake
         /\ escrow'[r] = PaidInto(escrow[r], RoomAta[MintOf[a]], stake)
         /\ opened'[r] = opened[r] \cup {RoomAta[MintOf[a]]}
         /\ \A p \in Player \ {r[1]} : entry'[r][p] = entry[r][p]
         /\ entry'[r][r[1]] = StartedEntry(r[1])
         /\ \A q \in Room \ {r} :
              room'[q] = room[q] /\ entry'[q] = entry[q] /\ escrow'[q] = escrow[q]
         /\ \A q \in Room \ {r} : opened'[q] = opened[q]
BY RoomKeys, AtasAreVaults DEF create_duel, TypeOK, ZeroRoom, PaidInto

LEMMA JoinEffect ==
  ASSUME TypeOK, NEW r \in Room, NEW p \in Player, NEW a \in TokenAccount,
         NEW v \in Vault, join_duel(r, p, a, v)
  PROVE  /\ room'[r].creator = room[r].creator
         /\ room'[r].opponent = p
         /\ room'[r].status = room[r].status
         /\ room'[r].stake_amount = room[r].stake_amount
         /\ room'[r].deadline = room[r].deadline
         /\ room'[r].word_set = room[r].word_set
         /\ room'[r].room_solution_hash = room[r].room_solution_hash
         /\ room'[r].duel_solution_hash = room[r].duel_solution_hash
         /\ escrow'[r] = PaidInto(escrow[r], v, room[r].stake_amount)
         /\ entry'[r][p] = StartedEntry(p)
         /\ \A q \in Player \ {p} : entry'[r][q] = entry[r][q]
         /\ \A q \in Room \ {r} :
              room'[q] = room[q] /\ entry'[q] = entry[q] /\ escrow'[q] = escrow[q]
BY DEF join_duel, TypeOK, RoomRecord, PaidInto

LEMMA SetWordEffect ==
  ASSUME TypeOK, NEW r \in Room, NEW w \in Wallet,
         NEW h \in DuelSolutionHashes \cup {ZERO}, set_duel_word(r, w, h)
  PROVE  /\ room'[r].creator = room[r].creator
         /\ room'[r].opponent = room[r].opponent
         /\ room'[r].status = room[r].status
         /\ room'[r].stake_amount = room[r].stake_amount
         /\ room'[r].deadline = room[r].deadline
         /\ room'[r].room_solution_hash = room[r].room_solution_hash
         /\ room'[r].word_set
         /\ \A q \in Room \ {r} : room'[q] = room[q]
BY DEF set_duel_word, TypeOK, RoomRecord

LEMMA CommitEffect ==
  ASSUME TypeOK, NEW r \in Room, NEW p \in Player,
         NEW h \in CommitHashes \cup {ZERO}, commit_duel_solution(r, p, h)
  PROVE  /\ entry'[r][p].player = entry[r][p].player
         /\ entry'[r][p].join_unix_timestamp = entry[r][p].join_unix_timestamp
         /\ entry'[r][p].commit_hash = h
         /\ entry'[r][p].commit_timestamp = now
         /\ entry'[r][p].revealed = entry[r][p].revealed
         /\ \A q \in Player \ {p} : entry'[r][q] = entry[r][q]
         /\ \A q \in Room \ {r} : entry'[q] = entry[q]
BY DEF commit_duel_solution, TypeOK, EntryRecord

LEMMA RevealEffect ==
  ASSUME TypeOK, NEW r \in Room, NEW p \in Player, NEW word \in Word,
         NEW salt \in Salt, reveal_duel_solution(r, p, word, salt)
  PROVE  /\ entry'[r][p].join_unix_timestamp = entry[r][p].join_unix_timestamp
         /\ entry'[r][p].commit_hash = entry[r][p].commit_hash
         /\ entry'[r][p].commit_timestamp = entry[r][p].commit_timestamp
         /\ entry'[r][p].revealed
         /\ \A q \in Player \ {p} : entry'[r][q] = entry[r][q]
         /\ \A q \in Room \ {r} : entry'[q] = entry[q]
<1>1. entry \in [Room -> [Player -> EntryRecord]] /\ entry[r][p] \in EntryRecord
  BY DEF TypeOK
<1> DEFINE shown == [entry[r][p] EXCEPT !.revealed = TRUE]
<1>2. entry' = [entry EXCEPT ![r][p] = shown]
  BY DEF reveal_duel_solution
<1>3. /\ shown.join_unix_timestamp = entry[r][p].join_unix_timestamp
      /\ shown.commit_hash = entry[r][p].commit_hash
      /\ shown.commit_timestamp = entry[r][p].commit_timestamp
      /\ shown.revealed
  BY <1>1 DEF EntryRecord
<1> HIDE DEF shown
<1> QED
  BY <1>1, <1>2, <1>3

(***************************************************************************)
(* What StakesPlaced says of the amounts, vault by vault.                  *)
(***************************************************************************)
LEMMA PlacedStakes ==
  ASSUME TypeOK, StakesPlaced, NEW r \in Room, Active(r)
  PROVE  /\ ~Joined(r) => \E x \in Vault : \A u \in Vault :
              escrow[r][u] = IF u = x THEN room[r].stake_amount ELSE 0
         /\ Joined(r) => \E x, y \in Vault : \A u \in Vault :
              escrow[r][u] = (IF u = x THEN room[r].stake_amount ELSE 0)
                               + (IF u = y THEN room[r].stake_amount ELSE 0)
<1>1. room[r].stake_amount \in Nat
  BY DEF TypeOK, RoomRecord
<1>2. \A x, u \in Vault :
        OneStakeIn(r, x)[u] = IF u = x THEN room[r].stake_amount ELSE 0
  BY <1>1 DEF OneStakeIn, PaidInto, EmptyVaults
<1>3. \A x, y, u \in Vault :
        TwoStakesIn(r, x, y)[u] = OneStakeIn(r, x)[u]
                                    + (IF u = y THEN room[r].stake_amount ELSE 0)
  BY <1>1 DEF TwoStakesIn, OneStakeIn, PaidInto, EmptyVaults
<1>4. ASSUME ~Joined(r)
      PROVE  \E x \in Vault : \A u \in Vault :
               escrow[r][u] = IF u = x THEN room[r].stake_amount ELSE 0
  <2>1. PICK x \in Vault : escrow[r] = OneStakeIn(r, x)
    BY <1>4 DEF StakesPlaced, StakePlaced, OpeningVaults
  <2> QED
    BY <1>2, <2>1
<1>5. ASSUME Joined(r)
      PROVE  \E x, y \in Vault : \A u \in Vault :
               escrow[r][u] = (IF u = x THEN room[r].stake_amount ELSE 0)
                                + (IF u = y THEN room[r].stake_amount ELSE 0)
  <2>1. PICK x \in Vault, y \in Vault : escrow[r] = TwoStakesIn(r, x, y)
    BY <1>5 DEF StakesPlaced, StakePlaced, OpeningVaults
  <2> QED
    BY <1>2, <1>3, <2>1
<1> QED
  BY <1>4, <1>5

LEMMA SettleEffect ==
  ASSUME TypeOK, StakesPlaced, NEW r \in Room, NEW keeper \in Wallet,
         NEW c \in TokenAccount, NEW o \in TokenAccount,
         NEW k \in TokenAccount, NEW p \in TokenAccount,
         NEW v \in Vault, settle_duel(r, keeper, c, o, k, p, v)
  PROVE  /\ room'[r].creator = room[r].creator
         /\ room'[r].opponent = room[r].opponent
         /\ room'[r].status \in {"Settled", "Refunded"}
         /\ room'[r].stake_amount = room[r].stake_amount
         /\ room'[r].deadline = room[r].deadline
         /\ room'[r].word_set = room[r].word_set
         /\ room'[r].room_solution_hash = room[r].room_solution_hash
         /\ room'[r].duel_solution_hash = room[r].duel_solution_hash
         /\ escrow'[r] = EmptyVaults
         /\ \A q \in Room \ {r} : room'[q] = room[q] /\ escrow'[q] = escrow[q]
         /\ \E share \in Amounts : /\ Total(share) = Pot(r)
                                   /\ Pay(r, c, o, k, p, v, share)
<1>1. PICK share \in Amounts : /\ Total(share) = Pot(r)
                               /\ Pay(r, c, o, k, p, v, share)
  BY SharesAreThePot DEF settle_duel, settle_tie, settle_win, settle_refund
<1>2. \E x, y \in Vault : \A u \in Vault :
        escrow[r][u] = (IF u = x THEN room[r].stake_amount ELSE 0)
                         + (IF u = y THEN room[r].stake_amount ELSE 0)
  BY PlacedStakes DEF settle_duel
<1>3. escrow'[r] = EmptyVaults /\ \A q \in Room \ {r} : escrow'[q] = escrow[q]
  <2>1. room[r].stake_amount \in Nat
    BY DEF TypeOK, RoomRecord
  <2>2. \A u \in Vault :
          escrow'[r][u] = IF u = v THEN escrow[r][u] - Pot(r) ELSE escrow[r][u]
    BY <1>1 DEF Pay, TypeOK
  <2>3. escrow[r][v] >= Pot(r)
    BY <1>1 DEF Pay
  <2>4. \A u \in Vault : escrow'[r][u] = 0
    <3> DEFINE s == room[r].stake_amount
    <3>1. PICK x \in Vault, y \in Vault : \A u \in Vault :
            escrow[r][u] = (IF u = x THEN s ELSE 0) + (IF u = y THEN s ELSE 0)
      BY <1>2
    <3>2. Pot(r) = s + s
      BY <2>1 DEF Pot
    <3> HIDE DEF s
    <3>3. s \in Nat
      BY <2>1 DEF s
    <3>4. s = 0 \/ (v = x /\ v = y)
      BY <2>3, <3>1, <3>2, <3>3
    <3> QED
      BY <2>2, <3>1, <3>2, <3>3, <3>4
  <2>5. escrow' \in [Room -> [Vault -> Nat]]
    BY <1>1, PayTyped
  <2>6. \A q \in Room \ {r} : escrow'[q] = escrow[q]
    BY <1>1 DEF Pay, TypeOK
  <2> QED
    BY <2>4, <2>5, <2>6 DEF EmptyVaults
<1>4. PICK s \in {"Settled", "Refunded"} :
        \E w : room' = [room EXCEPT ![r].status = s, ![r].winner = w]
  BY DEF settle_duel, settle_tie, settle_win, settle_refund, Close
<1> QED
  BY <1>1, <1>3, <1>4 DEF TypeOK, RoomRecord

LEMMA CancelEffect ==
  ASSUME TypeOK, StakesPlaced, NEW r \in Room, NEW p \in Player,
         NEW a \in TokenAccount, NEW v \in Vault, cancel_duel(r, p, a, v)
  PROVE  /\ room'[r].creator = room[r].creator
         /\ room'[r].opponent = room[r].opponent
         /\ room'[r].status = "Refunded"
         /\ room'[r].stake_amount = room[r].stake_amount
         /\ room'[r].deadline = room[r].deadline
         /\ room'[r].word_set = room[r].word_set
         /\ room'[r].room_solution_hash = room[r].room_solution_hash
         /\ room'[r].duel_solution_hash = room[r].duel_solution_hash
         /\ escrow'[r] = EmptyVaults
         /\ \A q \in Room \ {r} : room'[q] = room[q] /\ escrow'[q] = escrow[q]
<1>1. PICK x \in Vault : \A u \in Vault :
        escrow[r][u] = IF u = x THEN room[r].stake_amount ELSE 0
  BY PlacedStakes DEF cancel_duel, CanCancel, Cancellable
<1>2. escrow'[r] = EmptyVaults /\ \A q \in Room \ {r} : escrow'[q] = escrow[q]
  <2>1. room[r].stake_amount \in Nat
    BY DEF TypeOK, RoomRecord
  <2>2. \A u \in Vault :
          escrow'[r][u] = IF u = v THEN escrow[r][u] - room[r].stake_amount
                                   ELSE escrow[r][u]
    BY DEF cancel_duel, TypeOK
  <2>3. escrow[r][v] >= room[r].stake_amount
    BY DEF cancel_duel, CanCancel
  <2>4. \A u \in Vault : escrow'[r][u] = 0
    BY <1>1, <2>1, <2>2, <2>3
  <2>5. escrow'[r] = [u \in Vault |-> escrow'[r][u]]
    BY DEF cancel_duel, TypeOK
  <2> QED
    BY <2>4, <2>5 DEF EmptyVaults, cancel_duel, TypeOK
<1> QED
  BY <1>2 DEF cancel_duel, CanCancel, TypeOK, RoomRecord

-----------------------------------------------------------------------------
(* The inductive invariant.                                                *)

LEMMA IInvInit == Init => IInv
<1> SUFFICES ASSUME Init PROVE IInv
  OBVIOUS
<1>1. TypeOK
  BY TypeOKInit
<1>2. \A r \in Room : room[r] = ZeroRoom /\ escrow[r] = EmptyVaults
                      /\ \A p \in Player : entry[r][p] = ZeroEntry
  BY DEF Init
<1>3. \A r \in Room : ~Exists(r) /\ ~Joined(r) /\ ~Active(r)
  BY <1>2 DEF Exists, Joined, Active, ZeroRoom
<1>4. BlankRooms /\ StakeInBounds /\ SeatTakenInTime
  BY <1>2, <1>3 DEF BlankRooms, StakeInBounds, SeatTakenInTime
<1>5. StakesPlaced
  BY <1>2, <1>3 DEF StakesPlaced, StakePlaced
<1>6. CommitTimeline /\ RevealedProvesWord
  BY <1>2 DEF CommitTimeline, RevealedProvesWord, ZeroEntry
<1> QED
  BY <1>1, <1>4, <1>5, <1>6 DEF IInv

\* No wallet has the key of nobody.
LEMMA PlayersAreSomebody == \A p \in Player : p # DefaultPubkey
BY PlatformAssumption, DuelAssumption

(***************************************************************************)
(* A room whose members and vaults a step leaves alone keeps its stakes    *)
(* where they are, and a room that is emptied as it is closed owes none.   *)
(***************************************************************************)
LEMMA StakesStay ==
  ASSUME StakesPlaced, NEW q \in Room, escrow'[q] = escrow[q],
         opened[q] \subseteq opened'[q], Active(q)' = Active(q),
         room'[q].creator = room[q].creator, room'[q].opponent = room[q].opponent,
         room'[q].stake_amount = room[q].stake_amount
  PROVE  StakePlaced(q)'
<1>1. OpeningVaults(q) \subseteq OpeningVaults(q)'
  BY DEF OpeningVaults, VaultOf, SameMint, AccountsOf
<1>2. \A c, o : /\ OneStakeIn(q, c)' = OneStakeIn(q, c)
               /\ TwoStakesIn(q, c, o)' = TwoStakesIn(q, c, o)
  BY DEF OneStakeIn, TwoStakesIn, PaidInto, EmptyVaults
<1>3. EmptyVaults' = EmptyVaults /\ Joined(q)' = Joined(q)
  BY DEF EmptyVaults, Joined
<1> QED
  BY <1>1, <1>2, <1>3 DEF StakesPlaced, StakePlaced

LEMMA StakesGone ==
  ASSUME NEW q \in Room, escrow'[q] = EmptyVaults, ~Active(q)'
  PROVE  StakePlaced(q)'
BY DEF StakePlaced, EmptyVaults

LEMMA StakesPlacedStep == IInv /\ [Next]_vars => StakesPlaced'
<1> SUFFICES ASSUME IInv, [Next]_vars, NEW q \in Room
             PROVE  StakePlaced(q)'
  BY DEF StakesPlaced
<1> TypeOK /\ StakesPlaced
  BY DEF IInv
<1> DEFINE Goal == StakePlaced(q)'
<1>1. ASSUME room'[q] = room[q], escrow'[q] = escrow[q],
             opened[q] \subseteq opened'[q]
      PROVE  StakePlaced(q)'
  BY <1>1, StakesStay DEF Active, Exists
<1>2. ASSUME NEW r \in Room, NEW d \in DayIndex, NEW stake \in StakeInput,
             NEW offset \in OffsetInput, NEW a \in TokenAccount,
             create_duel(r, d, stake, offset, a)
      PROVE  Goal
  <2>1. CASE q = r
    <3> DEFINE v == RoomAta[MintOf[a]]
    <3>1. escrow[r] = EmptyVaults
      BY <1>2 DEF create_duel, StakesPlaced, StakePlaced, Active
    <3>8. escrow'[r] = PaidInto(escrow[r], v, stake) /\ room'[r].stake_amount = stake
      BY <1>2, CreateEffect
    <3>9. ~Joined(r)'
      BY <1>2, CreateEffect DEF Joined
    <3>2. escrow'[r] = OneStakeIn(r, v)' /\ ~Joined(r)'
      <4> HIDE DEF v
      <4> QED
        BY <3>1, <3>8, <3>9 DEF OneStakeIn, EmptyVaults, PaidInto
    <3>3. room'[r].creator = r[1] /\ a \in AccountsOf(r[1])
      BY <1>2 DEF create_duel, TypeOK, ZeroRoom
    <3>4. v \in Vault /\ MintOf[v] = MintOf[a]
      BY DuelAssumption
    <3>5. v \in opened'[r]
      BY <1>2, CreateEffect
    <3>6. v \in OpeningVaults(r)'
      BY <3>3, <3>4, <3>5 DEF OpeningVaults, VaultOf, SameMint, AccountsOf
    <3>7. Active(r)'
      BY <1>2, CreateEffect, PlayersAreSomebody DEF Active, Exists
    <3> QED
      BY <2>1, <3>2, <3>6, <3>7 DEF StakePlaced
  <2>2. CASE q # r
    BY <1>1, <1>2, <2>2, CreateEffect
  <2> QED
    BY <2>1, <2>2
<1>3. ASSUME NEW r \in Room, NEW p \in Player, NEW a \in TokenAccount,
             NEW v \in Vault, join_duel(r, p, a, v)
      PROVE  Goal
  <2>1. opened' = opened
    BY <1>3 DEF join_duel
  <2>2. CASE q = r
    <3>1. Active(r) /\ ~Joined(r)
      BY <1>3 DEF join_duel, SeatFree
    <3>2. PICK c \in OpeningVaults(r) : escrow[r] = OneStakeIn(r, c)
      BY <3>1 DEF StakesPlaced, StakePlaced
    <3>3. c \in OpeningVaults(r)'
      BY <1>3, <2>1, <3>2, JoinEffect DEF OpeningVaults, VaultOf, SameMint, AccountsOf
    <3>6. /\ escrow'[r] = PaidInto(escrow[r], v, room[r].stake_amount)
          /\ room'[r].stake_amount = room[r].stake_amount
      BY <1>3, JoinEffect
    <3>4. escrow'[r] = TwoStakesIn(r, c, v)'
      BY <3>2, <3>6 DEF TwoStakesIn, OneStakeIn, PaidInto, EmptyVaults
    <3>5. Active(r)' /\ Joined(r)'
      BY <1>3, <3>1, JoinEffect, PlayersAreSomebody DEF Active, Exists, Joined
    <3> QED
      BY <2>2, <3>3, <3>4, <3>5 DEF StakePlaced
  <2>3. CASE q # r
    BY <1>1, <1>3, <2>1, <2>3, JoinEffect
  <2> QED
    BY <2>2, <2>3
<1>4. ASSUME NEW r \in Room, NEW w \in Wallet,
             NEW h \in DuelSolutionHashes \cup {ZERO}, set_duel_word(r, w, h)
      PROVE  Goal
  <2>1. escrow' = escrow /\ opened' = opened
    BY <1>4 DEF set_duel_word, tokenVars
  <2>2. /\ room'[q].creator = room[q].creator
        /\ room'[q].opponent = room[q].opponent
        /\ room'[q].status = room[q].status
        /\ room'[q].stake_amount = room[q].stake_amount
    BY <1>4, SetWordEffect
  <2> QED
    BY <2>1, <2>2, StakesStay DEF Active, Exists
<1>5. ASSUME NEW r \in Room, NEW p \in Player,
             NEW h \in CommitHashes \cup {ZERO}, commit_duel_solution(r, p, h)
      PROVE  Goal
  BY <1>1, <1>5 DEF commit_duel_solution, tokenVars
<1>6. ASSUME NEW r \in Room, NEW p \in Player, NEW word \in Word,
             NEW salt \in Salt, reveal_duel_solution(r, p, word, salt)
      PROVE  Goal
  BY <1>1, <1>6 DEF reveal_duel_solution, tokenVars
<1>7. ASSUME NEW r \in Room, NEW keeper \in Wallet,
             NEW c \in TokenAccount, NEW o \in TokenAccount,
             NEW k \in TokenAccount, NEW p \in TokenAccount,
             NEW v \in Vault, settle_duel(r, keeper, c, o, k, p, v)
      PROVE  Goal
  <2>1. opened' = opened
    BY <1>7 DEF settle_duel
  <2>2. CASE q = r
    BY <1>7, <2>2, SettleEffect, StakesGone DEF Active
  <2>3. CASE q # r
    BY <1>1, <1>7, <2>1, <2>3, SettleEffect
  <2> QED
    BY <2>2, <2>3
<1>8. ASSUME NEW r \in Room, NEW p \in Player, NEW a \in TokenAccount,
             NEW v \in Vault, cancel_duel(r, p, a, v)
      PROVE  Goal
  <2>1. opened' = opened
    BY <1>8 DEF cancel_duel
  <2>2. CASE q = r
    BY <1>8, <2>2, CancelEffect, StakesGone DEF Active
  <2>3. CASE q # r
    BY <1>1, <1>8, <2>1, <2>3, CancelEffect
  <2> QED
    BY <2>2, <2>3
<1>9. CASE UNCHANGED duelVars
  BY <1>1, <1>9 DEF duelVars
<1>10. CASE Tick
  BY <1>9, <1>10 DEF Tick
<1>11. CASE OpenAnyVault
  <2>1. opened[q] \subseteq opened'[q]
    BY <1>11, OpenEffect DEF TypeOK
  <2> QED
    BY <1>1, <1>11, <2>1, OpenEffect
<1>12. CASE UNCHANGED vars
  BY <1>9, <1>12 DEF vars, duelVars
<1> QED
  BY <1>2, <1>3, <1>4, <1>5, <1>6, <1>7, <1>8, <1>9, <1>10, <1>11, <1>12, AccountsTyped
  DEF Next, CreateDuel, JoinDuel, SetDuelWord, CommitDuelSolution,
      RevealDuelSolution, SettleDuel, CancelDuel

\* What is known of a room once it exists is kept; what is blank stays blank.
LEMMA BlankStep == IInv /\ [Next]_vars => BlankRooms'
<1> SUFFICES ASSUME IInv, [Next]_vars, NEW q \in Room, ~Exists(q)'
             PROVE  /\ room'[q] = ZeroRoom
                    /\ \A x \in Player : entry'[q][x] = ZeroEntry
  BY DEF BlankRooms, Exists
<1> TypeOK /\ StakesPlaced /\ BlankRooms
  BY DEF IInv
<1> DEFINE Goal == /\ room'[q] = ZeroRoom
                   /\ \A x \in Player : entry'[q][x] = ZeroEntry
<1> USE DEF Exists, Active
<1>0. ~Exists(q) => room[q] = ZeroRoom /\ \A x \in Player : entry[q][x] = ZeroEntry
  BY DEF BlankRooms
<1>1. CASE PlatformNext /\ UNCHANGED <<now, duelVars>>
  BY <1>0, <1>1 DEF duelVars
<1>2. ASSUME NEW r \in Room, NEW d \in DayIndex, NEW stake \in StakeInput,
             NEW offset \in OffsetInput, NEW a \in TokenAccount,
             create_duel(r, d, stake, offset, a)
      PROVE  Goal
  BY <1>0, <1>2, CreateEffect, PlayersAreSomebody
<1>3. ASSUME NEW r \in Room, NEW p \in Player, NEW a \in TokenAccount,
             NEW v \in Vault, join_duel(r, p, a, v)
      PROVE  Goal
  BY <1>0, <1>3, JoinEffect DEF join_duel
<1>4. ASSUME NEW r \in Room, NEW w \in Wallet,
             NEW h \in DuelSolutionHashes \cup {ZERO}, set_duel_word(r, w, h)
      PROVE  Goal
  <2>1. room'[r].creator # DefaultPubkey
    BY <1>4, SetWordEffect DEF set_duel_word
  <2>2. q # r /\ room'[q] = room[q] /\ entry' = entry
    BY <1>4, <2>1, SetWordEffect DEF set_duel_word
  <2> QED
    BY <1>0, <2>2
<1>5. ASSUME NEW r \in Room, NEW p \in Player,
             NEW h \in CommitHashes \cup {ZERO}, commit_duel_solution(r, p, h)
      PROVE  Goal
  BY <1>0, <1>5, CommitEffect DEF commit_duel_solution, ReadyToCommit
<1>6. ASSUME NEW r \in Room, NEW p \in Player, NEW word \in Word,
             NEW salt \in Salt, reveal_duel_solution(r, p, word, salt)
      PROVE  Goal
  BY <1>0, <1>6, RevealEffect DEF reveal_duel_solution
<1>7. ASSUME NEW r \in Room, NEW keeper \in Wallet,
             NEW c \in TokenAccount, NEW o \in TokenAccount,
             NEW k \in TokenAccount, NEW p \in TokenAccount,
             NEW v \in Vault, settle_duel(r, keeper, c, o, k, p, v)
      PROVE  Goal
  BY <1>0, <1>7, SettleEffect DEF settle_duel
<1>8. ASSUME NEW r \in Room, NEW p \in Player, NEW a \in TokenAccount,
             NEW v \in Vault, cancel_duel(r, p, a, v)
      PROVE  Goal
  BY <1>0, <1>8, CancelEffect DEF cancel_duel, CanCancel, Cancellable
<1>9. CASE Tick
  BY <1>0, <1>9 DEF Tick, duelVars
<1>11. CASE OpenAnyVault
  BY <1>0, <1>11, OpenEffect
<1>10. CASE UNCHANGED vars
  BY <1>0, <1>10 DEF vars
<1> QED
  BY <1>1, <1>2, <1>3, <1>4, <1>5, <1>6, <1>7, <1>8, <1>9, <1>10, <1>11, AccountsTyped
  DEF Next, CreateDuel, JoinDuel, SetDuelWord, CommitDuelSolution,
      RevealDuelSolution, SettleDuel, CancelDuel

LEMMA StakeStep == IInv /\ [Next]_vars => StakeInBounds'
<1> SUFFICES ASSUME IInv, [Next]_vars, NEW q \in Room, Exists(q)'
             PROVE  Configured' /\ room'[q].stake_amount <= config'.max_stake_usdc
  BY DEF StakeInBounds, Exists
<1> TypeOK /\ StakesPlaced /\ StakeInBounds
  BY DEF IInv
<1> DEFINE Goal == Configured' /\ room'[q].stake_amount <= config'.max_stake_usdc
<1> USE DEF Exists, Configured
<1>0. Exists(q) => Configured /\ room[q].stake_amount <= config.max_stake_usdc
  BY DEF StakeInBounds
<1>1. CASE PlatformNext /\ UNCHANGED <<now, duelVars>>
  <2>1. Exists(q) /\ room'[q] = room[q]
    BY <1>1 DEF duelVars
  <2>2. config' = config
    BY <1>0, <1>1, <2>1 DEF PlatformNext, initialize_config, initialize_day
  <2> QED
    BY <1>0, <2>1, <2>2
<1>2. ASSUME NEW r \in Room, NEW d \in DayIndex, NEW stake \in StakeInput,
             NEW offset \in OffsetInput, NEW a \in TokenAccount,
             create_duel(r, d, stake, offset, a)
      PROVE  Goal
  <2>1. config' = config
    BY <1>2 DEF create_duel, platformVars
  <2>2. CASE q = r
    <3>1. Configured /\ stake <= config.max_stake_usdc
      <4>1. config.min_stake_usdc \in Nat /\ config.max_stake_usdc \in Nat
        BY ConfigTyped DEF TypeOK
      <4> QED
        BY <1>2, <4>1 DEF create_duel, StakeInRange
    <3> QED
      BY <1>2, <2>1, <2>2, <3>1, CreateEffect
  <2>3. CASE q # r
    BY <1>0, <1>2, <2>1, <2>3, CreateEffect
  <2> QED
    BY <2>2, <2>3
<1>3. ASSUME NEW r \in Room, NEW p \in Player, NEW a \in TokenAccount,
             NEW v \in Vault, join_duel(r, p, a, v)
      PROVE  Goal
  BY <1>0, <1>3, JoinEffect DEF join_duel, platformVars
<1>4. ASSUME NEW r \in Room, NEW w \in Wallet,
             NEW h \in DuelSolutionHashes \cup {ZERO}, set_duel_word(r, w, h)
      PROVE  Goal
  BY <1>0, <1>4, SetWordEffect DEF set_duel_word, platformVars
<1>5. ASSUME NEW r \in Room, NEW p \in Player,
             NEW h \in CommitHashes \cup {ZERO}, commit_duel_solution(r, p, h)
      PROVE  Goal
  BY <1>0, <1>5 DEF commit_duel_solution, platformVars
<1>6. ASSUME NEW r \in Room, NEW p \in Player, NEW word \in Word,
             NEW salt \in Salt, reveal_duel_solution(r, p, word, salt)
      PROVE  Goal
  BY <1>0, <1>6 DEF reveal_duel_solution, platformVars
<1>7. ASSUME NEW r \in Room, NEW keeper \in Wallet,
             NEW c \in TokenAccount, NEW o \in TokenAccount,
             NEW k \in TokenAccount, NEW p \in TokenAccount,
             NEW v \in Vault, settle_duel(r, keeper, c, o, k, p, v)
      PROVE  Goal
  BY <1>0, <1>7, SettleEffect DEF settle_duel, platformVars
<1>8. ASSUME NEW r \in Room, NEW p \in Player, NEW a \in TokenAccount,
             NEW v \in Vault, cancel_duel(r, p, a, v)
      PROVE  Goal
  BY <1>0, <1>8, CancelEffect DEF cancel_duel, CanCancel, platformVars
<1>9. CASE Tick
  BY <1>0, <1>9 DEF Tick, duelVars, platformVars
<1>11. CASE OpenAnyVault
  BY <1>0, <1>11, OpenEffect
<1>10. CASE UNCHANGED vars
  BY <1>0, <1>10 DEF vars
<1> QED
  BY <1>1, <1>2, <1>3, <1>4, <1>5, <1>6, <1>7, <1>8, <1>9, <1>10, <1>11, AccountsTyped
  DEF Next, CreateDuel, JoinDuel, SetDuelWord, CommitDuelSolution,
      RevealDuelSolution, SettleDuel, CancelDuel

LEMMA SeatStep == IInv /\ [Next]_vars => SeatTakenInTime'
<1> SUFFICES ASSUME IInv, [Next]_vars, NEW q \in Room, Joined(q)'
             PROVE  /\ room'[q].opponent \in Player \ {room'[q].creator}
                    /\ entry'[q][room'[q].opponent].join_unix_timestamp <= now'
                    /\ entry'[q][room'[q].opponent].join_unix_timestamp
                         < room'[q].deadline
  BY DEF SeatTakenInTime, Joined, OpponentEntry
<1> TypeOK /\ StakesPlaced /\ SeatTakenInTime
  BY DEF IInv
<1> DEFINE Goal == /\ room'[q].opponent \in Player \ {room'[q].creator}
                   /\ entry'[q][room'[q].opponent].join_unix_timestamp <= now'
                   /\ entry'[q][room'[q].opponent].join_unix_timestamp
                        < room'[q].deadline
<1> USE DEF Joined
<1>0. Joined(q) => /\ room[q].opponent \in Player \ {room[q].creator}
                   /\ entry[q][room[q].opponent].join_unix_timestamp <= now
                   /\ entry[q][room[q].opponent].join_unix_timestamp < room[q].deadline
  BY DEF SeatTakenInTime, OpponentEntry
<1>n. now \in Nat
  BY DuelAssumption DEF TypeOK
<1>1. CASE PlatformNext /\ UNCHANGED <<now, duelVars>>
  BY <1>0, <1>1 DEF duelVars
<1>2. ASSUME NEW r \in Room, NEW d \in DayIndex, NEW stake \in StakeInput,
             NEW offset \in OffsetInput, NEW a \in TokenAccount,
             create_duel(r, d, stake, offset, a)
      PROVE  Goal
  BY <1>0, <1>2, CreateEffect DEF create_duel
<1>3. ASSUME NEW r \in Room, NEW p \in Player, NEW a \in TokenAccount,
             NEW v \in Vault, join_duel(r, p, a, v)
      PROVE  Goal
  <2>1. CASE q = r
    <3>1. StartedEntry(p).join_unix_timestamp = now
      BY DEF StartedEntry
    <3>2. now' = now /\ now < room[r].deadline /\ p # room[r].creator
      BY <1>3 DEF join_duel, JoinWindow
    <3> QED
      BY <1>3, <1>n, <2>1, <3>1, <3>2, JoinEffect
  <2>2. CASE q # r
    BY <1>0, <1>3, <2>2, JoinEffect DEF join_duel
  <2> QED
    BY <2>1, <2>2
<1>4. ASSUME NEW r \in Room, NEW w \in Wallet,
             NEW h \in DuelSolutionHashes \cup {ZERO}, set_duel_word(r, w, h)
      PROVE  Goal
  BY <1>0, <1>4, SetWordEffect DEF set_duel_word
<1>5. ASSUME NEW r \in Room, NEW p \in Player,
             NEW h \in CommitHashes \cup {ZERO}, commit_duel_solution(r, p, h)
      PROVE  Goal
  <2>1. room' = room /\ now' = now
    BY <1>5 DEF commit_duel_solution
  <2>2. \A x \in Player :
          entry'[q][x].join_unix_timestamp = entry[q][x].join_unix_timestamp
    BY <1>5, CommitEffect
  <2> QED
    BY <1>0, <2>1, <2>2
<1>6. ASSUME NEW r \in Room, NEW p \in Player, NEW word \in Word,
             NEW salt \in Salt, reveal_duel_solution(r, p, word, salt)
      PROVE  Goal
  BY <1>0, <1>6, RevealEffect DEF reveal_duel_solution
<1>7. ASSUME NEW r \in Room, NEW keeper \in Wallet,
             NEW c \in TokenAccount, NEW o \in TokenAccount,
             NEW k \in TokenAccount, NEW p \in TokenAccount,
             NEW v \in Vault, settle_duel(r, keeper, c, o, k, p, v)
      PROVE  Goal
  BY <1>0, <1>7, SettleEffect DEF settle_duel
<1>8. ASSUME NEW r \in Room, NEW p \in Player, NEW a \in TokenAccount,
             NEW v \in Vault, cancel_duel(r, p, a, v)
      PROVE  Goal
  BY <1>0, <1>8, CancelEffect DEF cancel_duel, CanCancel
<1>9. CASE Tick
  <2>1. entry[q][room[q].opponent].join_unix_timestamp \in Nat
    BY <1>0, <1>9 DEF Tick, duelVars, TypeOK, EntryRecord
  <2> QED
    BY <1>0, <1>9, <1>n, <2>1 DEF Tick, duelVars
<1>11. CASE OpenAnyVault
  BY <1>0, <1>11, OpenEffect
<1>10. CASE UNCHANGED vars
  BY <1>0, <1>10 DEF vars
<1> QED
  BY <1>1, <1>2, <1>3, <1>4, <1>5, <1>6, <1>7, <1>8, <1>9, <1>10, <1>11, AccountsTyped
  DEF Next, CreateDuel, JoinDuel, SetDuelWord, CommitDuelSolution,
      RevealDuelSolution, SettleDuel, CancelDuel

(***************************************************************************)
(* A commitment keeps its place in time: no instruction moves a start, a   *)
(* seat, a word or a deadline under a commitment that was already made.    *)
(***************************************************************************)
LEMMA TimelineStep == IInv /\ [Next]_vars => CommitTimeline'
<1> SUFFICES ASSUME IInv, [Next]_vars, NEW q \in Room, NEW x \in Player,
                    entry'[q][x].commit_hash # ZERO
             PROVE  /\ Joined(q)'
                    /\ room'[q].word_set
                    /\ Participant(q, x)'
                    /\ entry'[q][x].commit_timestamp
                         >= entry'[q][x].join_unix_timestamp + MIN_SOLVE_SECONDS
                    /\ entry'[q][x].commit_timestamp
                         >= OpponentEntry(q)'.join_unix_timestamp
                    /\ OpponentEntry(q)'.join_unix_timestamp < room'[q].deadline
  BY DEF CommitTimeline
<1> TypeOK /\ StakesPlaced /\ SeatTakenInTime /\ CommitTimeline /\ BlankRooms
  BY DEF IInv
<1> DEFINE Goal == /\ Joined(q)'
                   /\ room'[q].word_set
                   /\ Participant(q, x)'
                   /\ entry'[q][x].commit_timestamp
                        >= entry'[q][x].join_unix_timestamp + MIN_SOLVE_SECONDS
                   /\ entry'[q][x].commit_timestamp
                        >= OpponentEntry(q)'.join_unix_timestamp
                   /\ OpponentEntry(q)'.join_unix_timestamp < room'[q].deadline
<1>0. entry[q][x].commit_hash # ZERO =>
        /\ Joined(q)
        /\ room[q].word_set
        /\ Participant(q, x)
        /\ entry[q][x].commit_timestamp
             >= entry[q][x].join_unix_timestamp + MIN_SOLVE_SECONDS
        /\ entry[q][x].commit_timestamp >= OpponentEntry(q).join_unix_timestamp
        /\ OpponentEntry(q).join_unix_timestamp < room[q].deadline
  BY DEF CommitTimeline
<1> USE DEF Joined, Participant, OpponentEntry
<1>1. CASE PlatformNext /\ UNCHANGED <<now, duelVars>>
  BY <1>0, <1>1 DEF duelVars
<1>2. ASSUME NEW r \in Room, NEW d \in DayIndex, NEW stake \in StakeInput,
             NEW offset \in OffsetInput, NEW a \in TokenAccount,
             create_duel(r, d, stake, offset, a)
      PROVE  Goal
  <2>1. CASE q = r
    <3>1. entry[q][x] = ZeroEntry
      BY <1>2, <2>1 DEF BlankRooms, create_duel
    <3>2. entry'[q][x].commit_hash = ZERO
      BY <1>2, <2>1, <3>1, CreateEffect, StartedEntryFresh, RoomKeys DEF ZeroEntry
    <3> QED
      BY <3>2
  <2>2. CASE q # r
    BY <1>0, <1>2, <2>2, CreateEffect
  <2> QED
    BY <2>1, <2>2
<1>3. ASSUME NEW r \in Room, NEW p \in Player, NEW a \in TokenAccount,
             NEW v \in Vault, join_duel(r, p, a, v)
      PROVE  Goal
  <2>1. CASE q = r
    <3>1. entry[q][x].commit_hash = ZERO
      BY <1>0, <1>3, <2>1 DEF join_duel, SeatFree
    <3>2. entry'[q][x].commit_hash = ZERO
      BY <1>3, <2>1, <3>1, JoinEffect, StartedEntryFresh
    <3> QED
      BY <3>2
  <2>2. CASE q # r
    BY <1>0, <1>3, <2>2, JoinEffect
  <2> QED
    BY <2>1, <2>2
<1>4. ASSUME NEW r \in Room, NEW w \in Wallet,
             NEW h \in DuelSolutionHashes \cup {ZERO}, set_duel_word(r, w, h)
      PROVE  Goal
  <2>1. entry' = entry
    BY <1>4 DEF set_duel_word
  <2>2. CASE q = r
    BY <1>0, <1>4, <2>1, <2>2, SetWordEffect
  <2>3. CASE q # r
    BY <1>0, <1>4, <2>1, <2>3, SetWordEffect
  <2> QED
    BY <2>2, <2>3
<1>5. ASSUME NEW r \in Room, NEW p \in Player,
             NEW h \in CommitHashes \cup {ZERO}, commit_duel_solution(r, p, h)
      PROVE  Goal
  <2>1. room' = room
    BY <1>5 DEF commit_duel_solution
  <2>2. CASE q = r /\ x = p
    <3>1. /\ Joined(q) /\ room[q].word_set /\ Participant(q, x)
          /\ now >= entry[q][x].join_unix_timestamp + MIN_SOLVE_SECONDS
      BY <1>5, <2>2 DEF commit_duel_solution, ReadyToCommit, SolveTimeElapsed
    <3>2. /\ room[q].opponent \in Player
          /\ entry[q][room[q].opponent].join_unix_timestamp <= now
          /\ entry[q][room[q].opponent].join_unix_timestamp < room[q].deadline
      BY <3>1 DEF SeatTakenInTime
    <3>3. /\ entry[q][room[q].opponent].join_unix_timestamp \in Nat
          /\ now \in Nat
      BY <3>2, DuelAssumption DEF TypeOK, EntryRecord
    <3>4. entry'[q][room[q].opponent].join_unix_timestamp
            = entry[q][room[q].opponent].join_unix_timestamp
      BY <1>5, <2>2, <3>2, CommitEffect
    <3>5. entry'[q][x].commit_timestamp = now
          /\ entry'[q][x].join_unix_timestamp = entry[q][x].join_unix_timestamp
      BY <1>5, <2>2, CommitEffect
    <3> QED
      BY <2>1, <3>1, <3>2, <3>3, <3>4, <3>5
  <2>3. CASE ~(q = r /\ x = p)
    <3>1. entry'[q][x] = entry[q][x]
      BY <1>5, <2>3, CommitEffect
    <3>2. room[q].opponent \in Player
      BY <1>0, <3>1 DEF SeatTakenInTime
    <3>3. entry'[q][room[q].opponent].join_unix_timestamp
            = entry[q][room[q].opponent].join_unix_timestamp
      BY <1>5, <3>2, CommitEffect
    <3> QED
      BY <1>0, <2>1, <3>1, <3>3
  <2> QED
    BY <2>2, <2>3
<1>6. ASSUME NEW r \in Room, NEW p \in Player, NEW word \in Word,
             NEW salt \in Salt, reveal_duel_solution(r, p, word, salt)
      PROVE  Goal
  <2>1. room' = room
    BY <1>6 DEF reveal_duel_solution
  <2>2. /\ entry'[q][x].commit_hash = entry[q][x].commit_hash
        /\ entry'[q][x].commit_timestamp = entry[q][x].commit_timestamp
        /\ \A y \in Player : entry'[q][y].join_unix_timestamp
                              = entry[q][y].join_unix_timestamp
    BY <1>6, RevealEffect
  <2>3. room[q].opponent \in Player
    BY <1>0, <2>2 DEF SeatTakenInTime
  <2> QED
    BY <1>0, <2>1, <2>2, <2>3
<1>7. ASSUME NEW r \in Room, NEW keeper \in Wallet,
             NEW c \in TokenAccount, NEW o \in TokenAccount,
             NEW k \in TokenAccount, NEW p \in TokenAccount,
             NEW v \in Vault, settle_duel(r, keeper, c, o, k, p, v)
      PROVE  Goal
  <2>1. entry' = entry
    BY <1>7 DEF settle_duel
  <2>2. CASE q = r
    BY <1>0, <1>7, <2>1, <2>2, SettleEffect
  <2>3. CASE q # r
    BY <1>0, <1>7, <2>1, <2>3, SettleEffect
  <2> QED
    BY <2>2, <2>3
<1>8. ASSUME NEW r \in Room, NEW p \in Player, NEW a \in TokenAccount,
             NEW v \in Vault, cancel_duel(r, p, a, v)
      PROVE  Goal
  <2>1. entry' = entry
    BY <1>8 DEF cancel_duel, CanCancel
  <2>2. CASE q = r
    BY <1>0, <1>8, <2>1, <2>2, CancelEffect
  <2>3. CASE q # r
    BY <1>0, <1>8, <2>1, <2>3, CancelEffect
  <2> QED
    BY <2>2, <2>3
<1>9. CASE Tick
  BY <1>0, <1>9 DEF Tick, duelVars
<1>11. CASE OpenAnyVault
  BY <1>0, <1>11, OpenEffect
<1>10. CASE UNCHANGED vars
  BY <1>0, <1>10 DEF vars
<1> QED
  BY <1>1, <1>2, <1>3, <1>4, <1>5, <1>6, <1>7, <1>8, <1>9, <1>10, <1>11, AccountsTyped
  DEF Next, CreateDuel, JoinDuel, SetDuelWord, CommitDuelSolution,
      RevealDuelSolution, SettleDuel, CancelDuel

(***************************************************************************)
(* A reveal stays opened by the same word: the commitment and the room's   *)
(* word hash it was checked against do not change.                         *)
(***************************************************************************)
LEMMA RevealedStep == IInv /\ [Next]_vars => RevealedProvesWord'
<1> SUFFICES ASSUME IInv, [Next]_vars, NEW q \in Room, NEW x \in Player,
                    entry'[q][x].revealed
             PROVE  \E v \in Word, s \in Salt :
                      /\ entry'[q][x].commit_hash = <<v, s, x>>
                      /\ room'[q].duel_solution_hash
                           = <<room'[q].room_solution_hash, v>>
  BY DEF RevealedProvesWord
<1> TypeOK /\ StakesPlaced /\ CommitTimeline /\ RevealedProvesWord /\ BlankRooms
  BY DEF IInv
<1> DEFINE Goal == \E v \in Word, s \in Salt :
                     /\ entry'[q][x].commit_hash = <<v, s, x>>
                     /\ room'[q].duel_solution_hash
                          = <<room'[q].room_solution_hash, v>>
<1>0. entry[q][x].revealed =>
        \E v \in Word, s \in Salt :
          /\ entry[q][x].commit_hash = <<v, s, x>>
          /\ room[q].duel_solution_hash = <<room[q].room_solution_hash, v>>
  BY DEF RevealedProvesWord
<1>a. entry[q][x].revealed => Joined(q) /\ room[q].word_set
                              /\ entry[q][x].commit_hash # ZERO
  <2>1. \A v \in Word, s \in Salt : <<v, s, x>> # ZERO
    BY ZeroIsNoDigest DEF CommitHashes, CommitHash
  <2> QED
    BY <1>0, <2>1 DEF CommitTimeline
<1>1. CASE PlatformNext /\ UNCHANGED <<now, duelVars>>
  BY <1>0, <1>1 DEF duelVars
<1>2. ASSUME NEW r \in Room, NEW d \in DayIndex, NEW stake \in StakeInput,
             NEW offset \in OffsetInput, NEW a \in TokenAccount,
             create_duel(r, d, stake, offset, a)
      PROVE  Goal
  <2>1. CASE q = r
    <3>1. ~entry[q][x].revealed
      BY <1>2, <2>1 DEF BlankRooms, create_duel, ZeroEntry
    <3>2. ~entry'[q][x].revealed
      BY <1>2, <2>1, <3>1, CreateEffect, StartedEntryFresh, RoomKeys
    <3> QED
      BY <3>2
  <2>2. CASE q # r
    BY <1>0, <1>2, <2>2, CreateEffect
  <2> QED
    BY <2>1, <2>2
<1>3. ASSUME NEW r \in Room, NEW p \in Player, NEW a \in TokenAccount,
             NEW v \in Vault, join_duel(r, p, a, v)
      PROVE  Goal
  <2>1. CASE q = r
    <3>1. ~entry[q][x].revealed
      BY <1>3, <1>a, <2>1 DEF join_duel, SeatFree
    <3>2. ~entry'[q][x].revealed
      BY <1>3, <2>1, <3>1, JoinEffect, StartedEntryFresh
    <3> QED
      BY <3>2
  <2>2. CASE q # r
    BY <1>0, <1>3, <2>2, JoinEffect
  <2> QED
    BY <2>1, <2>2
<1>4. ASSUME NEW r \in Room, NEW w \in Wallet,
             NEW h \in DuelSolutionHashes \cup {ZERO}, set_duel_word(r, w, h)
      PROVE  Goal
  <2>1. entry' = entry /\ ~room[r].word_set
    BY <1>4 DEF set_duel_word, WordUnset
  <2>2. q # r
    BY <1>a, <2>1
  <2> QED
    BY <1>0, <1>4, <2>1, <2>2, SetWordEffect
<1>5. ASSUME NEW r \in Room, NEW p \in Player,
             NEW h \in CommitHashes \cup {ZERO}, commit_duel_solution(r, p, h)
      PROVE  Goal
  <2>1. room' = room /\ entry[r][p].commit_hash = ZERO
    BY <1>5 DEF commit_duel_solution, Uncommitted
  <2>2. entry[q][x].revealed
    BY <1>5, CommitEffect
  <2>3. ~(q = r /\ x = p)
    BY <1>a, <2>1, <2>2
  <2>4. entry'[q][x] = entry[q][x]
    BY <1>5, <2>3, CommitEffect
  <2> QED
    BY <1>0, <2>1, <2>2, <2>4
<1>6. ASSUME NEW r \in Room, NEW p \in Player, NEW word \in Word,
             NEW salt \in Salt, reveal_duel_solution(r, p, word, salt)
      PROVE  Goal
  <2>1. room' = room
    BY <1>6 DEF reveal_duel_solution
  <2>2. CASE q = r /\ x = p
    <3>1. /\ entry[r][p].commit_hash = <<word, salt, p>>
          /\ room[r].duel_solution_hash = <<room[r].room_solution_hash, word>>
      BY <1>6 DEF reveal_duel_solution, CommitHash, WordMatches, DuelSolutionHash
    <3>2. entry'[r][p].commit_hash = entry[r][p].commit_hash
      BY <1>6, RevealEffect
    <3> QED
      BY <2>1, <2>2, <3>1, <3>2
  <2>3. CASE ~(q = r /\ x = p)
    <3>1. entry'[q][x] = entry[q][x]
      BY <1>6, <2>3, RevealEffect
    <3> QED
      BY <1>0, <2>1, <3>1
  <2> QED
    BY <2>2, <2>3
<1>7. ASSUME NEW r \in Room, NEW keeper \in Wallet,
             NEW c \in TokenAccount, NEW o \in TokenAccount,
             NEW k \in TokenAccount, NEW p \in TokenAccount,
             NEW v \in Vault, settle_duel(r, keeper, c, o, k, p, v)
      PROVE  Goal
  <2>1. entry' = entry
    BY <1>7 DEF settle_duel
  <2>2. /\ room'[q].duel_solution_hash = room[q].duel_solution_hash
        /\ room'[q].room_solution_hash = room[q].room_solution_hash
    BY <1>7, SettleEffect
  <2> QED
    BY <1>0, <2>1, <2>2
<1>8. ASSUME NEW r \in Room, NEW p \in Player, NEW a \in TokenAccount,
             NEW v \in Vault, cancel_duel(r, p, a, v)
      PROVE  Goal
  <2>1. entry' = entry
    BY <1>8 DEF cancel_duel, CanCancel
  <2>2. /\ room'[q].duel_solution_hash = room[q].duel_solution_hash
        /\ room'[q].room_solution_hash = room[q].room_solution_hash
    BY <1>8, CancelEffect
  <2> QED
    BY <1>0, <2>1, <2>2
<1>9. CASE Tick
  BY <1>0, <1>9 DEF Tick, duelVars
<1>11. CASE OpenAnyVault
  BY <1>0, <1>11, OpenEffect
<1>10. CASE UNCHANGED vars
  BY <1>0, <1>10 DEF vars
<1> QED
  BY <1>1, <1>2, <1>3, <1>4, <1>5, <1>6, <1>7, <1>8, <1>9, <1>10, <1>11, AccountsTyped
  DEF Next, CreateDuel, JoinDuel, SetDuelWord, CommitDuelSolution,
      RevealDuelSolution, SettleDuel, CancelDuel

LEMMA IInvStep == IInv /\ [Next]_vars => IInv'
<1> SUFFICES ASSUME IInv, [Next]_vars PROVE IInv'
  OBVIOUS
<1>1. TypeOK'
  BY TypeOKStep DEF IInv
<1>2. BlankRooms' /\ StakeInBounds' /\ SeatTakenInTime'
  BY BlankStep, StakeStep, SeatStep
<1>3. StakesPlaced' /\ CommitTimeline' /\ RevealedProvesWord'
  BY StakesPlacedStep, TimelineStep, RevealedStep
<1> QED
  BY <1>1, <1>2, <1>3 DEF IInv

(***************************************************************************)
(* The inductive invariant holds in every reachable state of every         *)
(* instance of the duel.                                                   *)
(***************************************************************************)
LEMMA IInvHolds == Spec => []IInv
BY IInvInit, IInvStep, PTL DEF Spec

-----------------------------------------------------------------------------
(* What follows from it.                                                   *)

LEMMA PlacedIsHeld == ASSUME TypeOK, StakesPlaced PROVE EscrowBacksRoom
<1> SUFFICES ASSUME NEW r \in Room
             PROVE  SumFunctionOnSet(escrow[r], DOMAIN escrow[r]) = Held(r)
  BY DEF EscrowBacksRoom, Holding, SumFunction
<1> DEFINE stake == room[r].stake_amount
<1>1. stake \in Nat /\ IsFiniteSet(Vault)
  BY FiniteAssumption DEF TypeOK, RoomRecord
<1>2. EmptyVaults \in [Vault -> Int] /\ \A u \in Vault : EmptyVaults[u] = 0
  BY DEF EmptyVaults
<1>3. SumFunctionOnSet(EmptyVaults, Vault) = 0
  BY <1>1, <1>2, SumOfZeros
<1>4. ASSUME NEW f \in [Vault -> Int], NEW v \in Vault
      PROVE  /\ PaidInto(f, v, stake) \in [Vault -> Int]
             /\ SumFunctionOnSet(PaidInto(f, v, stake), Vault)
                  = SumFunctionOnSet(f, Vault) + stake
  <2> DEFINE g == PaidInto(f, v, stake)
  <2>1. g \in [Vault -> Int] /\ g[v] = f[v] + stake /\ f[v] \in Int
    BY <1>1 DEF PaidInto
  <2>2. \A u \in Vault \ {v} : g[u] = f[u]
    BY DEF PaidInto
  <2> HIDE DEF g, stake
  <2>3. SumFunctionOnSet(f, Vault) \in Int
    BY <1>1, SumIsInt
  <2>4. SumFunctionOnSet(g, Vault) = SumFunctionOnSet(f, Vault) + (g[v] - f[v])
    BY <1>1, <2>1, <2>2, SumChangesAtOne
  <2> QED
    BY <1>1, <2>1, <2>3, <2>4 DEF g
<1>5. DOMAIN escrow[r] = Vault
  BY DEF TypeOK
<1>6. CASE ~Active(r)
  BY <1>3, <1>5, <1>6 DEF StakesPlaced, StakePlaced, Held
<1>7. CASE Active(r) /\ ~Joined(r)
  <2>1. PICK c \in Vault : escrow[r] = PaidInto(EmptyVaults, c, stake)
    BY <1>7 DEF StakesPlaced, StakePlaced, OneStakeIn, OpeningVaults
  <2>2. SumFunctionOnSet(escrow[r], Vault) = 0 + stake
    BY <1>2, <1>3, <1>4, <2>1
  <2>3. Held(r) = stake
    BY <1>7 DEF Held
  <2> QED
    BY <1>1, <1>5, <2>2, <2>3
<1>8. CASE Active(r) /\ Joined(r)
  <2>1. PICK c \in Vault, o \in Vault :
          escrow[r] = PaidInto(PaidInto(EmptyVaults, c, stake), o, stake)
    BY <1>8 DEF StakesPlaced, StakePlaced, OneStakeIn, TwoStakesIn, OpeningVaults
  <2> DEFINE one == PaidInto(EmptyVaults, c, stake)
  <2>2. one \in [Vault -> Int] /\ SumFunctionOnSet(one, Vault) = 0 + stake
    BY <1>2, <1>3, <1>4
  <2>3. escrow[r] = PaidInto(one, o, stake)
    BY <2>1
  <2> HIDE DEF one, stake
  <2>4. SumFunctionOnSet(escrow[r], Vault) = (0 + stake) + stake
    BY <1>4, <2>2, <2>3
  <2>5. Held(r) = 2 * stake
    BY <1>8 DEF Held, Pot, stake
  <2> QED
    BY <1>1, <1>5, <2>4, <2>5
<1> QED
  BY <1>6, <1>7, <1>8

(***************************************************************************)
(* The vaults of an open room always hold together exactly the stakes of   *)
(* the players in it, however the instructions choose among them, and      *)
(* nothing once the room is closed.                                        *)
(***************************************************************************)
THEOREM EscrowAlwaysBacksRoom == Spec => []EscrowBacksRoom
<1>1. IInv => EscrowBacksRoom
  BY PlacedIsHeld DEF IInv
<1> QED
  BY <1>1, IInvHolds, PTL

(***************************************************************************)
(* An accepted reveal is justified for ever by one word that opens both    *)
(* the player's commitment and the room's word hash.                       *)
(***************************************************************************)
THEOREM RevealsAreJustified == Spec => []RevealedProvesWord
<1>1. IInv => RevealedProvesWord
  BY DEF IInv
<1> QED
  BY <1>1, IInvHolds, PTL

(***************************************************************************)
(* The commitment times settlement compares are real solving times.        *)
(***************************************************************************)
THEOREM CommitsKeepTime == Spec => []CommitTimeline
<1>1. IInv => CommitTimeline
  BY DEF IInv
<1> QED
  BY <1>1, IInvHolds, PTL

LEMMA ProductGrows ==
  ASSUME NEW a \in Nat, NEW b \in Nat, NEW n \in Nat, a <= b
  PROVE  a * n <= b * n
BY SMT

LEMMA VerdictOnTheMoney == IInv => SettlementNeverBlocked
<1> SUFFICES ASSUME IInv, NEW r \in Room, NEW v \in Vault, Active(r), Joined(r),
                    PoolsPot(r, v)
             PROVE  /\ MulFits(room[r].stake_amount, 2)
                    /\ FeeComputable(r)
                    /\ \/ Tied(r) /\ escrow[r][v] = Total(TieShare(r))
                       \/ CreatorWins(r)
                          /\ escrow[r][v] = Total(WinShare(r, room[r].creator))
                       \/ OpponentWins(r)
                          /\ escrow[r][v] = Total(WinShare(r, room[r].opponent))
                       \/ NobodyRevealed(r) /\ escrow[r][v] = Total(RefundShare(r))
  BY DEF SettlementNeverBlocked
<1> TypeOK /\ StakeInBounds
  BY DEF IInv
<1>1. escrow[r][v] = Pot(r)
  BY DEF PoolsPot
<1>2. /\ config.max_stake_usdc = DEFAULT_MAX_STAKE_USDC
      /\ config.platform_fee_bps = DEFAULT_PLATFORM_FEE_BPS
      /\ room[r].stake_amount <= config.max_stake_usdc
  <2>1. Configured /\ room[r].stake_amount <= config.max_stake_usdc
    BY DEF StakeInBounds, Active
  <2>2. PICK w \in Wallet : config = DefaultConfig(w)
    BY <2>1 DEF Configured, ZeroConfig, TypeOK, PlatformTypeOK
  <2> QED
    BY <2>1, <2>2 DEF DefaultConfig
<1> DEFINE stake == room[r].stake_amount
           max == DEFAULT_MAX_STAKE_USDC
           bps == DEFAULT_PLATFORM_FEE_BPS
<1>3. stake \in Nat /\ max \in Nat /\ bps \in Nat /\ U64_MAX \in Nat /\ stake <= max
  BY <1>2, PlatformAssumption, U64MaxAssumption DEF TypeOK, RoomRecord
<1>4. max * 2 <= U64_MAX /\ (2 * max) * bps <= U64_MAX
  BY FeeAssumption DEF MulFits
<1>5. FeeComputable(r) <=> (2 * stake) * bps <= U64_MAX /\ SplitOfPot(r).fee <= Pot(r)
  BY <1>2 DEF FeeComputable, MulFits, Pot
<1>6. MulFits(room[r].stake_amount, 2) <=> stake * 2 <= U64_MAX
  BY DEF MulFits
<1> HIDE DEF stake, max, bps
<1>7. 2 * stake \in Nat /\ 2 * max \in Nat /\ 2 * stake <= 2 * max
  BY <1>3
<1>8. (2 * stake) * bps <= (2 * max) * bps
  BY <1>3, <1>7, ProductGrows
<1>9. (2 * stake) * bps \in Nat /\ (2 * max) * bps \in Nat
  BY <1>3, <1>7, SMT
<1>10. (2 * stake) * bps <= U64_MAX
  BY <1>3, <1>4, <1>8, <1>9
<1>11. MulFits(room[r].stake_amount, 2) /\ FeeComputable(r)
  BY <1>3, <1>4, <1>5, <1>6, <1>10, SharesAreThePot
<1>12. \/ Tied(r) \/ CreatorWins(r) \/ OpponentWins(r) \/ NobodyRevealed(r)
  <2>1. room[r].creator \in Player /\ room[r].opponent \in Player
    BY DEF IInv, SeatTakenInTime, TypeOK, RoomRecord, Active, Exists
  <2>2. /\ CreatorEntry(r).commit_timestamp \in Nat
        /\ OpponentEntry(r).commit_timestamp \in Nat
    BY <2>1 DEF CreatorEntry, OpponentEntry, TypeOK, EntryRecord
  <2> QED
    BY <2>2 DEF Tied, CreatorWins, OpponentWins, NobodyRevealed, BothRevealed
<1> QED
  BY <1>1, <1>11, <1>12, SharesAreThePot

(***************************************************************************)
(* Once a joined room is due and one of its vaults holds the pot, no       *)
(* arithmetic check and no transfer of settle_duel out of that vault can   *)
(* fail: the verdict that holds pays it out to the last unit.              *)
(***************************************************************************)
THEOREM SettlementIsNeverBlocked == Spec => []SettlementNeverBlocked
BY VerdictOnTheMoney, IInvHolds, PTL

LEMMA FrozenStep == IInv /\ [Next]_vars => CommitFrozenStep
<1> SUFFICES ASSUME IInv, [Next]_vars, NEW q \in Room, NEW x \in Player,
                    entry[q][x].commit_hash # ZERO
             PROVE  /\ entry'[q][x].commit_hash = entry[q][x].commit_hash
                    /\ entry'[q][x].commit_timestamp = entry[q][x].commit_timestamp
                    /\ entry[q][x].revealed => entry'[q][x].revealed
                    /\ room'[q].duel_solution_hash = room[q].duel_solution_hash
  BY DEF CommitFrozenStep
<1> TypeOK /\ StakesPlaced
  BY DEF IInv
<1> DEFINE Goal == /\ entry'[q][x].commit_hash = entry[q][x].commit_hash
                   /\ entry'[q][x].commit_timestamp = entry[q][x].commit_timestamp
                   /\ entry[q][x].revealed => entry'[q][x].revealed
                   /\ room'[q].duel_solution_hash = room[q].duel_solution_hash
<1>0. Joined(q) /\ room[q].word_set /\ Exists(q)
  <2>1. Joined(q) /\ room[q].word_set
    BY DEF IInv, CommitTimeline
  <2>2. Exists(q)
    BY <2>1 DEF IInv, BlankRooms, ZeroRoom
  <2> QED
    BY <2>1, <2>2
<1>1. CASE PlatformNext /\ UNCHANGED <<now, duelVars>>
  BY <1>1 DEF duelVars
<1>2. ASSUME NEW r \in Room, NEW d \in DayIndex, NEW stake \in StakeInput,
             NEW offset \in OffsetInput, NEW a \in TokenAccount,
             create_duel(r, d, stake, offset, a)
      PROVE  Goal
  <2>1. q # r
    BY <1>0, <1>2 DEF create_duel
  <2> QED
    BY <1>2, <2>1, CreateEffect
<1>3. ASSUME NEW r \in Room, NEW p \in Player, NEW a \in TokenAccount,
             NEW v \in Vault, join_duel(r, p, a, v)
      PROVE  Goal
  <2>1. q # r
    BY <1>0, <1>3 DEF join_duel, SeatFree
  <2> QED
    BY <1>3, <2>1, JoinEffect
<1>4. ASSUME NEW r \in Room, NEW w \in Wallet,
             NEW h \in DuelSolutionHashes \cup {ZERO}, set_duel_word(r, w, h)
      PROVE  Goal
  <2>1. q # r /\ entry' = entry
    BY <1>0, <1>4 DEF set_duel_word, WordUnset
  <2> QED
    BY <1>4, <2>1, SetWordEffect
<1>5. ASSUME NEW r \in Room, NEW p \in Player,
             NEW h \in CommitHashes \cup {ZERO}, commit_duel_solution(r, p, h)
      PROVE  Goal
  <2>1. room' = room /\ ~(q = r /\ x = p)
    BY <1>5 DEF commit_duel_solution, Uncommitted
  <2>2. entry'[q][x] = entry[q][x]
    BY <1>5, <2>1, CommitEffect
  <2> QED
    BY <2>1, <2>2
<1>6. ASSUME NEW r \in Room, NEW p \in Player, NEW word \in Word,
             NEW salt \in Salt, reveal_duel_solution(r, p, word, salt)
      PROVE  Goal
  <2>1. room' = room
    BY <1>6 DEF reveal_duel_solution
  <2> QED
    BY <1>6, <2>1, RevealEffect
<1>7. ASSUME NEW r \in Room, NEW keeper \in Wallet,
             NEW c \in TokenAccount, NEW o \in TokenAccount,
             NEW k \in TokenAccount, NEW p \in TokenAccount,
             NEW v \in Vault, settle_duel(r, keeper, c, o, k, p, v)
      PROVE  Goal
  <2>1. entry' = entry
    BY <1>7 DEF settle_duel
  <2> QED
    BY <1>7, <2>1, SettleEffect
<1>8. ASSUME NEW r \in Room, NEW p \in Player, NEW a \in TokenAccount,
             NEW v \in Vault, cancel_duel(r, p, a, v)
      PROVE  Goal
  <2>1. entry' = entry
    BY <1>8 DEF cancel_duel, CanCancel
  <2> QED
    BY <1>8, <2>1, CancelEffect
<1>9. CASE Tick
  BY <1>9 DEF Tick, duelVars
<1>11. CASE OpenAnyVault
  BY <1>0, <1>11, OpenEffect
<1>10. CASE UNCHANGED vars
  BY <1>10 DEF vars
<1> QED
  BY <1>1, <1>2, <1>3, <1>4, <1>5, <1>6, <1>7, <1>8, <1>9, <1>10, <1>11, AccountsTyped
  DEF Next, CreateDuel, JoinDuel, SetDuelWord, CommitDuelSolution,
      RevealDuelSolution, SettleDuel, CancelDuel

(***************************************************************************)
(* A commitment that was made, its time and the word it will be held       *)
(* against stay as they are for ever, and a reveal is never taken back.    *)
(***************************************************************************)
THEOREM CommitmentsAreFrozen == Spec => CommitFrozen
<1>1. IInv /\ [Next]_vars => [CommitFrozenStep]_vars
  BY FrozenStep
<1> QED
  BY <1>1, IInvHolds, PTL DEF Spec, CommitFrozen

LEMMA FinalStep == IInv /\ [Next]_vars => ClosedIsFinalStep
<1> SUFFICES ASSUME IInv, [Next]_vars, NEW q \in Room,
                    room[q].status # "Active"
             PROVE  room'[q] = room[q] /\ escrow'[q] = escrow[q]
  BY DEF ClosedIsFinalStep
<1> Exists(q) /\ ~Active(q)
  BY DEF IInv, BlankRooms, ZeroRoom, Active
<1> TypeOK /\ StakesPlaced
  BY DEF IInv
<1> DEFINE Goal == room'[q] = room[q] /\ escrow'[q] = escrow[q]
<1>1. CASE PlatformNext /\ UNCHANGED <<now, duelVars>>
  BY <1>1 DEF duelVars
<1>2. ASSUME NEW r \in Room, NEW d \in DayIndex, NEW stake \in StakeInput,
             NEW offset \in OffsetInput, NEW a \in TokenAccount,
             create_duel(r, d, stake, offset, a)
      PROVE  Goal
  BY <1>2, CreateEffect DEF create_duel
<1>3. ASSUME NEW r \in Room, NEW p \in Player, NEW a \in TokenAccount,
             NEW v \in Vault, join_duel(r, p, a, v)
      PROVE  Goal
  BY <1>3, JoinEffect DEF join_duel
<1>4. ASSUME NEW r \in Room, NEW w \in Wallet,
             NEW h \in DuelSolutionHashes \cup {ZERO}, set_duel_word(r, w, h)
      PROVE  Goal
  BY <1>4, SetWordEffect DEF set_duel_word, tokenVars
<1>5. ASSUME NEW r \in Room, NEW p \in Player,
             NEW h \in CommitHashes \cup {ZERO}, commit_duel_solution(r, p, h)
      PROVE  Goal
  BY <1>5 DEF commit_duel_solution, tokenVars
<1>6. ASSUME NEW r \in Room, NEW p \in Player, NEW word \in Word,
             NEW salt \in Salt, reveal_duel_solution(r, p, word, salt)
      PROVE  Goal
  BY <1>6 DEF reveal_duel_solution, tokenVars
<1>7. ASSUME NEW r \in Room, NEW keeper \in Wallet,
             NEW c \in TokenAccount, NEW o \in TokenAccount,
             NEW k \in TokenAccount, NEW p \in TokenAccount,
             NEW v \in Vault, settle_duel(r, keeper, c, o, k, p, v)
      PROVE  Goal
  BY <1>7, SettleEffect DEF settle_duel
<1>8. ASSUME NEW r \in Room, NEW p \in Player, NEW a \in TokenAccount,
             NEW v \in Vault, cancel_duel(r, p, a, v)
      PROVE  Goal
  BY <1>8, CancelEffect DEF cancel_duel, CanCancel, Cancellable
<1>9. CASE Tick
  BY <1>9 DEF Tick, duelVars
<1>11. CASE OpenAnyVault
  BY <1>11, OpenEffect
<1>10. CASE UNCHANGED vars
  BY <1>10 DEF vars
<1> QED
  BY <1>1, <1>2, <1>3, <1>4, <1>5, <1>6, <1>7, <1>8, <1>9, <1>10, <1>11, AccountsTyped
  DEF Next, CreateDuel, JoinDuel, SetDuelWord, CommitDuelSolution,
      RevealDuelSolution, SettleDuel, CancelDuel

(***************************************************************************)
(* A settled or refunded room keeps its status, its winner and its empty   *)
(* vaults for ever, although reveals are still accepted in it.             *)
(***************************************************************************)
THEOREM ClosedRoomsAreFinal == Spec => ClosedIsFinal
<1>1. IInv /\ [Next]_vars => [ClosedIsFinalStep]_vars
  BY FinalStep
<1> QED
  BY <1>1, IInvHolds, PTL DEF Spec, ClosedIsFinal
=============================================================================
