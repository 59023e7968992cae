-------------------------------- MODULE Duel --------------------------------
(***************************************************************************)
(* The two-player duel of programs/slotword: a room escrows the stakes of  *)
(* a creator and an opponent, the authority commits the hash of the        *)
(* room's word, the players commit and reveal, and anyone settles.         *)
(*                                                                         *)
(* Each instruction is one action, because a Solana transaction is atomic: *)
(* an Err anywhere, a failed token transfer included, undoes all of it.    *)
(* What interleaves is the instructions of different wallets and the       *)
(* cluster clock.                                                          *)
(*                                                                         *)
(* A room is its PDA seeds <<creator, room_uid>>; its entries are the PDAs *)
(* <<room, player>>.  A room may own any number of token accounts: anybody *)
(* can open one for it, and join, settle and cancel take the one they are  *)
(* given.  A vault is such an account, told from the others of its room by *)
(* an element of Vault; RoomAta[m] is the associated one of mint m.        *)
(***************************************************************************)
EXTENDS Platform, FeeSplits, FiniteSets, Functions

CONSTANTS
  Player,               \* the wallets that create and join rooms
  Room,                 \* the <<creator, room_uid>> pairs
  TokenAccount,         \* the token accounts of wallets
  Holder,               \* the wallet each token account belongs to
  Vault,                \* the token accounts a room can own
  Mint,                 \* the mints with USDC_DECIMALS
  MintOf,               \* the mint of each token account and vault
  RoomAta,              \* a room's associated token account of each mint
  InitialBalance,
  Salt,
  StakeInput,           \* the stake_amount arguments
  OffsetInput,          \* the deadline_offset_seconds arguments
  MIN_ROOM_SECONDS,
  MAX_ROOM_SECONDS,
  MIN_SOLVE_SECONDS,
  MaxTime               \* bound: the clock stops here

\* SHA-256(slot_hash_seed || room || "DUEL").
RoomSolutionHash(seed, r) == <<seed, r, "DUEL">>

\* SHA-256(room_solution_hash || word).
DuelSolutionHash(room_hash, word) == <<room_hash, word>>

\* SHA-256(word || salt || player).
CommitHash(word, salt, player) == <<word, salt, player>>

RoomSolutionHashes == {RoomSolutionHash(s, r) : s \in Seed, r \in Room}

DuelSolutionHashes ==
  {DuelSolutionHash(h, w) : h \in RoomSolutionHashes, w \in Word}

CommitHashes == {CommitHash(w, s, p) : w \in Word, s \in Salt, p \in Player}

ASSUME DuelAssumption ==
  /\ Player \subseteq Wallet
  /\ Room \subseteq Player \X Nat
  /\ Holder \in [TokenAccount -> Wallet]
  /\ MintOf \in [TokenAccount \cup Vault -> Mint]
  /\ RoomAta \in [Mint -> Vault]
  /\ \A m \in Mint : MintOf[RoomAta[m]] = m
  /\ InitialBalance \in [TokenAccount -> Nat]
  /\ StakeInput \subseteq Nat
  /\ OffsetInput \subseteq Nat
  /\ MIN_ROOM_SECONDS \in Nat
  /\ MAX_ROOM_SECONDS \in Nat
  /\ MIN_SOLVE_SECONDS \in Nat
  /\ MaxTime \in Nat

\* The deployed constants leave the fee below the pot and the products in u64.
ASSUME FeeAssumption ==
  /\ DEFAULT_PLATFORM_FEE_BPS <= BPS_DENOMINATOR
  /\ MulFits(DEFAULT_MAX_STAKE_USDC, 2)
  /\ MulFits(2 * DEFAULT_MAX_STAKE_USDC, DEFAULT_PLATFORM_FEE_BPS)

\* Public keys and room_uids have a fixed width.
ASSUME FiniteAssumption ==
  IsFiniteSet(TokenAccount) /\ IsFiniteSet(Vault) /\ IsFiniteSet(Room)

\* No digest is all zeroes.
ASSUME ZeroIsNoDigest ==
  ZERO \notin CommitHashes \cup DuelSolutionHashes \cup RoomSolutionHashes

VARIABLES
  now,        \* Clock::get().unix_timestamp
  room,       \* the DuelRoom accounts
  entry,      \* the DuelEntry accounts of each room
  opened,     \* the vaults of each room that exist
  escrow,     \* the balances of each room's vaults
  balance     \* the balance of every wallet's token account

tokenVars == <<opened, escrow, balance>>
duelVars == <<room, entry, opened, escrow, balance>>
vars == <<config, daily, now, room, entry, opened, escrow, balance>>

ZeroRoom ==
  [daily_challenge |-> DefaultPubkey, room_solution_hash |-> ZERO,
   duel_solution_hash |-> ZERO, word_set |-> FALSE,
   creator |-> DefaultPubkey, opponent |-> DefaultPubkey, stake_amount |-> 0,
   status |-> "Active", deadline |-> 0, winner |-> DefaultPubkey]

ZeroEntry ==
  [player |-> DefaultPubkey, join_unix_timestamp |-> 0, commit_hash |-> ZERO,
   commit_timestamp |-> 0, revealed |-> FALSE]

RoomRecord ==
  [daily_challenge : DayIndex \cup {DefaultPubkey},
   room_solution_hash : RoomSolutionHashes \cup {ZERO},
   duel_solution_hash : DuelSolutionHashes \cup {ZERO},
   word_set : BOOLEAN,
   creator : Player \cup {DefaultPubkey},
   opponent : Player \cup {DefaultPubkey},
   stake_amount : Nat,
   status : {"Active", "Settled", "Refunded"},
   deadline : Nat,
   winner : Player \cup {DefaultPubkey}]

EntryRecord ==
  [player : Player \cup {DefaultPubkey},
   join_unix_timestamp : Nat,
   commit_hash : CommitHashes \cup {ZERO},
   commit_timestamp : Nat,
   revealed : BOOLEAN]

EmptyVaults == [v \in Vault |-> 0]

\* Every account holds a value its Rust type admits.
TypeOK ==
  /\ PlatformTypeOK
  /\ now \in 0..MaxTime
  /\ room \in [Room -> RoomRecord]
  /\ entry \in [Room -> [Player -> EntryRecord]]
  /\ opened \in [Room -> SUBSET Vault]
  /\ escrow \in [Room -> [Vault -> Nat]]
  /\ balance \in [TokenAccount -> Nat]

Init ==
  /\ PlatformInit
  /\ now = 0
  /\ room = [r \in Room |-> ZeroRoom]
  /\ entry = [r \in Room |-> [p \in Player |-> ZeroEntry]]
  /\ opened = [r \in Room |-> {}]
  /\ escrow = [r \in Room |-> EmptyVaults]
  /\ balance = InitialBalance

-----------------------------------------------------------------------------
(* Conditions the accounts structs and the handlers test.                  *)

AccountsOf(w) == {a \in TokenAccount : Holder[a] = w}

Exists(r) == room[r].creator # DefaultPubkey

\* Broken: the status of the room is not tested.
ActiveIgnoringStatus(r) == Exists(r)

Active(r) == Exists(r) /\ room[r].status = "Active"

\* Broken: a transfer that fails does not fail the instruction.
AffordsUnchecked(a, stake) == TRUE

\* transfer_checked(...)? of create_duel and join_duel: the token program moves
\* only what the account holds, and its error is the instruction's.
Affords(a, stake) == balance[a] >= stake

\* token::mint = usdc_mint on every token account of an instruction.
SameMint(accounts) == \A a, b \in accounts : MintOf[a] = MintOf[b]

\* An existing token account with token::authority = room.
VaultOf(r, v) == v \in opened[r]

Joined(r) == room[r].opponent # DefaultPubkey

Participant(r, p) == p \in {room[r].creator, room[r].opponent}

CreatorEntry(r) == entry[r][room[r].creator]

OpponentEntry(r) == entry[r][room[r].opponent]

Pot(r) == 2 * room[r].stake_amount

BothRevealed(r) == CreatorEntry(r).revealed /\ OpponentEntry(r).revealed

\* Broken: one reveal is enough to settle before the deadline.
DueOneReveal(r) ==
  CreatorEntry(r).revealed \/ OpponentEntry(r).revealed \/ now >= room[r].deadline

Due(r) == BothRevealed(r) \/ now >= room[r].deadline

-----------------------------------------------------------------------------
(***************************************************************************)
(* create_duel: the creator opens a room for a day, with its associated    *)
(* token account (init: there must be none), and escrows the stake there.  *)
(* The horizon bound keeps every deadline within reach of the clock.       *)
(***************************************************************************)
StakeInRange(stake) == stake \in config.min_stake_usdc..config.max_stake_usdc

OffsetInRange(offset) == offset \in MIN_ROOM_SECONDS..MAX_ROOM_SECONDS

WithinHorizon(offset) == now + offset <= MaxTime

\* The entry of a player whose solving time starts now.
StartedEntry(player) ==
  [player |-> player, join_unix_timestamp |-> now, commit_hash |-> ZERO,
   commit_timestamp |-> 0, revealed |-> FALSE]

create_duel(r, d, stake, offset, a) ==
  LET creator == r[1]
      v == RoomAta[MintOf[a]]
  IN
  /\ ~Exists(r)
  /\ v \notin opened[r]
  /\ Configured
  /\ DayOpen(d)
  /\ a \in AccountsOf(creator)
  /\ StakeInRange(stake)
  /\ OffsetInRange(offset)
  /\ WithinHorizon(offset)
  /\ Affords(a, stake)
  /\ room' = [room EXCEPT ![r] =
       [ZeroRoom EXCEPT
          !.daily_challenge = d,
          !.room_solution_hash = RoomSolutionHash(daily[d].slot_hash_seed, r),
          !.creator = creator,
          !.stake_amount = stake,
          !.deadline = now + offset]]
  /\ entry' = [entry EXCEPT ![r][creator] = StartedEntry(creator)]
  /\ balance' = [balance EXCEPT ![a] = @ - stake]
  /\ opened' = [opened EXCEPT ![r] = @ \cup {v}]
  /\ escrow' = [escrow EXCEPT ![r][v] = @ + stake]
  /\ UNCHANGED <<platformVars, now>>

(***************************************************************************)
(* Anybody opens a token account for a room, whether or not the room       *)
(* exists already; if it is the associated one, create_duel cannot.        *)
(***************************************************************************)
OpenVault(r, v) ==
  /\ v \notin opened[r]
  /\ opened' = [opened EXCEPT ![r] = @ \cup {v}]
  /\ UNCHANGED <<platformVars, now, room, entry, escrow, balance>>

\* Broken: joins are accepted for as long as the room is active.
JoinWindowOpenEnded(r) == TRUE

JoinWindow(r) == now < room[r].deadline

SeatFree(r) == ~Joined(r)

(***************************************************************************)
(* join_duel: an opponent takes the free seat and pays an equal stake into *)
(* some vault of the room, which need not be the creator's nor its mint's. *)
(***************************************************************************)
join_duel(r, opponent, a, v) ==
  LET stake == room[r].stake_amount IN
  /\ Active(r)
  /\ SeatFree(r)
  /\ opponent # room[r].creator
  /\ a \in AccountsOf(opponent)
  /\ VaultOf(r, v)
  /\ SameMint({a, v})
  /\ JoinWindow(r)
  /\ Affords(a, stake)
  /\ room' = [room EXCEPT ![r].opponent = opponent]
  /\ entry' = [entry EXCEPT ![r][opponent] = StartedEntry(opponent)]
  /\ balance' = [balance EXCEPT ![a] = @ - stake]
  /\ escrow' = [escrow EXCEPT ![r][v] = @ + stake]
  /\ UNCHANGED <<platformVars, now, opened>>

WordUnset(r) == ~room[r].word_set

(***************************************************************************)
(* set_duel_word: the authority commits the hash of the room's word.  The  *)
(* program cannot tell which word it is.                                   *)
(***************************************************************************)
set_duel_word(r, w, word_hash) ==
  /\ Active(r)
  /\ WordUnset(r)
  /\ w = config.authority
  /\ word_hash # ZERO
  /\ room' = [room EXCEPT ![r].duel_solution_hash = word_hash, ![r].word_set = TRUE]
  /\ UNCHANGED <<platformVars, now, entry, tokenVars>>

\* Broken: the solving time is not required.
SolveTimeIgnored(r, p) == TRUE

SolveTimeElapsed(r, p) ==
  now >= entry[r][p].join_unix_timestamp + MIN_SOLVE_SECONDS

\* Broken: a commitment can be replaced until it is revealed.
UncommittedUntilReveal(r, p) == ~entry[r][p].revealed

Uncommitted(r, p) == entry[r][p].commit_hash = ZERO

ReadyToCommit(r) == Active(r) /\ room[r].word_set /\ Joined(r)

(***************************************************************************)
(* commit_duel_solution: a participant commits a hash.  The handler tests  *)
(* neither the deadline nor that the new hash is not zero.                 *)
(***************************************************************************)
commit_duel_solution(r, p, commit_hash) ==
  /\ ReadyToCommit(r)
  /\ entry[r][p].player = p
  /\ Participant(r, p)
  /\ SolveTimeElapsed(r, p)
  /\ Uncommitted(r, p)
  /\ entry' = [entry EXCEPT ![r][p].commit_hash = commit_hash,
                            ![r][p].commit_timestamp = now]
  /\ UNCHANGED <<platformVars, now, room, tokenVars>>

\* Broken: the revealed word is not compared with the room's word.
WordMatchesAny(r, word) == TRUE

WordMatches(r, word) ==
  DuelSolutionHash(room[r].room_solution_hash, word) = room[r].duel_solution_hash

(***************************************************************************)
(* reveal_duel_solution: a participant opens the commitment with the word  *)
(* of the room.  The accounts struct tests neither the status of the room  *)
(* nor the deadline: a reveal is accepted after the room is closed.        *)
(***************************************************************************)
reveal_duel_solution(r, p, word, salt) ==
  /\ Exists(r)
  /\ room[r].word_set
  /\ entry[r][p].player = p
  /\ Participant(r, p)
  /\ entry[r][p].commit_hash # ZERO
  /\ ~entry[r][p].revealed
  /\ CommitHash(word, salt, p) = entry[r][p].commit_hash
  /\ WordMatches(r, word)
  /\ entry' = [entry EXCEPT ![r][p].revealed = TRUE]
  /\ UNCHANGED <<platformVars, now, room, tokenVars>>

-----------------------------------------------------------------------------
(***************************************************************************)
(* settle_duel.  A share says what each of the four payout accounts gets;  *)
(* the transfers run one after the other out of the one vault given, and   *)
(* none of them happens unless all of them can.                            *)
(***************************************************************************)
Total(share) == share.creator + share.opponent + share.keeper + share.platform

Received(a, c, o, k, p, share) ==
  (IF a = c THEN share.creator ELSE 0) + (IF a = o THEN share.opponent ELSE 0)
    + (IF a = k THEN share.keeper ELSE 0) + (IF a = p THEN share.platform ELSE 0)

Pay(r, c, o, k, p, v, share) ==
  /\ escrow[r][v] >= Total(share)
  /\ escrow' = [escrow EXCEPT ![r][v] = @ - Total(share)]
  /\ balance' = [a \in TokenAccount |->
                   balance[a] + Received(a, c, o, k, p, share)]

Close(r, status, winner) ==
  room' = [room EXCEPT ![r].status = status, ![r].winner = winner]

TieShare(r) ==
  LET half == Pot(r) \div 2 IN
  [creator |-> half, opponent |-> Pot(r) - half, keeper |-> 0, platform |-> 0]

\* Broken: an expired room goes back to its creator as if nobody had joined.
RefundShareToCreator(r) ==
  [creator |-> Pot(r), opponent |-> 0, keeper |-> 0, platform |-> 0]

RefundShare(r) ==
  [creator |-> room[r].stake_amount, opponent |-> room[r].stake_amount,
   keeper |-> 0, platform |-> 0]

SplitOfPot(r) ==
  fee_splits(Pot(r), config.platform_fee_bps, config.keeper_tip_from_fee,
             config.keeper_tip_usdc)

WinShare(r, winner) ==
  LET split == SplitOfPot(r)
      payout == Pot(r) - split.fee
  IN  [creator  |-> IF winner = room[r].creator THEN payout ELSE 0,
       opponent |-> IF winner = room[r].creator THEN 0 ELSE payout,
       keeper   |-> split.keeper_tip,
       platform |-> split.platform_fee]

Tied(r) ==
  /\ BothRevealed(r)
  /\ CreatorEntry(r).commit_timestamp = OpponentEntry(r).commit_timestamp

\* Broken: the order of the commitments is ignored and the creator wins.
CreatorWinsIfRevealed(r) == CreatorEntry(r).revealed

CreatorWins(r) ==
  /\ CreatorEntry(r).revealed
  /\ \/ ~OpponentEntry(r).revealed
     \/ CreatorEntry(r).commit_timestamp < OpponentEntry(r).commit_timestamp

OpponentWins(r) ==
  /\ OpponentEntry(r).revealed
  /\ \/ ~CreatorEntry(r).revealed
     \/ CreatorEntry(r).commit_timestamp > OpponentEntry(r).commit_timestamp

NobodyRevealed(r) == ~CreatorEntry(r).revealed /\ ~OpponentEntry(r).revealed

\* checked_mul and checked_sub of settle_win and fee_splits succeed.
FeeComputable(r) ==
  /\ MulFits(Pot(r), config.platform_fee_bps)
  /\ SplitOfPot(r).fee <= Pot(r)

settle_tie(r, c, o, k, p, v) ==
  /\ Tied(r)
  /\ Pay(r, c, o, k, p, v, TieShare(r))
  /\ Close(r, "Settled", DefaultPubkey)

settle_win(r, c, o, k, p, v, winner) ==
  /\ FeeComputable(r)
  /\ Pay(r, c, o, k, p, v, WinShare(r, winner))
  /\ Close(r, "Settled", winner)

settle_refund(r, c, o, k, p, v) ==
  /\ NobodyRevealed(r)
  /\ Pay(r, c, o, k, p, v, RefundShare(r))
  /\ Close(r, "Refunded", DefaultPubkey)

PayoutAccountsDistinct(c, o, k, p) ==
  /\ c \notin {o, k, p}
  /\ o \notin {k, p}
  /\ k # p

settle_duel(r, keeper, c, o, k, p, v) ==
  /\ Active(r)
  /\ Joined(r)
  /\ Configured
  /\ c \in AccountsOf(room[r].creator)
  /\ o \in AccountsOf(room[r].opponent)
  /\ k \in AccountsOf(keeper)
  /\ p \in AccountsOf(config.authority)
  /\ VaultOf(r, v)
  /\ SameMint({c, o, k, p, v})
  /\ room[r].creator # room[r].opponent
  /\ PayoutAccountsDistinct(c, o, k, p)
  /\ Due(r)
  /\ MulFits(room[r].stake_amount, 2)
  /\ \/ settle_tie(r, c, o, k, p, v)
     \/ CreatorWins(r) /\ settle_win(r, c, o, k, p, v, room[r].creator)
     \/ OpponentWins(r) /\ settle_win(r, c, o, k, p, v, room[r].opponent)
     \/ settle_refund(r, c, o, k, p, v)
  /\ UNCHANGED <<platformVars, now, entry, opened>>

\* Broken: a room with an opponent can be cancelled.
CancellableAny(r) == Active(r)

\* Broken: once the deadline has passed only a settlement closes a room.
CancellableInTime(r) == Active(r) /\ ~Joined(r) /\ now < room[r].deadline

Cancellable(r) == Active(r) /\ ~Joined(r)

CanCancel(r, creator, a, v) ==
  /\ Cancellable(r)
  /\ creator = room[r].creator
  /\ a \in AccountsOf(creator)
  /\ VaultOf(r, v)
  /\ SameMint({a, v})
  /\ escrow[r][v] >= room[r].stake_amount

(***************************************************************************)
(* cancel_duel: the creator takes the stake back while nobody has joined,  *)
(* before the deadline or after it.                                        *)
(***************************************************************************)
cancel_duel(r, creator, a, v) ==
  LET stake == room[r].stake_amount IN
  /\ CanCancel(r, creator, a, v)
  /\ escrow' = [escrow EXCEPT ![r][v] = @ - stake]
  /\ balance' = [balance EXCEPT ![a] = @ + stake]
  /\ room' = [room EXCEPT ![r].status = "Refunded"]
  /\ UNCHANGED <<platformVars, now, entry, opened>>

\* The cluster clock advances.
Tick ==
  /\ now < MaxTime
  /\ now' = now + 1
  /\ UNCHANGED <<platformVars, duelVars>>

-----------------------------------------------------------------------------
CreateDuel ==
  \E r \in Room, d \in DayIndex, stake \in StakeInput, offset \in OffsetInput,
     a \in TokenAccount : create_duel(r, d, stake, offset, a)

OpenAnyVault == \E r \in Room, v \in Vault : OpenVault(r, v)

JoinDuel ==
  \E r \in Room, p \in Player, a \in TokenAccount, v \in Vault :
    join_duel(r, p, a, v)

SetDuelWord ==
  \E r \in Room, w \in Wallet, h \in DuelSolutionHashes \cup {ZERO} :
    set_duel_word(r, w, h)

CommitDuelSolution ==
  \E r \in Room, p \in Player, h \in CommitHashes \cup {ZERO} :
    commit_duel_solution(r, p, h)

RevealDuelSolution ==
  \E r \in Room, p \in Player, word \in Word, salt \in Salt :
    reveal_duel_solution(r, p, word, salt)

\* Any wallet may be the keeper of a room.
SettleDuel(r) ==
  \E keeper \in Wallet :
    \E c \in AccountsOf(room[r].creator), o \in AccountsOf(room[r].opponent),
       k \in AccountsOf(keeper), p \in AccountsOf(config.authority),
       v \in Vault :
      settle_duel(r, keeper, c, o, k, p, v)

CancelDuel ==
  \E r \in Room, p \in Player, a \in TokenAccount, v \in Vault :
    cancel_duel(r, p, a, v)

Next ==
  \/ PlatformNext /\ UNCHANGED <<now, duelVars>>
  \/ CreateDuel
  \/ OpenAnyVault
  \/ JoinDuel
  \/ SetDuelWord
  \/ CommitDuelSolution
  \/ RevealDuelSolution
  \/ \E r \in Room : SettleDuel(r)
  \/ CancelDuel
  \/ Tick

Spec == Init /\ [][Next]_vars

-----------------------------------------------------------------------------
\* What a room owes its players, and what its vaults hold together.
Held(r) ==
  IF ~Active(r) THEN 0 ELSE IF Joined(r) THEN Pot(r) ELSE room[r].stake_amount

Holding(r) == SumFunction(escrow[r])

(***************************************************************************)
(* Whatever order the instructions come in and whichever vaults they name, *)
(* the vaults of an open room hold together exactly the stakes of the      *)
(* players in it, and those of a closed room are empty: a settlement or a  *)
(* cancel never leaves a part of them behind in another vault.  Tokens     *)
(* sent to a vault by a transfer outside the program are not modelled.     *)
(***************************************************************************)
EscrowBacksRoom == \A r \in Room : Holding(r) = Held(r)

\* What the accounts of a wallet held at first, and what they hold now.
OpeningOf(w) == SumFunctionOnSet(InitialBalance, AccountsOf(w))

HoldingsOf(w) == SumFunctionOnSet(balance, AccountsOf(w))

\* The rooms whose stake a wallet has not got back and may never get back.
AtRisk(w) ==
  {r \in Room : Participant(r, w) /\ (Active(r) \/ room[r].winner # DefaultPubkey)}

(***************************************************************************)
(* A wallet never loses more than its own stakes in rooms that are open or *)
(* that somebody won, tokens of all mints counted alike: nobody else can   *)
(* spend from its accounts, and the cancelled, refunded and tied rooms it  *)
(* sat in have cost it nothing.                                            *)
(***************************************************************************)
LossIsStaked ==
  \A w \in Wallet :
    HoldingsOf(w) + SumFunctionOnSet([r \in Room |-> room[r].stake_amount], AtRisk(w))
      >= OpeningOf(w)

(***************************************************************************)
(* When one vault of a due room holds the whole pot, settlement out of it  *)
(* cannot fail on the money: the payout of whichever verdict holds is      *)
(* computable and drains the vault exactly, for every stake the program    *)
(* lets in, small ones whose fee is below the keeper's tip included        *)
(* (settle_duel.rs, helpers.rs).  Whether one vault holds the pot is up to *)
(* the opponent's join: see PotInOneVault of DuelClaims.                   *)
(***************************************************************************)
PoolsPot(r, v) == VaultOf(r, v) /\ escrow[r][v] = Pot(r)

SettlementNeverBlocked ==
  \A r \in Room, v \in Vault :
    (Active(r) /\ Joined(r) /\ Due(r) /\ PoolsPot(r, v)) =>
      /\ MulFits(room[r].stake_amount, 2)
      /\ FeeComputable(r)
      /\ \/ Tied(r) /\ escrow[r][v] = Total(TieShare(r))
         \/ CreatorWins(r) /\ escrow[r][v] = Total(WinShare(r, room[r].creator))
         \/ OpponentWins(r) /\ escrow[r][v] = Total(WinShare(r, room[r].opponent))
         \/ NobodyRevealed(r) /\ escrow[r][v] = Total(RefundShare(r))

(***************************************************************************)
(* A stake nobody matched is never stuck: as long as the room has no       *)
(* opponent its creator can have the stake back, before the deadline and   *)
(* after it, when no join and no settlement is possible any more.          *)
(***************************************************************************)
StakeRecoverable ==
  \A r \in Room : (Active(r) /\ ~Joined(r)) =>
    \E a \in TokenAccount, v \in Vault : CanCancel(r, room[r].creator, a, v)

(***************************************************************************)
(* A reveal that was accepted stays justified: the player's own commitment *)
(* and the room's word hash are opened by one and the same word, although  *)
(* they were written by different wallets at different times.              *)
(***************************************************************************)
RevealedProvesWord ==
  \A r \in Room, p \in Player :
    entry[r][p].revealed =>
      \E word \in Word, salt \in Salt :
        /\ entry[r][p].commit_hash = <<word, salt, p>>
        /\ room[r].duel_solution_hash = <<room[r].room_solution_hash, word>>

(***************************************************************************)
(* The timestamps settlement compares are real solving times: a commitment *)
(* was made after the word was committed, by a seated player, at least     *)
(* MIN_SOLVE_SECONDS after that player's own start and not before the      *)
(* opponent's; and the opponent took the seat before the deadline.         *)
(***************************************************************************)
CommitTimeline ==
  \A r \in Room, p \in Player :
    entry[r][p].commit_hash # ZERO =>
      /\ Joined(r)
      /\ room[r].word_set
      /\ Participant(r, p)
      /\ entry[r][p].commit_timestamp
           >= entry[r][p].join_unix_timestamp + MIN_SOLVE_SECONDS
      /\ entry[r][p].commit_timestamp >= OpponentEntry(r).join_unix_timestamp
      /\ OpponentEntry(r).join_unix_timestamp < room[r].deadline

(***************************************************************************)
(* Once a player has a (non-zero) commitment it never changes, nor does    *)
(* its time, nor the word it is going to be compared with; and a reveal is *)
(* never taken back.                                                       *)
(***************************************************************************)
CommitFrozenStep ==
  \A r \in Room, p \in Player :
    entry[r][p].commit_hash # ZERO =>
      /\ entry'[r][p].commit_hash = entry[r][p].commit_hash
      /\ entry'[r][p].commit_timestamp = entry[r][p].commit_timestamp
      /\ entry[r][p].revealed => entry'[r][p].revealed
      /\ room'[r].duel_solution_hash = room[r].duel_solution_hash

CommitFrozen == [][CommitFrozenStep]_vars

(***************************************************************************)
(* A closed room is final: no later instruction, a late reveal or a second *)
(* settlement included, changes its status, its winner or its vaults'      *)
(* balances.                                                               *)
(***************************************************************************)
ClosedIsFinalStep ==
  \A r \in Room :
    room[r].status # "Active" => room'[r] = room[r] /\ escrow'[r] = escrow[r]

ClosedIsFinal == [][ClosedIsFinalStep]_vars

-----------------------------------------------------------------------------
(* The parts that make the safety properties inductive.                    *)

\* Nothing is left over from before a room is created.
BlankRooms ==
  \A r \in Room : ~Exists(r) =>
    room[r] = ZeroRoom /\ \A p \in Player : entry[r][p] = ZeroEntry

\* Only a configured program creates rooms, and for stakes in its range.
StakeInBounds ==
  \A r \in Room : Exists(r) =>
    Configured /\ room[r].stake_amount <= config.max_stake_usdc

\* The opponent is another wallet that sat down in time.
SeatTakenInTime ==
  \A r \in Room : Joined(r) =>
    /\ room[r].opponent \in Player \ {room[r].creator}
    /\ OpponentEntry(r).join_unix_timestamp <= now
    /\ OpponentEntry(r).join_unix_timestamp < room[r].deadline

\* The balances of vaults with an amount paid into one of them.
PaidInto(vaults, v, amount) == [vaults EXCEPT ![v] = @ + amount]

OneStakeIn(r, c) == PaidInto(EmptyVaults, c, room[r].stake_amount)

TwoStakesIn(r, c, o) == PaidInto(OneStakeIn(r, c), o, room[r].stake_amount)

\* The vaults whose tokens the creator has an account for.
OpeningVaults(r) ==
  {c \in Vault : VaultOf(r, c) /\ \E a \in AccountsOf(room[r].creator) : SameMint({a, c})}

(***************************************************************************)
(* An open room has one stake per player, each in one existing vault, and  *)
(* in no other vault anything; a room that is not open has nothing.  The   *)
(* creator has a token account the first stake can go back to.  Sums alone *)
(* would not do: a settlement could then leave a stake behind.             *)
(***************************************************************************)
StakePlaced(r) ==
  /\ ~Active(r) => escrow[r] = EmptyVaults
  /\ Active(r) => \E c \in OpeningVaults(r) :
       IF Joined(r) THEN \E o \in Vault : escrow[r] = TwoStakesIn(r, c, o)
                    ELSE escrow[r] = OneStakeIn(r, c)

StakesPlaced == \A r \in Room : StakePlaced(r)

(***************************************************************************)
(* The inductive invariant: the safety properties above hold together with *)
(* what an absent room looks like, what a stake can be and who can sit     *)
(* across from the creator.                                                *)
(***************************************************************************)
IInv ==
  /\ TypeOK
  /\ BlankRooms
  /\ StakeInBounds
  /\ SeatTakenInTime
  /\ StakesPlaced
  /\ CommitTimeline
  /\ RevealedProvesWord

-----------------------------------------------------------------------------
\* Where a room stands in the life of its pot.
Phase(r) ==
  CASE ~Exists(r)               -> "none"
    [] Exists(r) /\ ~Active(r)  -> "closed"
    [] Active(r) /\ ~Joined(r)  -> "open"
    [] Active(r) /\ Joined(r)   -> "matched"

Money ==
  INSTANCE Escrow WITH
    PotId <- Room, Account <- TokenAccount, OpeningBalance <- InitialBalance,
    Amount <- StakeInput,
    funds <- balance, pot <- [r \in Room |-> Holding(r)],
    phase <- [r \in Room |-> Phase(r)]

(***************************************************************************)
(* The whole protocol moves money only as Escrow allows: every instruction *)
(* is one of its steps or leaves all balances and all phases alone.        *)
(***************************************************************************)
ImplementsEscrow == Money!EscrowSpec

\* How a room's status and winner read as the result of a race.
Result(r) ==
  CASE room[r].status = "Active"   -> "open"
    [] room[r].status = "Refunded" -> "refunded"
    [] room[r].status = "Settled"  ->
         IF room[r].winner = DefaultPubkey THEN "tied" ELSE "won"

\* A zero commitment is none, although it is stamped with its time.
Mark(r, p) ==
  IF entry[r][p].commit_hash = ZERO THEN -1 ELSE entry[r][p].commit_timestamp

\* The players who sit in the room.
Seats(r) == {p \in Player : Participant(r, p)}

\* The players whose reveal the program has accepted so far.
Revealers(r) == {p \in Player : entry[r][p].revealed}

Verdict ==
  INSTANCE Race WITH
    RaceId <- Room, Racer <- Player, Nobody <- DefaultPubkey,
    clock <- now,
    limit <- [r \in Room |-> room[r].deadline],
    seats <- [r \in Room |-> Seats(r)],
    mark <- [r \in Room |-> [p \in Player |-> Mark(r, p)]],
    shown <- [r \in Room |-> Revealers(r)],
    result <- [r \in Room |-> Result(r)],
    champion <- [r \in Room |-> room[r].winner]

(***************************************************************************)
(* The whole protocol decides its rooms only as Race allows: by the first  *)
(* non-zero commitment of each player and by the reveals accepted before   *)
(* the settlement, once.                                                   *)
(***************************************************************************)
ImplementsRace == Verdict!RaceSpec
=============================================================================
