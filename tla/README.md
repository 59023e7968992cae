# Slotword: models and proofs

TLA+ models of the Slotword Anchor program (`programs/slotword`) and of the two
scripts that operate it (`scripts/`), the TLC runs that check them on small
instances, and TLAPS proofs of their safety for every instance.

Slotword is a word game on Solana.  One half is a free daily puzzle: a wallet
that knows the day's word gets a record and is counted.  The other half is a
two-player duel for USDC: both players escrow a stake, solve the room's word,
commit a salted hash, reveal it, and anybody settles the room.

## Inventory

| component | state | operations | interacts with |
|---|---|---|---|
| Config and days (`initialize_config.rs`, `initialize_day.rs`) | `Config` singleton, one `DailyChallenge` per day | open the config once, open a day once | every other instruction reads them |
| Daily puzzle (`submit_solution.rs`) | `SolverRecord` per day and player, `PlayerProfile` per player, `total_solvers` of the day | submit a word | reads the day's seed and digest |
| Duel rooms (`create_duel.rs` ... `cancel_duel.rs`) | `DuelRoom`, two `DuelEntry`, the token accounts a room owns | create, join, set word, commit, reveal, settle, cancel | reads the day (seed) and the config (limits, fee, authority), moves tokens, reads the clock |
| Payout arithmetic (`helpers.rs`) | none | `fee_splits`, `escrow_transfer_from_room` | called by settlement |
| Keeper (`scripts/keeper.ts`) | per poll a snapshot of all rooms, the call it awaits; nothing persistent | set missing words, settle rooms past their deadline | sends `set_duel_word`, `settle_duel`, one at a time |
| Day cron (`scripts/init_day.ts`) | per run the day, the seed, an exit status; nothing persistent | pick the word, read a slot hash, open the day | sends `initialize_day` |
| Client (`client/slotword.ts`) | none | derive addresses and hashes, build transactions | all of the above |
| Hint API, web frontend | (named in `Slotword_PRD.md`, not in the repository) | | |

What is hard here.  A Solana transaction is atomic, so no instruction is ever
seen half done; everything difficult is in the ORDER of transactions signed by
different wallets that do not know of each other, and in the clock that runs
between them: a reveal against a settlement at the deadline, a reveal after it,
a join against a cancel, a commitment sent when the rival's word is already
public, a word that comes before or after the opponent, a stake that goes to
another of the room's token accounts than the first.  The second difficulty
is arithmetic: payout, tip and platform share are computed apart and have to
add up to what the account given holds, or the room cannot be settled.  The third is
the scripts, whose transactions may be lost, land late or land twice, which act
on what they read some time ago, may be killed between any two steps, and
remember nothing afterwards.

What makes each component correct:

* **Days**: a day that is open never changes its seed or word.
* **Daily puzzle**: record, profile and day counter agree, at the u32 limit
  too; nobody has a record of a day whose word cannot be known.
* **Duel**: a room's token accounts and its status agree; a reveal proves the word; commit
  times are what they are taken for; the verdict follows the facts at
  settlement; closed is final; settlement of a due room out of an account that
  holds the pot cannot fail on the money, and an unmatched stake can be taken back.
* **Keeper**: no stale snapshot, retry or restart gives a room another word or
  asks for a premature settlement; no room is starved by the failures of others
  or for want of a word.
* **Day cron**: overlapping runs leave a day with the seed and digest of one
  run, solvable by that day's word; what a run reports is true.
* **Payout**: the fee is the exact share rounded down, the keeper is served
  before the platform, nothing is left over.

The hazards, each at its line with the properties that would catch it, are
listed in `PROJECT.json`.

## Modules

| module | models | extends |
|---|---|---|
| `FeeSplits` | `helpers.rs` arithmetic | |
| `Platform` | `Config`, `DailyChallenge` and their two instructions | |
| `Duel` | the seven duel instructions, entries, the rooms' token accounts, token balances, the clock | `Platform`, `FeeSplits` |
| `Escrow` | what the duel promises about money, abstractly | |
| `DuelLedger` | `Duel` with a record of the facts at each settlement | `Duel` |
| `Race` | what the duel promises about who wins, abstractly | |
| `DuelClaims` | sentences of the product document the program does not meet | `DuelLedger` |
| `Daily` | `submit_solution` | `Platform` |
| `Keeper` | `keeper.ts`, the network between it and the program | `Duel` |
| `KeeperClaims` | what is said of the keeper that the script does not do | `Keeper` |
| `DayCron` | `init_day.ts`, the network between its runs and the program | `Daily` |
| `CommonProofs` | lemmas about `Platform`, `FeeSplits` and sums over finite sets | `Platform`, `FeeSplits` |
| `FeeSplitsProofs` | theorems about the fee | `MCFeeSplits`, `CommonProofs` |
| `DuelProofs`, `VerdictProofs`, `MoneyProofs` | theorems about the duel: its invariants, who wins, where the money goes; each extends the one before | `Duel`, `DuelLedger`, `CommonProofs` |
| `KeeperProofs` | theorems about the keeper | `Keeper`, `DuelProofs` |
| `DailyProofs`, `DayCronProofs` | theorems about the puzzle and its cron | `Daily`, `DayCron`, `CommonProofs` |
| `MCFeeSplits`, `MCDuel`, `MCDuelLedger`, `MCDaily`, `MCKeeper`, `MCDayCron` | instances for TLC | |

`Escrow` and `Race` are the abstract specifications: `Duel` instantiates both
with refinement mappings (`Money`, `Verdict`).  `Race` knows nothing of tokens,
hashes, words or a zero commitment; it says that each player marks a time once,
that a race is judged once, by the marks shown so far, and that nothing shown
later counts.

### State and actions

Accounts are functions from their PDA seeds to records with the source's field
names: `room[r]` for `r = <<creator, room_uid>>`, `entry[r][p]`, `daily[d]`,
`profile[p]`, `config`.  An account that does not exist is its zeroed record.
`init` is then the guard that the record is still zeroed, and any other account
constraint fails on one.  Each instruction is one action under its own name:
accounts-struct constraints and `require!`s are guards, in the source's order;
an `Err` is a step that does not happen, because the runtime rolls everything
back.  Each settlement verdict (`settle_tie`, `settle_win` for either player,
`settle_refund`) is a disjunct of `settle_duel`.

`CanCancel` is the whole guard of `cancel_duel`, under a name of its own because
`StakeRecoverable` says when it holds.

**Token accounts.**  `balance` and `escrow` are SPL token balances, of the
wallets' accounts and of the rooms' own.  A room may own any number of token
accounts, of any mint: anybody can open one for it (`OpenVault`), at any time,
before the room exists too.  `Vault` names them within a room, `RoomAta[m]` is
the associated one of mint `m`, which `create_duel` opens (`init`, so it fails if
somebody did before).  `join_duel`, `settle_duel` and `cancel_duel` take one vault
as an argument and ask of it only `token::authority = room` (`VaultOf`) and the
mint of the other accounts (`SameMint`), as in the code; nothing ties the three
vaults to each other.  `Affords` and the guard of `Pay` are the token program's
own check.  Any token account an owner holds may be passed where the code asks
only for `token::authority`; who signs is free wherever the code does not
restrict it.  `Tick` advances the cluster clock; several instructions can share a
second.

**The keeper.**  `pc`, `rooms` and `call` are the loop's place, the part of the
snapshot not visited yet and the client call it awaits.  `Poll` takes the
snapshot in one step (`program.account.duelRoom.all()`), each `Visit` branch of
`pollAndProcess` is an action, and between any two of them everybody else may
act.  A call puts a transaction into `sent`, the transactions on their way; the
cluster lets each land (`Land`, which takes the program's own `set_duel_word` or
`settle_duel` step) or not (`Drop`), at any later time, whatever the client made
of its call meanwhile (`CallFails`: rejected, or no answer in time).  A
transaction that lacks the keeper's signature is never sent (`Signed`).  `Killed`
and `Restart` lose the loop and keep `sent`.  A block-time lookup that throws
ends the poll (`BlockTimeFails`), one that knows no time skips the room
(`NoBlockTime`).  `wordList` is what the running process has read of its file,
`WORD_LIST` or nothing, chosen anew at every start (`LoadWordList`).  The word
index (first four bytes of the room's hash modulo the list's length) is a function
`WordOf` of the hash into the list.

**The day cron.**  `script[u]` is one run: it fixes the day (`Start`), reads the
newest slot hash and sends (`ReadSeedAndSend`), and ends by what it hears
(`Finish`, `Fail`): `OK`, `skipped` when the account is already in use, or
`failed`.  `slotHash` and `today` move on at any time.

Fields nothing reads are left out (bumps, attempts, `solved_timestamp`,
`room_uid` as a field, `duels_won`, `duels_lost`, `hint_signer_pubkey`), and so
are `room.creator_entry` and `room.opponent_entry`, which restate PDA seeds.

### Abstractions and what they hide

* SHA-256 is ideal: a digest is the tuple of what was hashed, and no digest is
  zero.  Concatenation is taken to be unambiguous.
* Transfers outside the program are not modelled: those between wallets have
  nothing to do with it, but tokens can also be SENT to a vault.  They would come
  on top of what `EscrowBacksRoom` counts, and a room with a stake in each of two
  vaults could then be settled out of the one somebody has filled up, which leaves
  a stake in the other.  What is shown is about the tokens the program moves.
* Mints are plain: no transfer fees, hooks or frozen accounts (Token-2022), and
  `USDC_DECIMALS` decimals, since `transfer_checked` fails for any other number.
* That a transfer debits what it credits is the token program's promise.  It is
  built into `Pay`, and no property restates it.
* A `slot_hash_seed` of all zeroes is excluded (`PlatformAssumption`).
* Deadlines stay far below the limit of `i64`, so its additions do not overflow.
* The clock does not run backwards.
* There are no forks: what a script reads (at commitment `processed` in the
  keeper) is the program's state at that moment.
* In `Keeper` and `DayCron` the authority's key signs only for that script, and
  a word list that is not empty is the same in every process and every restart.
* The same transaction sent twice is one element of `sent` until it lands or is
  dropped; it may then be sent again.
* The preflight simulation of `.rpc()` is a rejection (`Drop`) that comes early.
* Rent, compute limits, account closing (no instruction closes an account) and
  error codes are left out.

## Runs

| run | instance | what it checks |
|---|---|---|
| `FeeSplits` | pots 0 to 300, six rates, four tips | `FeeIsFloor`, `KeeperServedFirst` |
| `DuelRoom` | one room with the ledger of its settlement, two words, stakes below the minimum and with a fee below and above the tip, offsets one below, inside and one above the limits, five clock ticks, an outside keeper or the creator as keeper | `RevealedProvesWord`, `CommitTimeline`, `ResolutionMatrix`, `MoneyFollowsVerdict`, `CopierNeverWins`, `CommitFrozen`, `ClosedIsFinal`, `ImplementsRace` |
| `DuelMoney` | two rooms, two mints with a vault each per room, each player can afford one stake at a time, the second player in either mint, five token accounts, two clock ticks | `TypeOK`, `EscrowBacksRoom`, `LossIsStaked`, `SettlementNeverBlocked`, `StakeRecoverable`, `ImplementsEscrow` |
| `Daily` | three players, three days, counters up to 2 | `TypeOK`, `CountersAgree`, `SolversKnewTheWord`, `DayIsForGood` |
| `Keeper` | one room with commits and reveals of two words, the authority as keeper, two failures or kills | `KeeperTypeOK`, `SettleCallIsDue`, `RevealersKnewTheWord` |
| `KeeperFair` | two rooms of one creator with different words, a word list that may be empty at any start, nobody commits, one failure or kill, under fairness | `KeeperWordIsDerived`, `EveryRoomGetsItsWord`, `EveryDueRoomIsTried` |
| `DayCron` | three runs, two days with different words, two slot hashes, one player solving, under fairness | `DayCronTypeOK`, `OpenDaysAreSolvable`, `ReportsAreTrue`, `RunsOpenTheirDay` |
| `Claim...` | an instance of `DuelLedger` or `Keeper` | one claim each, found violated |

`LossIsStaked` is about all rooms at once: it compares what a wallet holds, over
all its accounts, with what it held at first and with its stakes in the rooms
that are open or that somebody won, tokens of all mints counted alike.  Two rooms
and players who must get out of one to enter the other make the sums of several
rooms meet.  `EscrowBacksRoom` adds up a room's vaults, so with two of them it
also says that no settlement and no cancel closes a room and leaves a stake in
the vault it was not given.

No property is about the streak.  `submit_solution.rs:83` raises it with every
solve and nothing resets it, on a missed day either, so `current_streak`,
`best_streak` and `total_solves` are always one number: the model says so
(`SolvedProfile`), the tests assert only the first solve, and no document says
what a streak is.

`CHECK_DEADLOCK FALSE` everywhere: the clock and the supply of days, rooms and
pots are bounded, so every instance ends in a state where nothing is left to do.

### Bounds, and why they are enough

* **Time.**  `MIN_ROOM_SECONDS`, `MAX_ROOM_SECONDS`, `MIN_SOLVE_SECONDS` (300,
  3600, 45) are scaled to a few units, keeping their order: a solve fits in a
  room, a join can still come too late to solve.  `MaxTime` stops the clock;
  `WithinHorizon` keeps each deadline at or before it, so every room's deadline
  is reached.  In `DuelRoom` there is time after the deadline for late reveals.
* **Amounts.**  Stakes, fee, minimum and tip have the deployed values, since
  their ratios decide the cases.  Only the maximum stake is lowered, from
  100,000,000 to 5,000,000, because TLC computes with 32-bit integers; that is
  also why `U64_MAX` is 2147483647 there.  `FeeAssumption` says what of the real
  widths matters: twice the largest stake times the rate fits.
* **Wallets.**  Two players and the authority; an outside keeper in `DuelRoom`.
  The authority with two accounts can keep a room itself (`MCDuel`), with one it
  cannot (`MCDuelLedger`, `MCKeeper`).
  The authority does not play in these instances.  The theorems allow it to: the
  money it is owed as a player and as the platform then goes to two accounts,
  since `settle_duel` takes no account twice.
* **Vaults.**  Two per room in `DuelMoney`, one of each mint, and a player with
  tokens of both, so a stake can follow the first or not.  Several vaults of one
  mint behave alike: which of them is associated matters to `create_duel` alone.
  `DuelRoom` and the keeper's runs, which ask other questions, have one vault;
  the claims have two of one mint.  The theorems hold for any number of both.
* **Words.**  Two words in `DuelRoom` and in the claims, so the authority or a
  player can pick the wrong one.  One salt: a second one adds only commitments
  equal to failed ones.
* **Scripts.**  In `KeeperFair` two rooms let one room's failing call come before, between and
  after the other's visit; each can be created, joined, cancelled or settled
  after the snapshot.  Two faults (`MaxFaults`) in `Keeper` allow a lost transaction
  and then a kill, or a kill in two polls.  With three runs of the cron two can be for the
  same day and one for the next, and any two overlap; two slot hashes are enough
  for a stale one.
* **Counters.**  `U32_MAX` is 2 with three players and three days, so every
  counter saturates.

### Fairness

`Duel` itself states no fairness.  Any wallet may settle a due room, but nothing
in the repository makes one do so except the keeper, and its settlements are
rejected (below): that a joined room is closed in the end is not a property of
this code.  What holds in its place is a safety property, `SettlementNeverBlocked`.

`FairKeeperSpec` asks that the keeper's process runs (weak fairness of `Loop`,
whose only unbounded wait, the client's, ends in an answer or a timeout), is
started again after a kill, that time passes, and that a `set_duel_word` the
program would take is executed unless it is one of the finitely many losses.
The keeper ends only by being killed, and `MaxFaults` bounds kills and failures:
a network that fails for ever makes every promise of the script void.  No
settlement is assumed to land, and nothing of the other wallets.
`FairDayCronSpec` lets a run that has started go on and the network answer in
the end.  That a run starts is not assumed.

### Documents and tests that say otherwise

* The creator's 45 seconds start when the room is created, not at the join
  (`ClocksStartAtJoin`, PRD line 231).
* A commitment of all zeroes is accepted and can be replaced (`CommitsOnce`,
  PRD line 236).  Every other commitment is frozen, which `CommitFrozen` proves.
* Who commits in the same second as the rival, with the rival's reveal already
  public, ties (`CopierNeverTies`, PRD line 143).  Winning that way is impossible
  (`CopierNeverWins`).
* An opponent's stake may go to another token account of the room than the
  creator's (`PotInOneVault`, `join_duel.rs:36-41`, PRD line 230).  Then no single
  account holds the pot, `settle_duel` takes only one, and `cancel_duel` is closed
  to a room with an opponent: PRD line 122 calls escrowed USDC "never at risk".
* The keeper settles nothing with its default key: keeper and platform account
  are then the authority's one account, which the program rejects
  (`KeeperClosesRooms`, keeper.ts line 9, and test 5.2, which passes the same
  account twice).  `FairLandingSpec` lets every settlement the program would take
  land, so the rejection alone keeps the room open.

Four more sentences differ from the code and have no run.  The authority can set
any non-zero word hash (PRD line 126 says that it cannot pick the word; what the
script sets is `KeeperWordIsDerived`).  With a `KEEPER_KEYPAIR` of its own
(keeper.ts line 28) the settlement lacks that key's signature (`Signed`), so that
way out of the last point is closed too.  A room
with both reveals is passed over until its deadline (PRD line 258 says it is
settled).  The stored seed is the script's argument and may no longer be the
newest slot hash (init_day.ts line 105; line 16 has it right, and
`OpenDaysAreSolvable` shows that the day is solvable all the same).

## Proofs

The theorems hold for every set of wallets, rooms, words, salts, mints, token
accounts and vaults, balances, days and runs, every stake and offset, every clock
and fault bound, from the named assumptions of the modules.

| theorem | module | establishes |
|---|---|---|
| `TypeCorrect` | `DuelProofs` | `TypeOK` |
| `EscrowAlwaysBacksRoom` | `DuelProofs` | `EscrowBacksRoom` |
| `RevealsAreJustified` | `DuelProofs` | `RevealedProvesWord` |
| `CommitsKeepTime` | `DuelProofs` | `CommitTimeline` |
| `SettlementIsNeverBlocked` | `DuelProofs` | `SettlementNeverBlocked` |
| `CommitmentsAreFrozen` | `DuelProofs` | `CommitFrozen` |
| `ClosedRoomsAreFinal` | `DuelProofs` | `ClosedIsFinal` |
| `DuelImplementsRace` | `VerdictProofs` | `ImplementsRace` |
| `CopiersNeverWin` | `VerdictProofs` | `CopierNeverWins` |
| `VerdictsFollowTheMatrix` | `VerdictProofs` | `ResolutionMatrix` |
| `DuelImplementsEscrow` | `MoneyProofs` | `ImplementsEscrow` |
| `LossesAreStaked` | `MoneyProofs` | `LossIsStaked` |
| `StakesAreRecoverable` | `MoneyProofs` | `StakeRecoverable` |
| `PayoutsFollowVerdicts` | `MoneyProofs` | `MoneyFollowsVerdict` |
| `TypeCorrect`, `CountersAlwaysAgree`, `RecordsProveTheWord`, `DaysAreForGood` | `DailyProofs` | all properties of the run `Daily` |
| `KeeperImplementsDuel` | `KeeperProofs` | `KeeperSpec => Spec`: the theorems above hold next to the script |
| `KeeperTypeCorrect`, `WordsAreDerived`, `SettleCallsAreDue`, `RevealersHaveTheWord` | `KeeperProofs` | the invariants of the runs `Keeper` and `KeeperFair` |
| `DayCronTypeCorrect`, `OpenDaysStaySolvable`, `ReportsStayTrue` | `DayCronProofs` | the invariants of `DayCron` |
| `DayCronImplementsDaily` | `DayCronProofs` | `DayCronSpec` implies `Daily`'s `Spec`, if every day can be opened with every seed and digest |
| `FeesAreFloors`, `KeeperComesFirst` | `FeeSplitsProofs` | `FeeIsFloor`, `KeeperServedFirst`, for every pot, rate and tip |

**Duel.**  Type correctness is inductive on its own.  The other invariants are
not: a join could overwrite an entry that already holds a commitment, unless a
free seat means nobody but the creator has an entry; a settlement would pay the
same account twice, unless the opponent is another wallet; the payout is
computable only because a stake never exceeds the configured maximum.  And
`EscrowBacksRoom`, which is about the sum of a room's vaults, does not survive by
itself: as far as the sums go, a settlement could take the pot out of one vault
and leave something in another, and a cancel could find its stake spread over two.
`StakesPlaced` says where the tokens are: one stake of each player, each in one
existing vault, nothing anywhere else, and the creator's in a mint the creator has
an account of.  From it the sum follows
(`PlacedIsHeld`), a vault that can pay the pot is seen to hold all of it, and one
that can pay back an unmatched stake to hold that stake.  So `IInv` consists of
`StakesPlaced`, `BlankRooms`, `StakeInBounds`, `SeatTakenInTime` and the other
invariants, and is shown to survive each action, one lemma per conjunct.  For each
instruction an `...Effect` lemma first says what it does to one room, which all
the later lemmas cite instead of the action's definition.  `SharesAreThePot`, from the lemmas on
`fee_splits` in `CommonProofs`, gives the arithmetic: each share adds up to the
pot.  `SettlementNeverBlocked` then follows from `IInv` in every single state.
`CommitFrozen` and `ClosedIsFinal` are proved per action from `IInv`.

**Race.**  `RaceInv` adds to `IInv` that an open room has no winner
(`OpenUndecided`).  `RaceFrame` and `RaceSame` say that an instruction on one room
moves the race of that room alone; then each instruction is matched with one
action of `Race`: a non-zero commitment with `MarkTime`, a zero one with a
stutter, a reveal, a late one included, with `Show`, a settlement with `Judge`
(`SettleJudges`, one case per verdict).

**The ledger.**  `CopierNeverWins` is not inductive: the winner is compared with
commitments that stand in other accounts.  `LInv` adds that no commitment is
younger than the clock (`CommitsPast`) and that a copier's is not older than that
of some rival who has revealed (`CopiersBehind`), who by then can only be the one
other player in the room.  For `ResolutionMatrix`, `VInv` adds that a recorded
room is closed and its revealers committed (`VerdictsStand`); the settlement that
writes the record is judged by `SettleJudges`, and `ClosedIsFinal` and
`CommitFrozen` keep everything the matrix reads as it was.

**Sums.**  The amounts of a wallet, and of all wallets, are sums over finite sets
of accounts (`SumFunctionOnSet` of the community modules, a fold over a recursive
choice).  The library's induction theorems take an operator as a parameter and
cannot be used here, so `CommonProofs` derives what it needs with sets in the
place of predicates: `NatInduction1` from the well-foundedness of `<`, and
`FiniteSetGrows` from that of strict inclusion on finite sets.  From them
`SumTableExists` shows that the fold's recursive table exists, `SumSplitsOff`
that any one element can be taken out of a sum, whichever the fold chooses
first, and the other lemmas what a sum does when one summand changes, when all
do, or when only four differ from zero.

**Money.**  For the refinement of `Escrow`, the phase of a room is read off its
accounts (`Phase`), and each instruction that moves money is matched with one
action of `Escrow`; the others leave funds, pots and phases as they were.
A pot is the sum of the room's vaults (`Holding`), so `StakesPlaced` has to say that
the vault a settlement or a cancel empties was the only one with anything in it
(`EscrowStepMaps`).

`LossIsStaked` is inductive together with `RaceInv`, one wallet at a time.
`RiskMoves` says that a step on one room changes a wallet's stakes at risk by
what that room adds to them, and `HoldingsMove` that its holdings change by what
its accounts gain.  Creating, joining and cancelling move one account by exactly
the change of the risk (`StakeMoves`).  A settlement is `SettleBounds`:
`SettlePays` says what share its verdict gives each of the four payout accounts,
`PayingGains` what that brings a wallet, which may own several of them (an
account of its own as keeper, or as the authority), and in each verdict that is
at least what leaves its risk.

`StakeRecoverable` is read off `StakesPlaced`: the vault the one stake is in, and an
account of the creator's in its mint.
`MoneyFollowsVerdict` needs that the configuration it is read against is that of
the settlement (`ConfigFrozen`: written once) and that a recorded room never
changes again (`VInv` and `ClosedIsFinal`); the settlement that writes the record
is again `SettlePays` and `PayingGains` (`SettlingPaysOut`).

**Daily.**  `DailyInv` is the conjunction of the run's invariants with the fact
that only finitely many records exist; `CountersAgree` is followed through a
submission with the library's cardinality facts.

**Keeper.**  `KeeperInv` adds that what a snapshot says of a room is in its past
and can no longer change in what the script uses (`SnapshotIsPast`: creator,
deadline, hash, and an opponent once there is one), that every word on its way
is the derived one (`WordCallsDerived`), and that every room's hash has the right
form (`HashedRooms`).  Every other wallet's step keeps the words (`WordsKeep`).

**DayCron.**  `DayCronInv` adds what a run holds at each of its steps
(`RunsInOrder`) and what the network's answers say of the day
(`RepliesAreTrue`).

Assumptions the proofs rest on: `PlatformAssumption`, `DuelAssumption`,
`DailyAssumption`, `KeeperAssumption`, `DayCronAssumption` (types of the constants),
`FeeAssumption` (rate at most 100 percent; the products of the largest stake fit
in u64), `ZeroIsNoDigest`, `FiniteAssumption` (finitely many token accounts, vaults and
rooms: addresses have 32 bytes and a `room_uid` 8, so there are no infinitely
many, and the sums above are defined), `InputAssumption` (amounts are naturals).  The deployed constants satisfy them:
2 * 100,000,000 * 200 is far below 2^64.

Only model-checked: the liveness properties (`EveryRoomGetsItsWord`,
`EveryDueRoomIsTried`, `RunsOpenTheirDay`), because liveness under fairness is out
of the prover's reach.  What the proofs give towards them are the safety facts
they rest on, `KeeperWordIsDerived` and `SettleCallIsDue`.  Every
invariant and every action property of the passing runs is proved.

## Not modelled

* Forks and the keeper's `processed` commitment; a word list edited between two
  starts of a script, other than emptied; whatever restarts the scripts.
* Tokens sent to a room's accounts from outside the program, mints with transfer
  fees or other extensions.
* Who settles: the keeper is the only settler in the repository.
* Error codes (`errors.rs`): an `Err` is a step that does not happen.
* The client's builders for the players' instructions: they pass arguments and
  keep no state.
* The hint API and the frontend: not in the repository.  Deployment and tests
  hold no logic of the program.

## Open

* One module in which the puzzle and the duels run side by side over the same
  days, shown to be `Daily` and `Duel` at once.  Today each is modelled with the
  instructions of `Platform` they share, and neither writes what the other reads.
* The keeper and the cron over that composition, instead of one each.
* A keeper's view that may be of a fork which is dropped.
