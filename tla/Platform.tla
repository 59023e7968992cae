------------------------------ MODULE Platform ------------------------------
(***************************************************************************)
(* The accounts every part of the program reads: the Config singleton and  *)
(* one DailyChallenge per day (state.rs, initialize_config.rs,             *)
(* initialize_day.rs).                                                     *)
(*                                                                         *)
(* An account that does not exist yet is its zeroed record: Anchor's       *)
(* `init` fails on an account that exists, and every other constraint      *)
(* fails on one that does not.  SHA-256 is ideal: a digest is the tuple    *)
(* of what was hashed.                                                     *)
(***************************************************************************)
EXTENDS Integers

CONSTANTS
  Wallet,                      \* the public keys that sign transactions
  DefaultPubkey,               \* Pubkey::default(), the key of nobody
  ZERO,                        \* the all-zero [u8; 32]
  Seed,                        \* slot_hash_seed values
  Word,                        \* the vocabulary
  DayIndex,                    \* the days the model opens
  DayInput,                    \* the <<day, seed, digest>> the authority may submit
  Deployer,                    \* the wallets that may run initialize_config
  DEFAULT_PLATFORM_FEE_BPS,
  DEFAULT_KEEPER_TIP_USDC,
  DEFAULT_MIN_STAKE_USDC,
  DEFAULT_MAX_STAKE_USDC,
  KEEPER_TIP_FROM_FEE          \* the literal initialize_config stores (true)

\* SHA-256(slot_hash_seed || word): the client's dailySolutionHash.
DailySolutionHash(seed, word) == <<seed, word>>

DailySolutionHashes == {DailySolutionHash(s, w) : s \in Seed, w \in Word}

ASSUME PlatformAssumption ==
  /\ DefaultPubkey \notin Wallet
  /\ Deployer \subseteq Wallet
  /\ ZERO \notin Seed
  /\ DayInput \subseteq DayIndex \X Seed \X DailySolutionHashes
  /\ DEFAULT_PLATFORM_FEE_BPS \in Nat
  /\ DEFAULT_KEEPER_TIP_USDC \in Nat
  /\ DEFAULT_MIN_STAKE_USDC \in Nat
  /\ DEFAULT_MAX_STAKE_USDC \in Nat
  /\ KEEPER_TIP_FROM_FEE \in BOOLEAN

VARIABLES
  config,     \* the Config account
  daily       \* the DailyChallenge account of each day

platformVars == <<config, daily>>

ZeroConfig ==
  [authority |-> DefaultPubkey, platform_fee_bps |-> 0, keeper_tip_usdc |-> 0,
   keeper_tip_from_fee |-> FALSE, min_stake_usdc |-> 0, max_stake_usdc |-> 0]

DefaultConfig(authority) ==
  [authority |-> authority,
   platform_fee_bps |-> DEFAULT_PLATFORM_FEE_BPS,
   keeper_tip_usdc |-> DEFAULT_KEEPER_TIP_USDC,
   keeper_tip_from_fee |-> KEEPER_TIP_FROM_FEE,
   min_stake_usdc |-> DEFAULT_MIN_STAKE_USDC,
   max_stake_usdc |-> DEFAULT_MAX_STAKE_USDC]

ZeroDay == [slot_hash_seed |-> ZERO, solution_hash |-> ZERO, total_solvers |-> 0]

Configured == config.authority # DefaultPubkey

DayOpen(d) == daily[d].slot_hash_seed # ZERO

PlatformTypeOK ==
  /\ config \in {ZeroConfig} \cup {DefaultConfig(w) : w \in Wallet}
  /\ daily \in [DayIndex -> [slot_hash_seed : Seed \cup {ZERO},
                             solution_hash  : DailySolutionHashes \cup {ZERO},
                             total_solvers  : Nat]]

PlatformInit ==
  /\ config = ZeroConfig
  /\ daily = [d \in DayIndex |-> ZeroDay]

(***************************************************************************)
(* initialize_config: whoever runs it first becomes the authority.         *)
(***************************************************************************)
initialize_config(w) ==
  /\ ~Configured
  /\ config' = DefaultConfig(w)
  /\ UNCHANGED daily

\* Broken: the account is taken with `mut` instead of `init`.
DayIsNewUnchecked(d) == TRUE

DayIsNew(d) == ~DayOpen(d)

(***************************************************************************)
(* initialize_day: the authority opens a day with a seed and the digest of *)
(* its word.  Both are arguments; the program computes neither.            *)
(***************************************************************************)
initialize_day(w, d, seed, solution_hash) ==
  /\ Configured
  /\ DayIsNew(d)
  /\ w = config.authority
  /\ daily' = [daily EXCEPT ![d] = [slot_hash_seed |-> seed,
                                    solution_hash  |-> solution_hash,
                                    total_solvers  |-> 0]]
  /\ UNCHANGED config

PlatformNext ==
  \/ \E w \in Deployer : initialize_config(w)
  \/ \E w \in Wallet, in \in DayInput : initialize_day(w, in[1], in[2], in[3])
=============================================================================
