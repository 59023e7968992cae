SPECIFICATION FairDayCronSpec
CONSTANTS
  night = night
  torch = torch
  DefaultPubkey = DefaultPubkey
  ZERO = ZERO
  Wallet = {alice, op}
  Solver = {alice}
  Deployer = {alice, op}
  Seed = {seed1, seed2}
  Word = {night, torch}
  DayIndex = {1, 2}
  DayInput = {}
  Run = {u1, u2, u3}
  AUTHORITY_KEYPAIR = op
  WordOfDay <- MCWordOfDay
  DEFAULT_PLATFORM_FEE_BPS = 200
  DEFAULT_KEEPER_TIP_USDC = 50000
  DEFAULT_MIN_STAKE_USDC = 500000
  DEFAULT_MAX_STAKE_USDC = 5000000
  KEEPER_TIP_FROM_FEE = TRUE
  U32_MAX = 2
INVARIANTS
  DayCronTypeOK
  OpenDaysAreSolvable
  ReportsAreTrue
PROPERTIES
  RunsOpenTheirDay
CHECK_DEADLOCK FALSE
