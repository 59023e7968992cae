SPECIFICATION Spec
CONSTANTS
  alice = alice
  bob = bob
  carol = carol
  op = op
  seed1 = seed1
  seed2 = seed2
  night = night
  torch = torch
  DefaultPubkey = DefaultPubkey
  ZERO = ZERO
  Wallet = {alice, bob, carol, op}
  Solver = {alice, bob, carol}
  Deployer = {op}
  Seed = {seed1, seed2}
  Word = {night, torch}
  DayIndex = {1, 2, 3}
  DayInput <- MCDayInput
  DEFAULT_PLATFORM_FEE_BPS = 200
  DEFAULT_KEEPER_TIP_USDC = 50000
  DEFAULT_MIN_STAKE_USDC = 500000
  DEFAULT_MAX_STAKE_USDC = 5000000
  KEEPER_TIP_FROM_FEE = TRUE
  U32_MAX = 2
INVARIANTS
  TypeOK
  CountersAgree
  SolversKnewTheWord
PROPERTIES
  DayIsForGood
CHECK_DEADLOCK FALSE
