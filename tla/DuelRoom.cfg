SPECIFICATION LedgerSpec
CONSTANTS
  alice = alice
  bob = bob
  carol = carol
  op = op
  ana = ana
  ana2 = ana2
  bo = bo
  ca = ca
  plat = plat
  ata = ata
  spare = spare
  usdc = usdc
  seed1 = seed1
  night = night
  torch = torch
  salt1 = salt1
  DefaultPubkey = DefaultPubkey
  ZERO = ZERO
  Wallet = {alice, bob, carol, op}
  Player = {alice, bob}
  Deployer = {op}
  Seed = {seed1}
  Word = {night, torch}
  Salt = {salt1}
  DayIndex = {1}
  DayInput <- MCDayInput
  Room <- MCRoom
  TokenAccount = {ana, ana2, bo, ca, plat}
  Holder <- MCHolder
  Vault = {ata}
  Mint = {usdc}
  MintOf <- MCMintOf
  RoomAta <- MCRoomAta
  InitialBalance <- MCInitialBalance
  DEFAULT_PLATFORM_FEE_BPS = 200
  DEFAULT_KEEPER_TIP_USDC = 50000
  DEFAULT_MIN_STAKE_USDC = 500000
  DEFAULT_MAX_STAKE_USDC = 5000000
  KEEPER_TIP_FROM_FEE = TRUE
  U64_MAX = 2147483647
  StakeInput = {400000, 500001, 1500001}
  OffsetInput = {2, 3, 4, 5}
  MIN_ROOM_SECONDS = 3
  MAX_ROOM_SECONDS = 4
  MIN_SOLVE_SECONDS = 2
  MaxTime = 5
INVARIANTS
  RevealedProvesWord
  CommitTimeline
  ResolutionMatrix
  MoneyFollowsVerdict
  CopierNeverWins
PROPERTIES
  CommitFrozen
  ClosedIsFinal
  ImplementsRace
CHECK_DEADLOCK FALSE
