SPECIFICATION FairKeeperSpec
CONSTANTS
  alice = alice
  bob = bob
  carol = carol
  op = op
  ana = ana
  bo = bo
  ca = ca
  plat = plat
  ata = ata
  usdc = usdc
  seed1 = seed1
  night = night
  torch = torch
  salt1 = salt1
  DefaultPubkey = DefaultPubkey
  ZERO = ZERO
  Wallet = {alice, bob, carol, op}
  Player = {alice, bob}
  Deployer = {op}
  Seed = {seed1}
  Word = {night, torch}
  Salt = {}
  DayIndex = {1}
  DayInput <- MCDayInput
  Room <- MCTwoRooms
  TokenAccount = {ana, bo, ca, plat}
  Holder <- MCHolder
  Vault = {ata}
  Mint = {usdc}
  MintOf <- MCMintOf
  RoomAta <- MCRoomAta
  InitialBalance <- MCInitialBalance
  AUTHORITY_KEYPAIR = op
  KEEPER_KEYPAIR = op
  WORD_LIST = {night, torch}
  WordOf <- MCWordOf
  Ata <- MCAta
  USDC_MINT = usdc
  MaxFaults = 1
  DEFAULT_PLATFORM_FEE_BPS = 200
  DEFAULT_KEEPER_TIP_USDC = 50000
  DEFAULT_MIN_STAKE_USDC = 500000
  DEFAULT_MAX_STAKE_USDC = 5000000
  KEEPER_TIP_FROM_FEE = TRUE
  U64_MAX = 2147483647
  StakeInput = {600000}
  OffsetInput = {1}
  MIN_ROOM_SECONDS = 1
  MAX_ROOM_SECONDS = 4
  MIN_SOLVE_SECONDS = 1
  MaxTime = 1
INVARIANTS
  KeeperWordIsDerived
PROPERTIES
  EveryRoomGetsItsWord
  EveryDueRoomIsTried
CHECK_DEADLOCK FALSE
