SPECIFICATION Spec
CONSTANTS
  alice = alice
  bob = bob
  op = op
  ana = ana
  ana2 = ana2
  bo = bo
  bo2 = bo2
  plat = plat
  ata = ata
  ata2 = ata2
  usdc = usdc
  coin = coin
  seed1 = seed1
  night = night
  torch = torch
  salt1 = salt1
  DefaultPubkey = DefaultPubkey
  ZERO = ZERO
  Wallet = {alice, bob, op}
  Player = {alice, bob}
  Deployer = {op}
  Seed = {seed1}
  Word = {night}
  Salt = {salt1}
  DayIndex = {1}
  DayInput <- MCDayInput
  Room <- MCTwoRooms
  TokenAccount = {ana, ana2, bo, bo2, plat}
  Holder <- MCHolder
  Vault = {ata, ata2}
  Mint = {usdc, coin}
  MintOf <- MCMintOf
  RoomAta <- MCRoomAta
  InitialBalance <- MCTightBalance
  DEFAULT_PLATFORM_FEE_BPS = 200
  DEFAULT_KEEPER_TIP_USDC = 50000
  DEFAULT_MIN_STAKE_USDC = 500000
  DEFAULT_MAX_STAKE_USDC = 5000000
  KEEPER_TIP_FROM_FEE = TRUE
  U64_MAX = 2147483647
  StakeInput = {600000}
  OffsetInput = {1}
  MIN_ROOM_SECONDS = 1
  MAX_ROOM_SECONDS = 2
  MIN_SOLVE_SECONDS = 1
  MaxTime = 2
INVARIANTS
  TypeOK
  EscrowBacksRoom
  LossIsStaked
  SettlementNeverBlocked
  StakeRecoverable
PROPERTIES
  ImplementsEscrow
CHECK_DEADLOCK FALSE
