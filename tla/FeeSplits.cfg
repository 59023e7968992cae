SPECIFICATION Spec
CONSTANTS
  U64_MAX = 2000000
  MaxPot = 300
  BpsInput = {0, 1, 200, 333, 9999, 10000}
  TipInput = {0, 1, 5, 400}
INVARIANTS
  FeeIsFloor
  KeeperServedFirst
CHECK_DEADLOCK FALSE
