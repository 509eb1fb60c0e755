\* Small amounts, three queued requests at two times, two policies.
SPECIFICATION VaultSpec
CONSTANTS
  LPs = {a, b}
  a = a
  b = b
  SECONDS_PER_DAY = 1
  VIRTUAL_SHARES = 1
  VIRTUAL_ASSETS = 1
  SHARE_PRICE_SCALE = 4
  PREMIUM = 1
  PAYOFF = 3
  U64_MAX = 8
  U32_MAX = 2
  MaxTime = 1
  MaxQueue = 3
  LpFunds = 2
  MaxDonated = 1
  MaxPolicies = 2
SYMMETRY LpSymmetry
CHECK_DEADLOCK FALSE
INVARIANTS
  VaultTypeOK
  EveryUnitBookedOnce
  RoundTripNeverProfits
  CountersAgree
  QueueInArrivalOrder
PROPERTIES
  DepositNeverDilutes
  RedemptionPaysFairValue
  OnlyOwnHoldingsMove
