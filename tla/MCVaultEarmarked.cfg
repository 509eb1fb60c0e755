SPECIFICATION VaultSpec
CONSTANTS
  LPs = {a, b}
  a = a
  b = b
  SECONDS_PER_DAY = 1
  VIRTUAL_SHARES = 1
  VIRTUAL_ASSETS = 1
  SHARE_PRICE_SCALE = 4
  PREMIUM = 1
  PAYOFF = 3
  U64_MAX = 8
  U32_MAX = 2
  MaxTime = 0
  MaxQueue = 2
  LpFunds = 3
  MaxDonated = 1
  MaxPolicies = 2
CHECK_DEADLOCK FALSE
INVARIANT EarmarkedIsPayable
