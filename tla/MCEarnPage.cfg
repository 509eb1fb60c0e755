\* An LP with a page and one without, requests at two times, one policy sold, and
\* reads that may fail.
SPECIFICATION EarnSpec
CONSTANTS
  LPs = {a, b}
  Users = {a}
  a = a
  b = b
  SECONDS_PER_DAY = 1
  VIRTUAL_SHARES = 1
  VIRTUAL_ASSETS = 1
  SHARE_PRICE_SCALE = 1
  PREMIUM = 1
  PAYOFF = 2
  U64_MAX = 3
  U32_MAX = 2
  MaxTime = 1
  MaxQueue = 3
  LpFunds = 2
  MaxDonated = 0
  MaxPolicies = 1
  Typed = {1}
  FailingReads = {"stable"}
  MaxPending = 1
CHECK_DEADLOCK FALSE
INVARIANTS
  CurrentPageIsRight
PROPERTIES
  CancelNeverReachesEarlier
