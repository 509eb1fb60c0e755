\* A flight sold under a date in seconds.
SPECIFICATION SentinelSpec
CONSTANTS
  a = a
  f1 = f1
  f2 = f2
  t1 = t1
  t2 = t2
  r = r
  LPs = {a}
  Flights = {f1}
  Travelers = {t1, t2}
  Routes = {r}
  Admins = {}
  Owner = owner
  U64_MAX = 20
  U32_MAX = 2
  SECONDS_PER_DAY = 2
  MaxTime = 4
  VIRTUAL_SHARES = 1
  VIRTUAL_ASSETS = 1
  SHARE_PRICE_SCALE = 10
  MaxQueue = 1
  MAX_DELAY_HOURS = 2
  SECONDS_PER_HOUR = 2
  SOLVENCY_RATIO = 100
  MIN_LEAD_TIME = 1
  CLAIM_EXPIRY_WINDOW = 1
  DATE_THRESHOLD = 3
  DateOf <- MCDateInSeconds
  RoutesOf <- MCRoutesOf
  DefaultTerms <- MCTerms
  TermUpdates <- NoUpdates
  LpFunds = 6
  LpAmounts = {2, 4}
  RecoveredAmounts = {2}
  Etas = {2}
  Arrivals = {1, 3, 4}
CHECK_DEADLOCK FALSE
PROPERTIES
  SoldWithLeadTime
