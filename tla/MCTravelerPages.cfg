\* One flight, a buyer with pages and one without, terms updated between sales.
SPECIFICATION TravelerSpec
CONSTANTS
  a = a
  f1 = f1
  f2 = f2
  t1 = t1
  t2 = t2
  r = r
  LPs = {a}
  Flights = {f1}
  Travelers = {t1, t2}
  Routes = {r}
  Admins = {}
  Owner = owner
  U64_MAX = 20
  U32_MAX = 2
  SECONDS_PER_DAY = 1
  MaxTime = 2
  VIRTUAL_SHARES = 1
  VIRTUAL_ASSETS = 1
  SHARE_PRICE_SCALE = 10
  MaxQueue = 0
  MAX_DELAY_HOURS = 2
  SECONDS_PER_HOUR = 2
  SOLVENCY_RATIO = 100
  MIN_LEAD_TIME = 0
  CLAIM_EXPIRY_WINDOW = 1
  DATE_THRESHOLD = 3
  DateOf <- MCDateOf
  RoutesOf <- MCRoutesOf
  DefaultTerms <- MCTerms
  TermUpdates <- MCUpdates
  LpFunds = 8
  LpAmounts = {8}
  RecoveredAmounts = {2}
  Etas = {2}
  Arrivals = {3, 4}
  PageUsers = {t1}
  MaxPending = 1
CHECK_DEADLOCK FALSE
INVARIANTS
  OfferedClaimIsOwed
PROPERTIES
  FirstBuyerGetsShownTerms
  PolicyTermsFrozen
