\* A request nobody's settlement serves.
SPECIFICATION ExecutorFairSpec
CONSTANTS
  a = a
  f1 = f1
  f2 = f2
  t1 = t1
  r = r
  k1 = k1
  k2 = k2
  k3 = k3
  Ticks = {k1, k2, k3}
  JobOf <- MCJobOf
  Answers <- MCAnswers
  INVALID_DATE = 10
  MaxFaults = 1
  LPs = {a}
  Flights = {f1, f2}
  Travelers = {t1}
  Routes = {r}
  Admins = {}
  Owner = owner
  U64_MAX = 20
  U32_MAX = 2
  SECONDS_PER_DAY = 1
  MaxTime = 1
  VIRTUAL_SHARES = 1
  VIRTUAL_ASSETS = 1
  SHARE_PRICE_SCALE = 10
  MaxQueue = 1
  MAX_DELAY_HOURS = 2
  SECONDS_PER_HOUR = 2
  SOLVENCY_RATIO = 100
  MIN_LEAD_TIME = 0
  CLAIM_EXPIRY_WINDOW = 1
  DATE_THRESHOLD = 3
  DateOf <- MCDateOf
  RoutesOf <- MCRoutesOf
  DefaultTerms <- MCTerms
  TermUpdates = {}
  LpFunds = 4
  LpAmounts = {2, 4}
  RecoveredAmounts = {}
  Etas = {}
  Arrivals = {}
CHECK_DEADLOCK FALSE
PROPERTIES
  ExitsArePrompt
