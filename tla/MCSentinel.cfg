\* Two flights of one route, two travelers, one LP; terms are not updated: see
\* CollateralTracksPolicies.
SPECIFICATION SentinelSpec
CONSTANTS
  a = a
  f1 = f1
  f2 = f2
  t1 = t1
  t2 = t2
  r = r
  LPs = {a}
  Flights = {f1, f2}
  Travelers = {t1, t2}
  Routes = {r}
  Admins = {}
  Owner = owner
  U64_MAX = 20
  U32_MAX = 2
  SECONDS_PER_DAY = 1
  MaxTime = 2
  VIRTUAL_SHARES = 2
  VIRTUAL_ASSETS = 1
  SHARE_PRICE_SCALE = 20
  MaxQueue = 1
  MAX_DELAY_HOURS = 2
  SECONDS_PER_HOUR = 2
  SOLVENCY_RATIO = 100
  MIN_LEAD_TIME = 0
  CLAIM_EXPIRY_WINDOW = 1
  DATE_THRESHOLD = 3
  DateOf <- MCDateOf
  RoutesOf <- MCRoutesOf
  DefaultTerms <- MCTerms
  TermUpdates <- NoUpdates
  LpFunds = 4
  LpAmounts = {4}
  RecoveredAmounts = {2}
  Etas = {2}
  Arrivals = {3, 4}
SYMMETRY TravelerSymmetry
CHECK_DEADLOCK FALSE
INVARIANTS
  TypeOK
  CollateralTracksPolicies
  SettledAsRecorded
  CountersMatchPools
  SettlementNeverWedged
  TreasuryBacksEveryPool
  ProgramsInStep
PROPERTIES
  OracleForwardOnly
  ImplementsLedger
