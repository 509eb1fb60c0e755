\* Overlapping ticks of the repricer, people and restarts.
SPECIFICATION RepricerSpec
CONSTANTS
  k1 = k1
  k2 = k2
  r1 = r1
  Ticks = {k1, k2}
  Jobs = {"repricer"}
  JobOf <- MCJobOf
  MAX_ENTRIES = 1
  Routes = {r1}
  Admins = {}
  Owner = owner
  MAX_DELAY_HOURS = 2
  U64_MAX = 10
  U32_MAX = 2
  SECONDS_PER_DAY = 1
  MaxTime = 0
  MIN_PREMIUM = 1
  MAX_PREMIUM = 5
  DRIFT_THRESHOLD = 2
  MaxLate = 1
  Baselines = {3}
  Multipliers = {1}
  HumanTerms <- MCHumanTerms
  HumanUpdates <- MCHumanUpdates
  HumanDefaults <- MCHumanDefaults
SYMMETRY TickSymmetry
CHECK_DEADLOCK FALSE
INVARIANTS
  MutexHeldByOneTrigger
  ConsoleRestored
  HumanDisableStandsUnlessOwn
PROPERTIES
  PayoffAndDelayAreHuman
