\* Runs of deploy.ts that stop anywhere, rotations, seeding and the admin page.
SPECIFICATION OperationsSpec
CONSTANTS
  r1 = r1
  adm = adm
  owner = owner
  k1 = k1
  k2 = k2
  m1 = m1
  m2 = m2
  Keys = {k1, k2}
  Mints = {m1, m2}
  DeployArgs <- MCArgs
  Clients <- MCClients
  NewDefaults <- MCNewDefaults
  NewOverrides <- MCNewOverrides
  s1 = s1
  Seeders = {s1}
  MaxFaults = 1
  MaxRotations = 1
  Routes = {r1}
  Admins = {adm}
  Owner = owner
  MAX_DELAY_HOURS = 2
  U64_MAX = 10
  U32_MAX = 2
  SECONDS_PER_DAY = 1
  MaxTime = 0
CHECK_DEADLOCK FALSE
INVARIANTS
  CountMatchesRoutes
  VerifiedIsWired
PROPERTIES
  SeedsRunOut
  EventuallyWorks
