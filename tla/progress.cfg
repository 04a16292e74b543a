\* One task, two overlapping runs, every handler; or a notification over two channels. Both fair.
SPECIFICATION ProgressSpec
CONSTANTS
  t1 = t1
  t2 = t2
  alice = alice
  w1 = w1
  r1 = r1
  r2 = r2
  c1 = c1
  c2 = c2
  TaskIds = {t1}
  Agents = {alice}
  Workers = {w1}
  Keys = {}
  NoKey = NoKey
  WORKER_CONCURRENCY_CAP = 3
  IDEMPOTENCY_KEY_TTL = 1
  MaxClock = 1
  Runs = {r1, r2}
  BATCH_LIMIT = 1
  MaxFaults = 2
  Channels = {c1, c2}
  maxAttempts = 3
INVARIANTS
  TypeOK
  ActiveIsFunded
  ProjectionAgrees
  DisputedHasGround
  OutcomesAreTrue
PROPERTIES
  SupersededUntouched
  EndedStays
  SettledIsProjected
  CallerGoesOn
\* A notification ends when every channel has its outcome.
CHECK_DEADLOCK FALSE
