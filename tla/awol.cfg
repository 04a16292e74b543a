\* Three offers, two concurrent hires, one channel; two silences are too many.
SPECIFICATION Spec
CONSTANTS
  alice = alice
  w1 = w1
  c1 = c1
  c2 = c2
  r1 = r1
  r2 = r2
  TaskIds = {1, 2, 3}
  Agents = {alice}
  Workers = {w1}
  Keys = {}
  NoKey = NoKey
  WORKER_CONCURRENCY_CAP = 3
  IDEMPOTENCY_KEY_TTL = 1
  MaxClock = 1
  Hires = {r1, r2}
  Channels = {c1}
  AWOL_LAPSED_OFFER_THRESHOLD = 2
  AWOL_EXPIRED_TASK_THRESHOLD = 2
SYMMETRY HireSymmetry
INVARIANTS
  TypeOK
  StreaksAreTrailing
PROPERTIES
  DisabledForCause
  AbsentNotBooked
