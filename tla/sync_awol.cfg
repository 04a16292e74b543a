\* One task that is delivered, disputed and ruled for the agent.
SPECIFICATION Spec
CONSTANTS
  t1 = t1
  t2 = t2
  alice = alice
  w1 = w1
  r1 = r1
  r2 = r2
  TaskIds = {t1}
  Agents = {alice}
  Workers = {w1}
  Keys = {}
  NoKey = NoKey
  WORKER_CONCURRENCY_CAP = 3
  IDEMPOTENCY_KEY_TTL = 1
  MaxClock = 1
  Runs = {r1}
  BATCH_LIMIT = 1
  MaxFaults = 0
INVARIANTS
  ExpiredHadNoSubmission
