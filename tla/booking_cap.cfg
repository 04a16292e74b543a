\* Two offers to one worker whose cap is 1.
SPECIFICATION Spec
CONSTANTS
  h1 = h1
  h2 = h2
  alice = alice
  bob = bob
  w1 = w1
  w2 = w2
  k1 = k1
  a1 = a1
  a2 = a2
  TaskIds = {h1, h2}
  Agents = {alice}
  Workers = {w1}
  Keys = {}
  NoKey = NoKey
  WORKER_CONCURRENCY_CAP = 1
  IDEMPOTENCY_KEY_TTL = 1
  MaxClock = 2
  Answers = {a1, a2}
  OfferExpiries = {1}
INVARIANTS
  CapHolds
