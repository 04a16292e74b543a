\* A key used again after the lookup's window.
SPECIFICATION Spec
CONSTANTS
  h1 = h1
  h2 = h2
  alice = alice
  bob = bob
  w1 = w1
  w2 = w2
  k1 = k1
  a1 = a1
  a2 = a2
  TaskIds = {h1, h2}
  Agents = {alice}
  Workers = {w1}
  Keys = {k1}
  NoKey = NoKey
  WORKER_CONCURRENCY_CAP = 1
  IDEMPOTENCY_KEY_TTL = 1
  MaxClock = 3
  Answers = {}
  OfferExpiries = {1}
INVARIANTS
  KeyAlwaysReplays
