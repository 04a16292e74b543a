\* One offer of four hours, an hourly scan and a lead of two hours.
SPECIFICATION Spec
CONSTANTS
  t1 = t1
  alice = alice
  w1 = w1
  TaskIds = {t1}
  Agents = {alice}
  Workers = {w1}
  Keys = {}
  NoKey = NoKey
  WORKER_CONCURRENCY_CAP = 3
  IDEMPOTENCY_KEY_TTL = 1
  MaxClock = 6
  INTERVAL = 1
  OFFER_REMINDER_LEAD_SECONDS = 2
  OfferExpiries = {1, 4}
INVARIANTS
  SeenByAScan
