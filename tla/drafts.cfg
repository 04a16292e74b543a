\* A worker edits a draft, and the page reads the list again.
SPECIFICATION Spec
CONSTANTS
  Bundles = {b1, b2}
  Passing = {b1}
  DELIVERY = 1
  REVIEW = 1
  ARBITRATION = 1
  VERDICT_TTL = 0
  MaxSkew = 0
  MaxPending = 1
  MaxClock = 1
PROPERTIES
  DraftsSurvive
CHECK_DEADLOCK FALSE
