\* Fifteen services, one at a time.
SPECIFICATION Spec
CONSTANTS
  w1 = w1
  w2 = w2
  c1 = c1
  c2 = c2
  c3 = c3
  r1 = r1
  r2 = r2
  t1 = t1
  t2 = t2
  t3 = t3
  u1 = u1
  p1 = p1
  p2 = p2
  m1 = m1
  b1 = b1
  b2 = b2
  alice = alice
  NoKey = NoKey
  Off = Off
  prove <- MCProve
  auth <- MCAuth
  registrar <- MCRegister
  mcp <- MCMcp
  limiter <- MCLimiter
  accept <- MCAccept
  upload <- MCUpload
  kms <- MCKms
  attest <- MCAttest
  tools <- MCTools
  client <- MCClient
  reputation <- MCReputation
  dashboard <- MCDashboard
  retention <- MCRetention
  backup <- MCBackup
SYMMETRY CallerSymmetry
CONSTRAINT FewAtOnce
INVARIANTS
  IdentityHolds
  LimitsHold
  GrantsAreDue
  SignaturesAreEarned
  RecordsAreTrue
  
  BackupIsWhole
PROPERTIES
  SessionIsProved
  ScoreFollowsConduct
  PruningIsDue
\* Every service comes to rest when its callers are answered and its bounds are reached.
CHECK_DEADLOCK FALSE
