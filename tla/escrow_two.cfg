\* Two tasks that share the escrow's balance and the signers' nonces.
SPECIFICATION Spec
CONSTANTS
  t1 = t1
  t2 = t2
  platform = platform
  kms = kms
  alice = alice
  bob = bob
  spec1 = spec1
  spec2 = spec2
  work1 = work1
  work2 = work2
  TaskIds = {t1, t2}
  Accounts = {kms, alice, bob}
  ZeroAddress = ZeroAddress
  Escrow = Escrow
  SpecHashes = {spec1}
  EvidenceHashes = {work1}
  ZeroHash = ZeroHash
  Signed <- SignedTwo
  Nonces = {1}
  Amounts = {0, 1, 2}
  InitialUsdc <- MCUsdcTwo
  Deployer = kms
  InitialSigner = kms
  WorkerCandidates = {ZeroAddress, bob}
  OwnerCandidates = {}
  SignerCandidates = {bob}
  MIN_REVIEW_WINDOW = 1
  MAX_REVIEW_WINDOW = 1
  ARBITRATION_WINDOW = 1
  MAX_DEADLINE_HORIZON = 1
  FundingCutoff = 1
  MaxTime = 4
SYMMETRY TaskSymmetry
INVARIANTS
  Solvency
  OneNonceOneDecision
PROPERTIES
  StrayStaysPut
\* The clock stops at MaxTime, and a settled escrow that nobody owns is done.
CHECK_DEADLOCK FALSE
