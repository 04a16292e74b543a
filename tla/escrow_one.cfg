\* One task, every caller, owner and signer changes, all windows; the parties are fair.
SPECIFICATION LiveSpec
CONSTANTS
  t1 = t1
  t2 = t2
  platform = platform
  kms = kms
  alice = alice
  bob = bob
  spec1 = spec1
  spec2 = spec2
  work1 = work1
  work2 = work2
  TaskIds = {t1}
  Accounts = {platform, kms, alice, bob}
  ZeroAddress = ZeroAddress
  Escrow = Escrow
  SpecHashes = {spec1}
  EvidenceHashes = {work1, work2}
  ZeroHash = ZeroHash
  Signed <- SignedOne
  Nonces = {1, 2}
  Amounts = {0, 1}
  InitialUsdc <- MCUsdc
  Deployer = platform
  InitialSigner = kms
  WorkerCandidates = {ZeroAddress, Escrow, platform, alice, bob}
  OwnerCandidates = {bob}
  SignerCandidates = {kms}
  MIN_REVIEW_WINDOW = 1
  MAX_REVIEW_WINDOW = 2
  ARBITRATION_WINDOW = 2
  MAX_DEADLINE_HORIZON = 2
  FundingCutoff = 1
  MaxTime = 7
INVARIANTS
  TypeOK
  Custody
  RefundHasCause
  WorkerClaimHasCause
  WorstCaseWait
PROPERTIES
  CommitmentsFrozen
  ImplementsLifecycle
  DeliveredIsSettled
  FundedIsLeft
\* The clock stops at MaxTime, and a settled escrow that nobody owns is done.
CHECK_DEADLOCK FALSE
