SPECIFICATION FairSpec
CONSTANTS
  alpha = alpha
  beta = beta
  gamma = gamma
  Provider = {alpha, beta, gamma}
  Registered <- Trio
  Priority <- Priorities
  Configured = {alpha, beta, gamma}
  Call = {c1, c2}
  Threshold = 2
  OpenDuration = 1
  None = None
INVARIANTS
  TypeOK
  OutExactlyWhenFailing
  ScanFindsBest
PROPERTY
  RecoversFromCreates
