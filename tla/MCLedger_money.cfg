SPECIFICATION Spec
CONSTANTS
  l1 = l1
  l2 = l2
  p1 = p1
  p2 = p2
  Launchers = {l1, l2}
  Proofs = {p1, p2}
  Owner <- OwnerEach
  Requests = {r1}
  Convertible = {l1, l2}
  NodeFaults = {}
  Delay = 0
  TimeLimit = 0
  MaxRequestTime = 0
  BatchSize = 2
  MaxAdditions = 1
  MaxTime = 2
  MaxClaims = 2
  MaxAborts = 1
  NoProof = NoProof
  NoLauncher = NoLauncher
INVARIANTS CreditedOnceUnlessUnrecorded AddPayoutNeverCollides SharedOnceUnlessUnsettled PaidClaimsWereShared RecordedRunPaidAllCounted ShownPointsArePaid
PROPERTY ImplementsAccounts
SYMMETRY Pairs
