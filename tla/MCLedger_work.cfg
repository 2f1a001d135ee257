SPECIFICATION Spec
CONSTANTS
  l1 = l1
  l2 = l2
  p1 = p1
  p2 = p2
  Launchers = {l1}
  Proofs = {p1}
  Owner <- OneOwner
  Requests = {r1, r2}
  Convertible = {l1}
  NodeFaults = {"reorg", "forget"}
  Delay = 3
  TimeLimit = 1
  MaxRequestTime = 1
  BatchSize = 1
  MaxAdditions = 1
  MaxTime = 8
  MaxClaims = 0
  MaxAborts = 0
  NoProof = NoProof
  NoLauncher = NoLauncher
INVARIANTS TypeOK SafetyInv
PROPERTIES OnlyVettedConfirmed ConfirmedIsFinal
