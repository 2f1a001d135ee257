SPECIFICATION Spec
CONSTANTS
  l1 = l1
  l2 = l2
  p1 = p1
  p2 = p2
  Launchers = {l1}
  Proofs = {p1, p2}
  Owner <- OneOwner
  Requests = {r1}
  Convertible = {l1}
  NodeFaults = {}
  Delay = 1
  TimeLimit = 0
  MaxRequestTime = 0
  BatchSize = 1
  MaxAdditions = 1
  MaxTime = 4
  MaxClaims = 1
  MaxAborts = 0
  NoProof = NoProof
  NoLauncher = NoLauncher
INVARIANT ConfirmedWorkIsPayable
