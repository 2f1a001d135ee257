SPECIFICATION FairSpec
CONSTANTS
  Launchers = {1, 2}
  ChainKey <- OneKey
  Keys = {"k1"}
  Instructions = {"i1"}
  Difficulties = {1}
  Proofs = {p1}
  Owner <- OneOwner
  Requests = {r1}
  Followed = {}
  Several = {1}
  PageSize = 1
  MaxTime = 1
  MaxAborts = 1
INVARIANTS TypeOK NothingKeptOfUnknown PrunesOnlyInactive
PROPERTY GoneArePruned
