SPECIFICATION FairSpec
CONSTANTS
  l1 = l1
  l2 = l2
  r1 = r1
  r2 = r2
  r3 = r3
  Launchers = {l1}
  Rewards = {r1, r2}
  RewardOf <- BothOfOne
  Dust = {}
  Untracked = {}
  MaxMoves = 0
  NoLauncher = NoLauncher
  MaxAborts = 0
PROPERTY RewardsAreForwarded
