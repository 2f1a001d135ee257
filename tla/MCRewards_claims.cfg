SPECIFICATION FairSpec
CONSTANTS
  l1 = l1
  l2 = l2
  r1 = r1
  r2 = r2
  r3 = r3
  Launchers = {l1, l2}
  Rewards = {r1, r2}
  RewardOf <- OneEach
  Dust = {}
  Untracked = {}
  MaxMoves = 1
  NoLauncher = NoLauncher
  MaxAborts = 1
INVARIANTS TypeOK EveryRewardBehindOneClaim ForwardedIsClaimed
PROPERTY RewardsAreForwarded
