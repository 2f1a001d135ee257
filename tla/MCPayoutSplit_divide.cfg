SPECIFICATION Spec
CONSTANTS
  FarmerCount = 3
  MaxReward = 31
  MaxPoints = 5
  BASIS = 10
  Fees = {0, 1, 6, 10, 12}
  MaxFee = 12
  MaxAdditions = 2
  Mantissa = 16
  Steps = {1, 2, 4, 8, 16, 32, 64, 128, 256, 512, 1024, 2048, 4096, 8192, 16384, 32768, 65536, 131072}
  Unit = 512
INVARIANTS NothingLostNothingMade MorePointsMorePay FeeIsTaken EveryoneInOneBatch
CHECK_DEADLOCK FALSE
