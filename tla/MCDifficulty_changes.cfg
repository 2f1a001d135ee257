SPECIFICATION Spec
CONSTANTS
  default_difficulty = 4
  min_difficulty = 2
  number_of_partials_target = 3
  time_target = 2
  ONE_HOUR = 1
  MaxUint64 = 7
  Delay = 0
  MaxRequestTime = 0
  Suggestions = {1}
  MaxLost = 1
  MaxSettings = 1
  Requests = {r1, r2}
  MaxTime = 5
  MaxPartials = 5
SYMMETRY SlotsAlike
INVARIANTS TypeOK NeverBelowMinimum RaisedOnFullFastWindow NoPartialUsedTwice
