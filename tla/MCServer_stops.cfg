SPECIFICATION FairSpec
CONSTANTS
  Loops = {c, p}
  Requests = {r1, r2}
  Launchers = {l1}
  Keys = {k1, k2}
  Timeouts = {1, 3}
  MaxMinutes = 2
  MaxTime = 3
  MaxStarts = 2
  MaxTokens = 1
INVARIANTS TypeOK CallsOnlyWhatIsOpen
PROPERTIES LoopsKeepTriggering StopsWhenTold
CHECK_DEADLOCK FALSE
