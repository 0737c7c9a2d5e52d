SPECIFICATION IdempotentLiveSpec
CONSTANTS
  w1 = w1
  w2 = w2
  r1 = r1
  Free = Free
  Nobody = Nobody
  Writers = {w1, w2}
  Readers = {r1}
  MaxVersion = 3
  MaxClock = 3
  MaxGen = 5
  MaxLapses = 1
  Faults = TRUE
INVARIANTS FreshAfterWrite OneCommitAKey
PROPERTIES StaleFades
