CONSTANTS
  w1 = w1  r1 = r1  r2 = r2
  Ids = {1, 2}
  Owner <- OneOwner
  JobRuns = {r1, r2}
  BatchSize = 2
  FinalDay = 1
  MaxEdits = 1
  MaxFaults = 1
SPECIFICATION FairSpec
INVARIANTS OneRunSettles RenewalIsOwed
PROPERTY DueSettles
CHECK_DEADLOCK FALSE
