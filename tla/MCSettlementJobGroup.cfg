CONSTANTS
  w1 = w1  r1 = r1  r2 = r2
  Ids = {1, 2}
  Owner <- OneOwner
  JobRuns = {r1}
  BatchSize = 1
  FinalDay = 1
  MaxEdits = 1
  MaxFaults = 0
SPECIFICATION FairSpec
PROPERTY GroupSettles
