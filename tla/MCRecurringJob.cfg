SPECIFICATION DailySpec
CONSTANTS
  r1 = r1
  r2 = r2
  c1 = c1
  Runs = {r1, r2}
  Clients = {c1}
  Rules = {1, 2}
  Batch = 1
  LookAhead = 1
  MaxGen = 2
  LastDay = 1
  Steps = {1}
  Edits = {"toggle", "end", "delete", "break"}
  LastFault = 0
  Casts <- SmallCasts
INVARIANTS GeneratedOnSchedule OneRunADay
PROPERTIES EveryDateComes
