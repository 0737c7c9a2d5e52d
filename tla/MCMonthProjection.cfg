CONSTANTS
  FirstDay <- Starts
  LastMonth = 8
  DaysPerWeek = 2
  MonthsPerYear = 2
  MaxInstallments = 3
  Schedules <- AllSchedules
  Amounts = {1}
  Totals = {5}
  Counts = {2, 3}
  LookAhead = 1
  MaxGen = 2
  MaxSteps = 4
  FirstToday = 2
  LastToday = 4
  LastDate = 5
  MaxEdits = 1
  Categories = {"rent", "food"}
  Spent = {1, 4, 5}
  Length <- Lengths
  Histories <- Pasts
  LookBack = 3
  MinBasis = 2
  MaxBasis = 3
  MinActiveDays = 1
  DetectionMonths = 2
  MaxEntries = 2
  RatioNum = 3
  RatioDen = 2
  MaxRows = 2
SPECIFICATION MCSpec
INVARIANTS CountNamesEnd PlanDelivers ExpenseCountsOnce
PROPERTIES ProjectionAnticipates
CHECK_DEADLOCK FALSE
