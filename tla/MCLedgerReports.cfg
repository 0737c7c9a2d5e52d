SPECIFICATION ReportsSpec
CONSTANTS
  t1 = t1
  t2 = t2
  Accounts <- MCAccounts
  Kind <- MCKind
  Txs = {t1, t2}
  Drafts <- MCDrafts
  Openings = {1}
  LimitChoices = {}
  Categories = {"food", "rent"}
  Category <- MCCategory
  TopCategories = 1
  PeriodDays = 1
  FirstToday = 2
  LastToday = 3
  LastDate = 3
INVARIANTS SeriesReplayLedger ReportsAgree
PROPERTIES PastStandsStill
CHECK_DEADLOCK FALSE
