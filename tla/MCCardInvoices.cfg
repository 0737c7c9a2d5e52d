CONSTANTS
  t1 = t1  t2 = t2  t3 = t3
  FirstDay <- Starts
  LastMonth = 4
  Days = {4, 6, 7}
  Cycles <- TwoCycles
  Ids = {t1, t2, t3}
  CardAmounts = {1}
  Limits = {2}
  StartDay = 6
  StopDay = 7
  MaxDrops = 1
SPECIFICATION CardSpec
INVARIANTS CycleTiles InvoiceMatchesCard DebtCarriesOver
PROPERTIES PaidStaysPaid
SYMMETRY Symmetry
CHECK_DEADLOCK FALSE
