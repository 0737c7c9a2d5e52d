SPECIFICATION MCSpec
CONSTANTS
  p1 = p1  p2 = p2
  Accounts <- MCAccounts
  Kind <- MCKind
  Txs = {t1}
  Drafts <- MCDrafts
  Openings = {1}
  LimitChoices = {}
  Legacy = {1, 2}
  Runs = {p1, p2}
  Escapes = {1}
  MaxEscapes = 2
  MaxFaults = 1
  Names = {"a", "b"}
  Baselines <- Journals
  MaxEntries = 6
  MaxNumber = 15
INVARIANTS DriftIsEscape CleanRunCovers MigrationsKeepFiles
PROPERTIES ImplementsOpenedLedger
