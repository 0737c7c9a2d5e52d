SPECIFICATION FairSpec
CONSTANTS
  Accounts <- MCAccounts
  Kind <- MCKind
  Txs = {t1, t2}
  Reqs = {r1, r2}
  NoReq = NoReq
  NoTx = NoTx
  Drafts <- MCDrafts
  Openings = {1, 2}
  LimitChoices = {3}
INVARIANTS MovementsExplainBalance EffectsAppliedOnce NoOverdraft NoWaitCycle
PROPERTIES ImplementsAtomicLedger CardBand EveryRequestEnds
CHECK_DEADLOCK FALSE
