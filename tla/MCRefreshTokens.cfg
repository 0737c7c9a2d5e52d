SPECIFICATION FairSpec
CONSTANTS
  r1 = r1
  r2 = r2
  Reqs = {r1, r2}
  Mortal = {r2}
  Hops = 2
  MaxTok = 2
INVARIANTS ChainIsLinear NoFalseAlarm RevokedStaysOut
PROPERTY ReuseEndsSession
CHECK_DEADLOCK FALSE
