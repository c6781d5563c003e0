CONSTANTS
  Conns = {c1, c2}
  Tokens = {t1, t2}
  Expiry = 1
  MaxTime = 4
SPECIFICATION FairSpec
PROPERTIES ImplementsLease NoEarlyLogout ExpiredCollected
