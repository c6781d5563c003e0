CONSTANTS
  Pages = {w, r}
  Visible = {w}
  Rollers = {r}
  Cleaners = {}
  Admins = {r}
  Movers = {}
  Rooms = {main}
  HomeRoom = main
  Limit = 2
  MaxId = 3
  MaxFetches = 2
  MaxActs = 1
  MaxRequests = 2
  Lossy = FALSE
  Failing = {}
SPECIFICATION FairSpec
CHECK_DEADLOCK FALSE
INVARIANT NoGap
PROPERTY CatchesUp
