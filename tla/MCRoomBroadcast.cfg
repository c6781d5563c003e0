CONSTANTS
  Pages = {p, q}
  Visible = {p, q}
  Rollers = {p, q}
  Cleaners = {}
  Admins = {}
  Movers = {}
  Rooms = {main}
  HomeRoom = main
  Limit = 3
  MaxId = 2
  MaxFetches = 1
  MaxActs = 1
  MaxRequests = 2
  Lossy = FALSE
  Failing = {}
SPECIFICATION Spec
INVARIANT Broadcast
