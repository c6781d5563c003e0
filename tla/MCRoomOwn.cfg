CONSTANTS
  Pages = {p}
  Visible = {p}
  Rollers = {p}
  Cleaners = {p}
  Admins = {p}
  Movers = {p}
  Rooms = {main, side}
  HomeRoom = main
  Limit = 3
  MaxId = 3
  MaxFetches = 2
  MaxActs = 2
  MaxRequests = 2
  Lossy = TRUE
  Failing = {side}
SPECIFICATION Spec
INVARIANTS NoRollTwice RoomLogged
