\* Two accounts with a room of the same name, pages of two messages.
SPECIFICATION FairSpec
CONSTANTS
  a = a
  b = b
  r = r
  s = s
  Accounts = {a, b}
  Rooms = {r, s}
  Nothing = Nothing
  Messages = {1, 2, 3, 4, 5}
  VisibleTo <- Visibility
  RoomOf <- Places
  TimeOf <- Times
  SequenceOf <- Sequences
  WithMedia = {2}
  Matching = {3}
  Early = {1, 2, 4, 5}
  First = a
  PageSize = 2
  MaxPage = 3
  MaxClicks = 3
  MaxInFlight = 2
  MaxFaults = 1
INVARIANTS ShownIsAsked SidebarIsOfAccount
PROPERTIES TimelineSettles HistoryReachesStart
CHECK_DEADLOCK FALSE
