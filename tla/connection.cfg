\* Two sockets, two accounts that may share them, three event frames.
SPECIFICATION FairSpec
CONSTANTS
  r1 = r1
  r2 = r2
  Robots = {r1, r2}
  NoRobot = NoRobot
  MaxSockets = 2
  MaxFrames = 3
  MaxTasks = 1
  MaxSilent = 1
INVARIANTS NewestIsRegistered EndedAreUnregistered CallsKeepTheirConnection
PROPERTIES LostConnectionsEnd
CHECK_DEADLOCK FALSE
