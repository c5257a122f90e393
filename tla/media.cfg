\* Three messages, pages of two, audits of one, two arrivals, one fault; the
\* last message comes from an archive without rows.
SPECIFICATION FairSpec
CONSTANTS
  gone = gone
  picture = picture
  talk = talk
  Contents = {gone, picture, talk}
  Slots <- ThreeMessages
  Forwards = {talk}
  Dead = {gone}
  Legacy = {3}
  Early = {1}
  Limit = 2
  BatchSize = 2
  AuditLimit = 1
  MaxArrivals = 2
  MaxFaults = 1
INVARIANTS LocalIsServed ReadyMeansServed
PROPERTIES EventuallyArchived
CHECK_DEADLOCK FALSE
