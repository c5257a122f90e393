SPECIFICATION FairSpec
CONSTANTS
  i1 = i1
  A = A
  B = B
  f1 = f1
  f2 = f2
  f3 = f3
  NoHash = NoHash
  Items = {i1}
  Assets = {A, B}
  Offers <- CollectorOffers
  BatchIds <- LotAndFresh
  Fresh <- FreshIds
  MayRebind = TRUE
  MaxScans = 2
  MaxLost = 1
  MaxFaults = 1
INVARIANTS DeliveredIsArchived
PROPERTIES EndedIsClosed AllDelivered
