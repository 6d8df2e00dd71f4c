SPECIFICATION FairSpec
CONSTANTS
  n1 = n1
  n2 = n2
  Node = {n1, n2}
  Link <- PairLinks
  Client = Client
  MaxRevision = 2
  Requester = {n1}
PROPERTIES
  QueriesEnd
  AskersCatchUp
CHECK_DEADLOCK FALSE
