SPECIFICATION FairSpec
CONSTANTS
  n1 = n1
  n2 = n2
  n3 = n3
  Node = {n1, n2, n3}
  Link <- PathLinks
  Scenarios <- FailingOrFar
INVARIANTS
  TypeOK
  NoAskerForgotten
PROPERTIES
  Quiescence
  RequesterLearns
CHECK_DEADLOCK FALSE
