SPECIFICATION FairSpec
CONSTANTS
  here = here
  n1 = n1
  n2 = n2
  d1 = d1
  NoNode = NoNode
  Node = {here, n1, n2}
  Local = {here}
  Exclude = {n2}
  Download = {d1}
  RetryLimit = 1
  Faults = TRUE
INVARIANTS
  TypeOK
  AvailableHaveUri
  
PROPERTY NextReturnsIfPolled
