SPECIFICATION Spec
CONSTANTS
  ed = ed
  other = other
  short = short
  long = long
  p1 = p1
  p2 = p2
  t1 = t1
  t2 = t2
  NoEntry = NoEntry
  NoPeer = NoPeer
  NoTask = NoTask
  PK = {ed}
  Ed25519PK = {ed}
  Data = {short, long}
  LongData = {long}
  TrustedEntry = {}
  MaxRevision = 1
  Peer = {p1}
  Task = {t1, t2}
  PollLimit = 2
SYMMETRY TaskSymmetry
INVARIANTS
  TypeOK
  Vouched
  AcceptedIsKept
  GetFindsStored
  ListenersReachable
PROPERTY RevisionDropsOnlyInRace
