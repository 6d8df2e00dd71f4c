SPECIFICATION FairSpec
CONSTANTS
  ed = ed
  other = other
  short = short
  long = long
  p1 = p1
  p2 = p2
  t1 = t1
  t2 = t2
  NoEntry = NoEntry
  NoPeer = NoPeer
  NoTask = NoTask
  PK = {ed, other}
  Ed25519PK = {ed}
  Data = {short, long}
  LongData = {long}
  TrustedEntry <- MCTrusted
  MaxRevision = 2
  Peer = {p1, p2}
  Task = {t1}
  PollLimit = 3
PROPERTIES
  RevisionNeverLowered
  CallsReturn
