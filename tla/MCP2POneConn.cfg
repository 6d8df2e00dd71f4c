SPECIFICATION Spec
CONSTANTS
  self = self
  a = a
  b = b
  ip1 = ip1
  c1 = c1
  c2 = c2
  t1 = t1
  t2 = t2
  Self = self
  NoId = NoId
  NoIP = NoIP
  NoConn = NoConn
  NoMsg = NoMsg
  IP = {ip1}
  Id = {self, a, b}
  Conn = {c1}
  Task = {t1, t2}
  Initial = {a}
  Inputs <- AllInputs
  ConfigBlock = {b}
  MaxAttempts = 0
  MaxFailures = 2
  ErrCap = 1
SYMMETRY Symmetry
INVARIANTS
  TypeOK
  BucketsOpenBeforeUse
  DialsBounded
  BlockedForCause
