SPECIFICATION FairSpec
CONSTANTS
  self = self
  a = a
  b = b
  ip1 = ip1
  c1 = c1
  c2 = c2
  t1 = t1
  t2 = t2
  Self = self
  NoId = NoId
  NoIP = NoIP
  NoConn = NoConn
  NoMsg = NoMsg
  IP = {ip1}
  Id = {self, a}
  Conn = {c1}
  Task = {t1, t2}
  Initial = {a}
  Inputs <- SendingInputs
  ConfigBlock = {}
  MaxAttempts = 0
  MaxFailures = 1
  ErrCap = 1
PROPERTIES
  ClosedConnectionsEnd
  ClosedNotPending
  TasksEnd
