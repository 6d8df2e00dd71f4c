SPECIFICATION Spec
CONSTANTS
  b1 = b1
  b2 = b2
  k1 = k1
  k2 = k2
  k3 = k3
  v1 = v1
  v2 = v2
  t1 = t1
  t2 = t2
  NoValue = NoValue
  Bucket = {b1, b2}
  Key = {k1}
  Value = {v1, v2}
  Task = {t1}
  MayUse <- TwoBuckets
  CacheSize = 1
  MaxInFlight = 0
INVARIANT GetOwnBucket
