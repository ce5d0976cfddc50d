SPECIFICATION Spec
CONSTANTS
  Tasks = {t1, t2}
  Contents = {x, y}
  Durable = {}
  NoProof = NoProof
  Deletable = {t1}
  Unzoned = {y}
  TTL = 1
  MaxTime = 3
  MaxStops = 2
PROPERTIES
  KeepsPromise
  ExpiredIsCollected
  StopReturns
