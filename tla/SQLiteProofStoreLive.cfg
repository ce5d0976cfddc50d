SPECIFICATION Spec
CONSTANTS
  Tasks = {t1}
  Contents = {x}
  Durable = {t1}
  NoProof = NoProof
  Callers = {p1, p2}
  GC = GC
  Nobody = Nobody
  Deletable = {}
  Resaved = {}
  TTL = 0
  MaxTime = 1
  MaxCalls = 2
  MaxFaults = 1
PROPERTIES
  CallsReturn
  ExpiredIsCollected
