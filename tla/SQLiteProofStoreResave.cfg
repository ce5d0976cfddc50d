SPECIFICATION Spec
CONSTANTS
  Tasks = {t1}
  Contents = {x}
  Durable = {t1}
  NoProof = NoProof
  Callers = {p1, p2}
  GC = GC
  Nobody = Nobody
  Deletable = {}
  Resaved = {t1}
  TTL = 0
  MaxTime = 1
  MaxCalls = 4
  MaxFaults = 0
PROPERTIES
  KeepsPromise
