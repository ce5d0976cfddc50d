SPECIFICATION Spec
CONSTANTS
  Tasks = {t1, t2}
  Contents = {x}
  Durable = {t1, t2}
  NoProof = NoProof
  Callers = {p1, p2}
  GC = GC
  Nobody = Nobody
  Deletable = {t1}
  Resaved = {}
  TTL = 0
  MaxTime = 1
  MaxCalls = 3
  MaxFaults = 1
SYMMETRY CallerSymmetry
INVARIANTS
  TypeOK
  SchemaOnce
  OneWriter
  AckedIsDurable
PROPERTIES
  KeepsPromise
