SPECIFICATION Spec
CONSTANTS
  Tasks = {t1}
  Contents = {x}
  Durable = {}
  NoProof = NoProof
  Deletable = {}
  Unzoned = {}
  TTL = 0
  MaxTime = 1
  MaxStops = 1
INVARIANTS
  SavedIsWatched
