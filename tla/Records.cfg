SPECIFICATION RecordsSpec
CONSTANTS
  Commits = {c1, c2}
  Tasks = {t1, t2}
  Contents = {x, y}
  Instants = {100, 110, 111}
  Zones <- SomeZones
  MaxDeps = 1
  MaxEvals = 1
  None = None
  Rows = {t1, t2}
  Offsets <- SomeOffsets
  TTL = 3
  MaxTime = 10
  NoRow = NoRow
SYMMETRY Symmetry
INVARIANTS
  RecordsTypeOK
  UtcIsAccepted
  HashesAreReproducible
  HashIdentifies
  TextOrderIsTimeOrder
