SPECIFICATION Spec
CONSTANTS
  Commits = {c1}
  Tasks = {t1}
  Contents = {x}
  Instants = {100, 111}
  Zones = {0}
  MaxDeps = 0
  MaxEvals = 1
  None = None
INVARIANTS
  GenuineVerifies
