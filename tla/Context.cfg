SPECIFICATION ContextSpec
CONSTANTS
  p1 = p1
  p2 = p2
  p3 = p3
  Tasks = {p1, p2, p3}
  Root = p1
  Contexts = {c1, c2}
  Adds = {a1, a2}
  None = None
  Requests = {r1, r2}
  MaxItems = 2
SYMMETRY Symmetry
INVARIANTS
  ContextTypeOK
  CurrentIsInnermost
  TasksDoNotMix
  CommitsItsDependencies
  ListedInOrder
  AllAreChallenged
