SPECIFICATION Spec
CONSTANTS
  t1 = t1
  t2 = t2
  r1 = r1
  r2 = r2
  r3 = r3
  r4 = r4
  x = x
  y = y
  a1 = a1
  c1 = c1
  c2 = c2
  NoProof = NoProof
  NoCommit = NoCommit
  NoAssessment = NoAssessment
  NoContent = NoContent
  Deletable = {}
  Contents = {x, y}
  MaxCrashes = 1
  Assessors = {a1}
  Registered = {a1}
  Agents = {"sdk"}
  Tasks = {t1}
  Durable = {t1}
  Runs = {r1}
  AdapterRuns = {}
  ArtifactRuns = {}
  TaskOf <- OneTaskOf
  ContentOf <- OneContentOf
  TTL = 1
  MaxTime = 2
  Calls = {c1, c2}
  AssessorOf <- TwoCalls
INVARIANTS
  TypeOK
  CommittedIsCatalogued
  CataloguedIsBacked
  UnfinishedPublishesNothing
PROPERTIES
  RunsEnd
  CallsEnd
