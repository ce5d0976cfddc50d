SPECIFICATION ClientSpec
CONSTANTS
  None = None
  n1 = n1
  n2 = n2
  d1 = d1
  w1 = w1
  w2 = w2
  w3 = w3
  Names = {n1, n2}
  Details = {d1}
  Registrations = {p1, p2, p3}
  AdapterCalls = {p3}
  Works = {w1, w2, w3}
  WorkKind <- OneOfEachKind
  Challenges = {c1}
  Requests = {q1, q2}
  Ops = {"register_system", "create_commit", "get_commit",
         "get_system_commits", "get_commit_by_system_and_task", "get_system",
         "report_assessment", "get_assessments", "get_exchange_public_key",
         "verify_response"}
  Statuses = {200, 201, 401, 404, 409}
  Bodies = {"right", "text", "lacking", "odd"}
  Sessions = {s1, s2}
  Closers = {k1}
  MaxLoop = 2
SYMMETRY CallSymmetry
INVARIANTS
  ClientTypeOK
  CacheIsTrue
  AssessorIsChallenger
  SketchIsAuthoritative
  ProofFindsCommit
  OwnLoop
  NothingLeaks
  ErrorsArePromised
PROPERTIES
  RefusedOnlyAfterLeaving
