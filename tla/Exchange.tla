----------------------------- MODULE Exchange -----------------------------
(* The ATP Exchange, a remote service outside this repository, modelled    *)
(* from how core/client.py uses it: a catalogue of committed proof         *)
(* sketches, one for each task of a system, and a register of assessments, *)
(* one for each assessor, task and dimension (only the integrity           *)
(* dimension is written by the SDK on its own).                            *)
EXTENDS ATPData

CONSTANTS Assessors,    \* the registered systems that report assessments
          NoCommit,     \* the 404 of a task without a commit
          NoAssessment

VARIABLES commits,      \* commits[t]: the sketch committed for task t
          assessments   \* assessments[<<a, t>>]: the verdict of a about t

exchangeVars == <<commits, assessments>>

CommitStatus == {"confirmed", "failed"}
IntegrityAssessment == {"verified", "compromised"}
Sketches == [hash : Hashes, status : CommitStatus]

ASSUME ExchangeAssumption == /\ NoCommit \notin Sketches
                             /\ NoAssessment \notin IntegrityAssessment

ExchangeTypeOK ==
  /\ commits \in [Tasks -> Sketches \cup {NoCommit}]
  /\ assessments \in [Assessors \X Tasks -> IntegrityAssessment \cup {NoAssessment}]

ExchangeInit ==
  /\ commits = [t \in Tasks |-> NoCommit]
  /\ assessments = [at \in Assessors \X Tasks |-> NoAssessment]

(* POST /api/v1/commit.  The sketch of a task is signed as soon as it is   *)
(* recorded and does not change; a second commit of the task leaves it.    *)
RecordCommit(t, hash) ==
  /\ commits[t] = NoCommit
  /\ \E status \in CommitStatus :
        commits' = [commits EXCEPT ![t] = [hash |-> hash, status |-> status]]

(* POST /api/v1/assess.  A second assessment of the same dimension by the  *)
(* same assessor is answered 409 and dropped.                              *)
RecordAssessment(a, t, verdict) ==
  /\ assessments[<<a, t>>] = NoAssessment
  /\ assessments' = [assessments EXCEPT ![<<a, t>>] = verdict]
=============================================================================
