---------------------------- MODULE ATPProtocol ----------------------------
(* The protocol as a whole: agents that commit their tasks and systems     *)
(* that challenge them, over one exchange and the agents' proof stores.    *)
EXTENDS TaskCommit, Challenge

vars == <<storeVars, exchangeVars, commitVars, challengeVars>>

Init == StoreInit /\ ExchangeInit /\ CommitInit /\ ChallengeInit

(* Every run and call is over and the network and the clock are at rest.   *)
Terminated == /\ \A r \in Runs : run[r] \in Ended /\ post[r] # "wire"
              /\ \A c \in Calls : call[c] = "done" /\ report[c] # "wire"
              /\ now = MaxTime
              /\ UNCHANGED vars

Next == \/ CommitNext /\ UNCHANGED challengeVars
        \/ ChallengeNext /\ UNCHANGED commitVars
        \/ Terminated

(* A coroutine that waits is woken: by the reply, or by the timeout httpx  *)
(* is given for every request (config.commit_timeout, 30 seconds).         *)
(* Nothing is assumed of the body of a task, the network or the clock.     *)
Fairness ==
  /\ \A r \in Runs : WF_vars(/\ run[r] # "body"
                             /\ RunStep(r)
                             /\ UNCHANGED challengeVars)
  /\ \A c \in Calls : WF_vars(CallStep(c) /\ UNCHANGED commitVars)

Spec == Init /\ [][Next]_vars /\ Fairness

-----------------------------------------------------------------------------
TypeOK == StoreTypeOK /\ ExchangeTypeOK /\ CommitTypeOK /\ ChallengeTypeOK

FreshRuns == Runs \ AdapterRuns
Catalogued(t) == commits[t] # NoCommit

(* A run whose _committed flag is set is on the exchange, and an atp_task  *)
(* run is there with the hash of its own content: the flag is set after    *)
(* the reply of create_commit, whatever is lost, late or refused.          *)
CommittedIsCatalogued ==
  \A r \in Runs :
    Committed(r) =>
      /\ Catalogued(TaskOf[r])
      /\ r \in FreshRuns => commits[TaskOf[r]].hash = Hash(ContentOf[r])

(* _commit saves before it commits, so what the exchange shows of an       *)
(* atp_task run can be proved by the agent until the TTL is over, through  *)
(* any crash, as long as the store is durable.                             *)
CataloguedIsBacked ==
  \A r \in FreshRuns :
    TaskOf[r] \in Durable /\ Catalogued(TaskOf[r]) =>
      store[TaskOf[r]] = ProofOf(r) \/ made[r] + TTL < now

(* An atp_task body that has not ended, raised or gave no response leaves  *)
(* nothing on the exchange (__aexit__ checks exc_type and the response).   *)
UnfinishedPublishesNothing ==
  \A r \in FreshRuns :
    run[r] \in {"body", "skipped", "aborted", "saving", "saved"} =>
      ~Catalogued(TaskOf[r])

(* verified = True means, whoever answered: the content received is the    *)
(* one the exchange confirms for the task the answer names, and the        *)
(* expected one.  It is the task asked for if the agent is made with this  *)
(* SDK; nothing in the two functions says so of another agent.             *)
VerifiedIsSound ==
  \A c \in Calls :
    result[c] = "verified" =>
      /\ commits[TaskNamed(c)] =
           [hash |-> Hash(received[c].content), status |-> "confirmed"]
      /\ request[c].expect \in {NoContent, received[c].content}
      /\ request[c].agent = "sdk" => TaskNamed(c) = TaskAsked(c)

Evidence(c) ==
  \/ Hash(received[c].content) # received[c].hash
  \/ /\ Catalogued(TaskNamed(c))
     /\ commits[TaskNamed(c)].hash # received[c].hash
  \/ request[c].expect \notin {NoContent, received[c].content}

(* challenge_and_verify reports a proof as compromised only when a         *)
(* comparison failed: network and exchange errors are no evidence.         *)
CompromisedHasEvidence ==
  \A c \in Calls : Cautious(c) /\ result[c] = "compromised" => Evidence(c)

(* The same of challenge(), which the code does not keep: a network error, *)
(* a commit still on its way or a failed commit is reported as compromised.*)
AmbiguousIsNotCompromised ==
  \A c \in Calls : result[c] = "compromised" => Evidence(c)

(* All runs of the task have one content and none is given artifacts: an   *)
(* atp_task, or an on_task_complete repeated with the same arguments.      *)
Steady(t) == \A r, s \in Runs :
               TaskOf[r] = t /\ TaskOf[s] = t =>
                 ContentOf[r] = ContentOf[s] /\ r \notin ArtifactRuns

(* The exchange never holds the verdict compromised against the runs of a  *)
(* steady task, unless the assessor used challenge(), expected another     *)
(* content or asked an agent that is not made with this SDK: whatever is   *)
(* lost, late, repeated, expired or restarted, honest work is not blamed.  *)
HonestNeverCompromised ==
  \A r \in Runs, a \in Assessors :
    Steady(TaskOf[r]) /\ assessments[<<a, TaskOf[r]>>] = "compromised" =>
      \E c \in Calls : /\ AssessorOf[c] = a
                       /\ received[c] # NoProof
                       /\ TaskNamed(c) = TaskOf[r]
                       /\ \/ ~Cautious(c)
                          \/ request[c].agent = "other"
                          \/ request[c].expect \notin {NoContent, ContentOf[r]}

(* Every verdict on the exchange was reached by a call of that assessor    *)
(* that had a proof of the task in its hands: an unreachable agent, a      *)
(* missing or an expired proof never leaves a verdict.                     *)
VerdictIsEarned ==
  \A a \in Assessors, t \in Tasks :
    assessments[<<a, t>>] # NoAssessment =>
      \E c \in Calls : /\ AssessorOf[c] = a
                       /\ received[c] # NoProof
                       /\ TaskNamed(c) = t
                       /\ result[c] = assessments[<<a, t>>]

(* The protocol does what its abstract specification promises: what the    *)
(* Exchange shows is written once and never changes, verified is said of   *)
(* confirmed work, and steady work is not blamed.                          *)
Produced == [t \in Tasks |-> {ContentOf[r] : r \in {s \in Runs : TaskOf[s] = t}}]
SteadyTasks == {t \in Tasks : Steady(t)}
Decided(c) == result[c] \in IntegrityAssessment
Verdict == [c \in Calls |-> IF Decided(c) THEN result[c] ELSE "none"]
About == [c \in Calls |-> IF Decided(c) THEN TaskNamed(c) ELSE TaskAsked(c)]
Promised == INSTANCE Attestation WITH verdict <- Verdict, about <- About
Attests == Promised!AttestationSpec

(* A run that has begun to save its proof ends, whatever is lost.          *)
RunsEnd == \A r \in Runs : run[r] = "saving" ~> run[r] \in Ended

(* A call returns or raises, whatever is lost.                             *)
CallsEnd == \A c \in Calls : call[c] = "asking" ~> call[c] = "done"
=============================================================================
