-------------------------- MODULE ATPProtocolProofs --------------------------
(* Safety of the protocol, for any number of tasks, runs, calls and        *)
(* assessors and any bounds; and that it implements Attestation.           *)
EXTENDS ATPProtocolMC, TLAPS

(* A call without a verdict has reported nothing; one with a verdict holds *)
(* a proof, which is of the task asked for if an agent of this SDK sent    *)
(* it.  It is what makes the types of the exchange inductive: what a       *)
(* report writes there is a verdict.                                       *)
CallInv ==
  \A c \in Calls :
    /\ call[c] \in {"idle", "asking", "received", "querying"} =>
         result[c] = "none" /\ report[c] = "none"
    /\ call[c] \in {"received", "querying", "reporting"} =>
         received[c] # NoProof
    /\ call[c] = "querying" => Hash(received[c].content) = received[c].hash
    /\ call[c] = "reporting" => result[c] \in IntegrityAssessment
    /\ report[c] # "none" => result[c] \in IntegrityAssessment
    /\ result[c] \in IntegrityAssessment => received[c] # NoProof
    /\ received[c] # NoProof /\ request[c].agent = "sdk" => TaskNamed(c) = TaskAsked(c)

-----------------------------------------------------------------------------
(* The proof a run builds is one a store can keep.                         *)
LEMMA ProofOfType ==
  ASSUME CommitTypeOK, NEW r \in Runs
  PROVE  ProofOf(r) \in StoredProofs
BY RunAssumption, StoreAssumption
   DEF CommitTypeOK, ProofOf, NewProof, StoredProofs, Hashes

LEMMA InitTypes == Init => TypeOK /\ CallInv
<1> SUFFICES ASSUME Init PROVE TypeOK /\ CallInv
  OBVIOUS
<1> USE StoreAssumption, RunAssumption DEF Init
<1>1. StoreTypeOK
  BY DEF StoreInit, StoreTypeOK
<1>2. ExchangeTypeOK
  BY DEF ExchangeInit, ExchangeTypeOK
<1>3. CommitTypeOK
  BY DEF CommitInit, CommitTypeOK, RunStates, Ended, PostStates
<1>4. ChallengeTypeOK
  BY DEF ChallengeInit, ChallengeTypeOK, CallStates, Results, ReportStates
<1>5. CallInv
  BY DEF ChallengeInit, CallInv, IntegrityAssessment
<1> QED
  BY <1>1, <1>2, <1>3, <1>4, <1>5 DEF TypeOK

(* A step of the committing side keeps the types.                          *)
LEMMA CommitTypes ==
  ASSUME StoreTypeOK, ExchangeTypeOK, CommitTypeOK, CommitNext
  PROVE  StoreTypeOK' /\ ExchangeTypeOK' /\ CommitTypeOK'
<1> USE StoreAssumption, RunAssumption, DataAssumption
    DEF StoreTypeOK, ExchangeTypeOK, CommitTypeOK, RunStates, Ended, PostStates,
        sharedVars, storeVars, exchangeVars, commitVars, Goto
<1>1. CASE \E r \in Runs : RunStep(r)
  <2>1. PICK r \in Runs : RunStep(r)
    BY <1>1
  <2>2. CASE BodyEnds(r)
    BY <2>2 DEF BodyEnds, Committed
  <2>3. CASE BodyRaises(r) \/ NoResponse(r) \/ SendCommit(r)
    BY <2>3 DEF BodyRaises, NoResponse, SendCommit
  <2>4. CASE SaveProof(r) \/ SaveFails(r)
    BY <2>4, ProofOfType DEF SaveProof, SaveFails, Put
  <2>5. CASE CommitReply(r) \/ CommitFails(r)
    BY <2>5 DEF CommitReply, CommitFails
  <2> QED
    BY <2>1, <2>2, <2>3, <2>4, <2>5 DEF RunStep
<1>2. CASE \E r \in Runs : CommitArrives(r)
  <2>1. PICK r \in Runs : CommitArrives(r)
    BY <1>2
  <2>2. Hash(ContentOf[r]) \in Hashes
    BY DEF Hashes
  <2>3. commits' \in [Tasks -> Sketches \cup {NoCommit}]
    BY <2>1, <2>2 DEF CommitArrives, RecordCommit, Sketches
  <2> QED
    BY <2>1, <2>3 DEF CommitArrives
<1>3. CASE \E r \in Runs : CommitLost(r)
  BY <1>3 DEF CommitLost
<1>4. CASE \E t \in Tasks : MutateArtifacts(t)
  <2>1. PICK t \in Tasks, content \in Contents :
          /\ MutateArtifacts(t)
          /\ store[t] # NoProof
          /\ store' = [store EXCEPT ![t].content = content]
    BY <1>4 DEF MutateArtifacts, Holds
  <2>2. [store[t] EXCEPT !.content = content] \in StoredProofs
    BY <2>1 DEF StoredProofs
  <2>3. store' \in [Tasks -> StoredProofs \cup {NoProof}]
    BY <2>1, <2>2
  <2> QED
    BY <2>1, <2>3 DEF MutateArtifacts
<1>5. CASE \E t \in Tasks : EvictProof(t)
  BY <1>5 DEF EvictProof, Evict
<1>6. CASE Crash
  BY <1>6 DEF Crash, LoseMemory
<1>7. CASE TimePasses
  BY <1>7 DEF TimePasses, Tick
<1> QED
  BY <1>1, <1>2, <1>3, <1>4, <1>5, <1>6, <1>7 DEF CommitNext

(* A step of the verifying side keeps the types and CallInv.               *)
LEMMA ChallengeTypes ==
  ASSUME TypeOK, CallInv, ChallengeNext
  PROVE  StoreTypeOK' /\ ExchangeTypeOK' /\ ChallengeTypeOK' /\ CallInv'
<1> USE CallAssumption
    DEF TypeOK, StoreTypeOK, ExchangeTypeOK, ChallengeTypeOK, CallInv, CallStates,
        Results, ReportStates, IntegrityAssessment, storeVars, exchangeVars, Goes,
        TaskAsked, TaskNamed
<1>0. \A c \in Calls : /\ request[c].task \in Tasks
                       /\ received[c] # NoProof => received[c].task \in Tasks
  BY DEF Requests, Answers
<1>1. PICK c \in Calls : CallStep(c) \/ ReportArrives(c) \/ ReportLost(c)
  BY DEF ChallengeNext
<1>2. CASE Ask(c)
  BY <1>2 DEF Ask, Ends
<1>3. CASE Respond(c)
  <2>1. store' \in [Tasks -> StoredProofs \cup {NoProof}]
    BY <1>0, <1>3 DEF Respond, Evict
  <2>2. CASE call'[c] = "received"
    <3>1. store[request[c].task] \in StoredProofs
      BY <1>0, <1>3, <2>2 DEF Respond, Ends, Live, Holds
    <3>2. AnswerFrom(request[c].task) \in Answers
      BY <1>0, <3>1 DEF AnswerFrom, Answers, StoredProofs
    <3>3. /\ call[c] = "asking"
          /\ Goes(c, "received")
          /\ received' = [received EXCEPT ![c] = AnswerFrom(request[c].task)]
          /\ UNCHANGED <<result, report, request, now, commits, assessments>>
      BY <1>3, <2>2 DEF Respond, Ends
    <3>4. AnswerFrom(request[c].task).task = request[c].task
      BY DEF AnswerFrom
    <3> QED
      BY <2>1, <3>2, <3>3, <3>4
  <2>3. CASE call'[c] # "received"
    <3>1. /\ Ends(c, "error")
          /\ call[c] = "asking"
          /\ UNCHANGED <<received, request, now, commits, assessments>>
      BY <1>3, <2>3 DEF Respond
    <3> QED
      BY <2>1, <3>1 DEF Ends
  <2> QED
    BY <2>2, <2>3
<1>4. CASE AskFails(c) \/ RespondOther(c)
  BY <1>4 DEF AskFails, RespondOther, Ends
<1>5. CASE CheckContent(c)
  BY <1>5 DEF CheckContent, Ends, Judge
<1>6. CASE CheckSketch(c)
  BY <1>6 DEF CheckSketch, Ends, Judge, Undecided
<1>7. CASE QueryFails(c)
  BY <1>7 DEF QueryFails, Ends, Judge, Undecided
<1>8. CASE ReportEnds(c)
  BY <1>8 DEF ReportEnds
<1>9. CASE ReportArrives(c)
  <2>1. AssessorOf[c] \in Assessors /\ result[c] \in IntegrityAssessment
    BY <1>9 DEF ReportArrives
  <2>2. received[c].task \in Tasks
    BY <1>0, <2>1
  <2>3. assessments' \in [Assessors \X Tasks -> IntegrityAssessment \cup {NoAssessment}]
    BY <1>9, <2>1, <2>2 DEF ReportArrives, RecordAssessment
  <2> QED
    BY <1>9, <2>3 DEF ReportArrives
<1>10. CASE ReportLost(c)
  BY <1>10 DEF ReportLost
<1> QED
  BY <1>1, <1>2, <1>3, <1>4, <1>5, <1>6, <1>7, <1>8, <1>9, <1>10 DEF CallStep

(* What a step leaves alone keeps its type.                                *)
LEMMA NextTypes ==
  ASSUME TypeOK, CallInv, [Next]_vars
  PROVE  TypeOK' /\ CallInv'
<1>1. CASE CommitNext /\ UNCHANGED challengeVars
  <2>1. StoreTypeOK' /\ ExchangeTypeOK' /\ CommitTypeOK'
    BY <1>1, CommitTypes DEF TypeOK
  <2>2. ChallengeTypeOK' /\ CallInv'
    BY <1>1 DEF challengeVars, TypeOK, ChallengeTypeOK, CallInv, TaskNamed, TaskAsked
  <2> QED
    BY <2>1, <2>2 DEF TypeOK
<1>2. CASE ChallengeNext /\ UNCHANGED commitVars
  <2>1. CommitTypeOK'
    BY <1>2 DEF commitVars, TypeOK, CommitTypeOK
  <2> QED
    BY <1>2, <2>1, ChallengeTypes DEF TypeOK
<1>3. CASE UNCHANGED vars
  BY <1>3 DEF vars, storeVars, exchangeVars, commitVars, challengeVars, TypeOK,
     StoreTypeOK, ExchangeTypeOK, CommitTypeOK, ChallengeTypeOK, CallInv, TaskNamed,
     TaskAsked
<1> QED
  BY <1>1, <1>2, <1>3 DEF Next, Terminated

(* Type correctness of the protocol.                                       *)
THEOREM TypeCorrect == Spec => [](TypeOK /\ CallInv)
BY InitTypes, NextTypes, PTL DEF Spec

-----------------------------------------------------------------------------
(* The committing side.  Nothing is posted before the proof is saved, the  *)
(* flag follows the reply, and what is catalogued was posted by a run.     *)
CommitInv ==
  /\ \A r \in Runs : run[r] \in {"body", "skipped", "aborted", "saving", "saved"} =>
                      post[r] = "none"
  /\ \A r \in Runs : Committed(r) => post[r] = "created"
  /\ \A r \in Runs : post[r] = "created" => Catalogued(TaskOf[r])
  /\ \A t \in Tasks : Catalogued(t) =>
       \E r \in Runs : /\ TaskOf[r] = t
                       /\ post[r] = "created"
                       /\ commits[t].hash = Hash(ContentOf[r])

(* From the save on, the proof of an atp_task run is there or has expired. *)
BackedInv ==
  \A r \in FreshRuns :
    TaskOf[r] \in Durable /\ (run[r] = "saved" \/ post[r] # "none") =>
      store[TaskOf[r]] = ProofOf(r) \/ made[r] + TTL < now

(* The exchange never changes a commit.                                    *)
LEMMA CommitsStay ==
  ASSUME TypeOK, [Next]_vars, NEW t \in Tasks, Catalogued(t)
  PROVE  commits'[t] = commits[t]
<1> USE DEF Catalogued, exchangeVars
<1>1. CASE CommitNext
  BY <1>1 DEF CommitNext, RunStep, BodyEnds, BodyRaises, NoResponse, SaveProof,
     SaveFails, SendCommit, CommitReply, CommitFails, CommitArrives, CommitLost,
     MutateArtifacts, EvictProof, Crash, TimePasses, sharedVars, RecordCommit,
     TypeOK, ExchangeTypeOK
<1>2. CASE ChallengeNext
  BY <1>2 DEF ChallengeNext, CallStep, Ask, Respond, RespondOther, AskFails, CheckContent,
     CheckSketch, QueryFails, ReportEnds, ReportArrives, ReportLost
<1>3. CASE UNCHANGED vars
  BY <1>3 DEF vars
<1> QED
  BY <1>1, <1>2, <1>3 DEF Next, Terminated

LEMMA CommitInvStep ==
  ASSUME TypeOK, CommitInv, [Next]_vars
  PROVE  CommitInv'
<1> USE RunAssumption DEF TypeOK, ExchangeTypeOK, CommitTypeOK, CommitInv, Committed,
        Catalogued, RunStates, Ended, PostStates, sharedVars, exchangeVars,
        commitVars, Goto
<1>1. CASE CommitNext
  <2>1. ASSUME NEW r \in Runs, RunStep(r) PROVE CommitInv'
    <3>1. commits' = commits
      BY <2>1 DEF RunStep, BodyEnds, BodyRaises, NoResponse, SaveProof, SaveFails,
         SendCommit, CommitReply, CommitFails
    <3>2. CASE SendCommit(r)
      BY <3>1, <3>2 DEF SendCommit
    <3>3. CASE CommitReply(r)
      BY <3>1, <3>3 DEF CommitReply
    <3>4. CASE BodyEnds(r) \/ BodyRaises(r) \/ NoResponse(r)
      BY <3>1, <3>4 DEF BodyEnds, BodyRaises, NoResponse
    <3>5. CASE SaveProof(r) \/ SaveFails(r) \/ CommitFails(r)
      BY <3>1, <3>5 DEF SaveProof, SaveFails, CommitFails
    <3> QED
      BY <2>1, <3>2, <3>3, <3>4, <3>5 DEF RunStep
  <2>2. ASSUME NEW r \in Runs, CommitArrives(r) PROVE CommitInv'
    <3>1. run' = run /\ post[r] = "wire" /\ TaskOf[r] \in Tasks
      BY <2>2 DEF CommitArrives
    <3>2. run[r] \notin {"body", "skipped", "aborted", "saving", "saved", "committed"}
      BY <3>1
    <3>3. CASE /\ RecordCommit(TaskOf[r], Hash(ContentOf[r]))
               /\ post' = [post EXCEPT ![r] = "created"]
      <4>1. PICK status \in CommitStatus :
              commits' = [commits EXCEPT ![TaskOf[r]] =
                            [hash |-> Hash(ContentOf[r]), status |-> status]]
        BY <3>3 DEF RecordCommit
      <4>2. [hash |-> Hash(ContentOf[r]), status |-> status] # NoCommit
        BY ExchangeAssumption DEF Sketches, Hashes
      <4> QED
        BY <3>1, <3>2, <3>3, <4>1, <4>2
    <3>4. CASE UNCHANGED commits /\ post' = [post EXCEPT ![r] = "refused"]
      BY <3>1, <3>2, <3>4
    <3>5. CASE /\ UNCHANGED commits
               /\ commits[TaskOf[r]] # NoCommit
               /\ post' = [post EXCEPT ![r] = "created"]
      BY <3>1, <3>2, <3>5
    <3> QED
      BY <2>2, <3>3, <3>4, <3>5 DEF CommitArrives
  <2>3. ASSUME NEW r \in Runs, CommitLost(r) PROVE CommitInv'
    BY <2>3 DEF CommitLost
  <2>4. ASSUME NEW t \in Tasks, MutateArtifacts(t) \/ EvictProof(t) PROVE CommitInv'
    BY <2>4 DEF MutateArtifacts, EvictProof
  <2>5. CASE Crash
    BY <2>5 DEF Crash
  <2>6. CASE TimePasses
    BY <2>6 DEF TimePasses
  <2> QED
    BY <1>1, <2>1, <2>2, <2>3, <2>4, <2>5, <2>6 DEF CommitNext
<1>2. CASE ChallengeNext /\ UNCHANGED commitVars
  BY <1>2 DEF ChallengeNext, CallStep, Ask, Respond, RespondOther, AskFails, CheckContent,
     CheckSketch, QueryFails, ReportEnds, ReportArrives, ReportLost
<1>3. CASE UNCHANGED vars
  BY <1>3 DEF vars
<1> QED
  BY <1>1, <1>2, <1>3 DEF Next, Terminated

LEMMA BackedInvStep ==
  ASSUME TypeOK, CommitInv, BackedInv, [Next]_vars
  PROVE  BackedInv'
<1> SUFFICES ASSUME NEW r \in FreshRuns, TaskOf[r] \in Durable,
                    run'[r] = "saved" \/ post'[r] # "none"
             PROVE  store'[TaskOf[r]] = ProofOf(r)' \/ made'[r] + TTL < now'
  BY DEF BackedInv
<1> USE RunAssumption, StoreAssumption DEF TypeOK, StoreTypeOK, CommitTypeOK, RunStates,
        Ended, PostStates, sharedVars, storeVars, commitVars, Goto, FreshRuns
<1>0. TaskOf[r] \in Tasks /\ made[r] \in Nat /\ now \in Nat
  OBVIOUS
(* What is left to show of a step: the run was already past its save.      *)
<1>a. ASSUME run[r] = "saved" \/ post[r] # "none"
      PROVE  store[TaskOf[r]] = ProofOf(r) \/ made[r] + TTL < now
  BY <1>a DEF BackedInv
<1>b. ASSUME made' = made, now' = now, store'[TaskOf[r]] = store[TaskOf[r]],
             run[r] = "saved" \/ post[r] # "none"
      PROVE  store'[TaskOf[r]] = ProofOf(r)' \/ made'[r] + TTL < now'
  BY <1>a, <1>b DEF ProofOf
(* An eviction takes only what has expired.                                *)
<1>c. ASSUME NEW t \in Tasks, Evict(t), made' = made, now' = now, post' = post, run' = run
      PROVE  store'[TaskOf[r]] = ProofOf(r)' \/ made'[r] + TTL < now'
  <2>1. store[TaskOf[r]] = ProofOf(r) \/ made[r] + TTL < now
    BY <1>a, <1>c
  <2>2. CASE t = TaskOf[r] /\ store[TaskOf[r]] = ProofOf(r)
    BY <1>c, <2>2 DEF Evict, Expired, ProofOf, NewProof
  <2>3. CASE t # TaskOf[r] \/ made[r] + TTL < now
    BY <1>0, <1>b, <1>c, <2>1, <2>3 DEF Evict
  <2> QED
    BY <2>1, <2>2, <2>3
<1>1. CASE CommitNext
  <2>1. ASSUME NEW s \in Runs, RunStep(s)
        PROVE  store'[TaskOf[r]] = ProofOf(r)' \/ made'[r] + TTL < now'
    <3>1. CASE BodyEnds(s)
      BY <1>0, <1>a, <3>1 DEF BodyEnds, CommitInv, ProofOf
    <3>2. CASE SaveProof(s) \/ SaveFails(s)
      <4>1. CASE s = r
        BY <1>0, <3>2, <4>1 DEF SaveProof, SaveFails, Put, CommitInv, ProofOf
      <4>2. CASE s # r
        <5>1. TaskOf[s] # TaskOf[r]
          BY <4>2
        <5> QED
          BY <1>0, <1>b, <3>2, <4>2, <5>1 DEF SaveProof, SaveFails, Put
      <4> QED
        BY <4>1, <4>2
    <3>3. CASE BodyRaises(s) \/ NoResponse(s) \/ SendCommit(s) \/ CommitReply(s)
                 \/ CommitFails(s)
      BY <1>b, <3>3 DEF BodyRaises, NoResponse, SendCommit, CommitReply, CommitFails
    <3> QED
      BY <2>1, <3>1, <3>2, <3>3 DEF RunStep
  <2>2. ASSUME NEW s \in Runs, CommitArrives(s) \/ CommitLost(s)
        PROVE  store'[TaskOf[r]] = ProofOf(r)' \/ made'[r] + TTL < now'
    BY <1>b, <2>2 DEF CommitArrives, CommitLost
  <2>3. ASSUME NEW t \in Tasks, MutateArtifacts(t)
        PROVE  store'[TaskOf[r]] = ProofOf(r)' \/ made'[r] + TTL < now'
    BY <1>0, <1>b, <2>3 DEF MutateArtifacts
  <2>4. ASSUME NEW t \in Tasks, EvictProof(t)
        PROVE  store'[TaskOf[r]] = ProofOf(r)' \/ made'[r] + TTL < now'
    BY <1>c, <2>4 DEF EvictProof
  <2>5. CASE Crash
    BY <1>0, <1>b, <2>5 DEF Crash, LoseMemory
  <2>6. CASE TimePasses
    BY <1>0, <1>a, <2>6 DEF TimePasses, Tick, ProofOf
  <2> QED
    BY <1>1, <2>1, <2>2, <2>3, <2>4, <2>5, <2>6 DEF CommitNext
<1>2. CASE ChallengeNext /\ UNCHANGED commitVars
  <2>1. PICK c \in Calls : CallStep(c) \/ ReportArrives(c) \/ ReportLost(c)
    BY <1>2 DEF ChallengeNext
  <2>2. CASE Respond(c)
    <3>1. TaskAsked(c) \in Tasks
      BY DEF TaskAsked, ChallengeTypeOK, Requests
    <3> QED
      BY <1>2, <1>b, <1>c, <2>2, <3>1 DEF Respond
  <2>3. CASE ~Respond(c)
    BY <1>2, <1>b, <2>1, <2>3 DEF CallStep, Ask, RespondOther, AskFails, CheckContent, CheckSketch,
       QueryFails, ReportEnds, ReportArrives, ReportLost
  <2> QED
    BY <2>2, <2>3
<1>3. CASE UNCHANGED vars
  BY <1>3, <1>b DEF vars
<1> QED
  BY <1>1, <1>2, <1>3 DEF Next, Terminated

-----------------------------------------------------------------------------
(* The verifying side.  A verdict is what the comparisons gave, and stays  *)
(* so because the catalogue only grows.                                    *)
VerdictInv == VerifiedIsSound /\ CompromisedHasEvidence

(* A proof as some run of the task built it.                               *)
Authentic(proof, t) == \E r \in Runs : /\ TaskOf[r] = t
                                       /\ proof.content = ContentOf[r]
                                       /\ proof.hash = Hash(ContentOf[r])

(* For a steady task the store and whoever asked an agent of this SDK hold *)
(* what was built.                                                         *)
HonestInv ==
  \A t \in Tasks :
    Steady(t) =>
      /\ Holds(t) => Authentic(store[t], t)
      /\ \A c \in Calls :
           request[c].agent = "sdk" /\ TaskAsked(c) = t /\ received[c] # NoProof =>
             Authentic(received[c], t)

(* A step of the committing side leaves the calls, and the evidence.       *)
LEMMA VerdictInvStep ==
  ASSUME TypeOK, CallInv, VerdictInv, [Next]_vars
  PROVE  VerdictInv'
<1> USE DEF VerdictInv, VerifiedIsSound, CompromisedHasEvidence, Evidence, Cautious,
        TaskAsked, TaskNamed
<1>0. \A c \in Calls : /\ request[c].task \in Tasks
                       /\ received[c] # NoProof => received[c].task \in Tasks
  BY DEF TypeOK, ChallengeTypeOK, Requests, Answers
<1>9. \A c \in Calls : result[c] \in IntegrityAssessment => received[c] # NoProof
  BY DEF CallInv
<1>1. \A t \in Tasks : Catalogued(t) => commits'[t] = commits[t]
  BY CommitsStay
<1>2. \A t \in Tasks : Catalogued(t) => Catalogued(t)'
  BY <1>1 DEF Catalogued
(* It is enough to look at the calls whose verdict the step reaches.       *)
<1>3. ASSUME NEW c \in Calls, request' = request, received'[c] = received[c],
             result'[c] = result[c]
      PROVE  /\ result'[c] = "verified" =>
                  /\ commits'[received'[c].task] =
                       [hash |-> Hash(received'[c].content), status |-> "confirmed"]
                  /\ request'[c].expect \in {NoContent, received'[c].content}
                  /\ request'[c].agent = "sdk" => received'[c].task = request'[c].task
             /\ Cautious(c)' /\ result'[c] = "compromised" => Evidence(c)'
  <2>1. ASSUME result[c] = "verified" PROVE Catalogued(received[c].task)
    <3>1. received[c] \in Answers
      BY <2>1 DEF CallInv, TypeOK, ChallengeTypeOK, IntegrityAssessment
    <3>2. Hash(received[c].content) \in Hashes
      BY <3>1 DEF Answers, Hashes
    <3>3. [hash |-> Hash(received[c].content), status |-> "confirmed"] \in Sketches
      BY <3>2 DEF Sketches, CommitStatus
    <3> QED
      BY <2>1, <3>3, ExchangeAssumption DEF Catalogued
  <2>2. result[c] \in IntegrityAssessment => received[c].task \in Tasks
    BY <1>0, <1>9
  <2> QED
    BY <1>1, <1>2, <1>3, <2>1, <2>2 DEF IntegrityAssessment
<1>4. CASE CommitNext /\ UNCHANGED challengeVars
  BY <1>3, <1>4 DEF challengeVars
<1>5. CASE UNCHANGED vars
  BY <1>3, <1>5 DEF vars, challengeVars
<1>6. CASE ChallengeNext
  <2>1. PICK c \in Calls : CallStep(c) \/ ReportArrives(c) \/ ReportLost(c)
    BY <1>6 DEF ChallengeNext
  <2>2. request' = request
    BY <2>1 DEF CallStep, Ask, Respond, RespondOther, AskFails, CheckContent, CheckSketch, QueryFails,
       ReportEnds, ReportArrives, ReportLost
  <2>3. \A d \in Calls : d # c => received'[d] = received[d] /\ result'[d] = result[d]
    BY <2>1 DEF CallStep, Ask, Respond, RespondOther, AskFails, CheckContent, CheckSketch, QueryFails,
       ReportEnds, ReportArrives, ReportLost, Judge, Ends, Undecided, TypeOK, ChallengeTypeOK
  <2> DEFINE Right(d) ==
        /\ result'[d] = "verified" =>
             /\ commits'[received'[d].task] =
                  [hash |-> Hash(received'[d].content), status |-> "confirmed"]
             /\ request'[d].expect \in {NoContent, received'[d].content}
             /\ request'[d].agent = "sdk" => received'[d].task = request'[d].task
        /\ Cautious(d)' /\ result'[d] = "compromised" => Evidence(d)'
  <2>4. \A d \in Calls : d # c => Right(d)
    BY <1>3, <2>2, <2>3
  <2>5. CASE Respond(c) \/ RespondOther(c)
    <3>1. result'[c] \notin {"verified", "compromised"}
      BY <2>5 DEF Respond, RespondOther, Ends, CallInv, TypeOK, ChallengeTypeOK, IntegrityAssessment
    <3> QED
      BY <2>4, <3>1
  <2>6. CASE CheckContent(c)
    <3>1. received' = received /\ result'[c] # "verified"
      BY <2>6 DEF CheckContent, Ends, Judge, CallInv, TypeOK, ChallengeTypeOK
    <3>2. result'[c] = "compromised" => Hash(received[c].content) # received[c].hash
      BY <2>6 DEF CheckContent, Ends, Judge, CallInv, TypeOK, ChallengeTypeOK
    <3> QED
      BY <2>4, <3>1, <3>2
  <2>7. CASE CheckSketch(c)
    <3>1. received' = received /\ commits' = commits
      BY <2>7 DEF CheckSketch, exchangeVars
    <3>2. /\ Hash(received[c].content) = received[c].hash
          /\ commits[received[c].task] \in Sketches \cup {NoCommit}
      BY <1>0, <2>7 DEF CheckSketch, CallInv, TypeOK, ExchangeTypeOK
    <3>3. ASSUME result'[c] = "verified"
          PROVE  /\ commits[received[c].task] # NoCommit
                 /\ commits[received[c].task].hash = received[c].hash
                 /\ commits[received[c].task].status = "confirmed"
                 /\ request[c].expect \in {NoContent, received[c].content}
                 /\ request[c].agent = "sdk" => received[c].task = request[c].task
      BY <2>7, <3>3 DEF CheckSketch, Undecided, Ends, Judge, CallInv, TypeOK, ChallengeTypeOK
    <3>4. ASSUME Cautious(c), result'[c] = "compromised"
          PROVE  Evidence(c)
      BY <2>7, <3>4 DEF CheckSketch, Undecided, Ends, Judge, TypeOK, ChallengeTypeOK,
         Catalogued
    <3>5. Right(c)
      <4>1. CASE result'[c] = "verified"
        BY <2>2, <3>1, <3>2, <3>3, <4>1 DEF Sketches
      <4>2. CASE result'[c] # "verified"
        BY <2>2, <3>1, <3>4, <4>2 DEF Catalogued
      <4> QED
        BY <4>1, <4>2
    <3> QED
      BY <2>4, <3>5
  <2>8. CASE QueryFails(c)
    <3>1. Cautious(c) => result'[c] # "compromised"
      BY <2>8 DEF QueryFails, Undecided, Ends, Judge, TypeOK, ChallengeTypeOK
    <3>2. result'[c] # "verified"
      BY <2>8 DEF QueryFails, Undecided, Ends, Judge, TypeOK, ChallengeTypeOK
    <3> QED
      BY <2>2, <2>4, <3>1, <3>2
  <2>9. CASE Ask(c) \/ AskFails(c)
    <3>1. result'[c] \notin {"verified", "compromised"}
      BY <2>9 DEF Ask, AskFails, Ends, CallInv, TypeOK, ChallengeTypeOK
    <3> QED
      BY <2>4, <3>1
  <2>10. CASE ReportEnds(c) \/ ReportArrives(c) \/ ReportLost(c)
    BY <1>3, <2>2, <2>10 DEF ReportEnds, ReportArrives, ReportLost
  <2> QED
    BY <2>1, <2>5, <2>6, <2>7, <2>8, <2>9, <2>10 DEF CallStep
<1> QED
  BY <1>4, <1>5, <1>6 DEF Next, Terminated

(* What a report writes is the verdict of a call that holds a proof.       *)
LEMMA EarnedStep ==
  ASSUME TypeOK, CallInv, VerdictIsEarned, [Next]_vars
  PROVE  VerdictIsEarned'
<1> USE DEF VerdictIsEarned, TaskNamed
(* A call that holds a verdict keeps it.                                   *)
<1>1. \A c \in Calls : result[c] \in IntegrityAssessment =>
                         result'[c] = result[c] /\ received'[c] = received[c]
  <2>1. CASE CommitNext /\ UNCHANGED challengeVars
    BY <2>1 DEF challengeVars
  <2>2. CASE UNCHANGED vars
    BY <2>2 DEF vars, challengeVars
  <2>3. CASE ChallengeNext
    BY <2>3 DEF ChallengeNext, CallStep, Ask, Respond, RespondOther, AskFails, CheckContent,
       CheckSketch, QueryFails, ReportEnds, ReportArrives, ReportLost, Ends, Judge,
       Undecided, CallInv, IntegrityAssessment, TypeOK, ChallengeTypeOK
  <2> QED
    BY <2>1, <2>2, <2>3 DEF Next, Terminated
<1>2. \A c \in Calls : result[c] \in IntegrityAssessment => received[c] # NoProof
  BY DEF CallInv
<1>3. \A a \in Assessors, t \in Tasks :
        assessments[<<a, t>>] # NoAssessment => assessments[<<a, t>>] \in IntegrityAssessment
  <2> TAKE a \in Assessors, t \in Tasks
  <2>1. <<a, t>> \in Assessors \X Tasks
    OBVIOUS
  <2>2. assessments \in [Assessors \X Tasks -> IntegrityAssessment \cup {NoAssessment}]
    BY DEF TypeOK, ExchangeTypeOK
  <2>3. assessments[<<a, t>>] \in IntegrityAssessment \cup {NoAssessment}
    BY <2>1, <2>2
  <2> QED
    BY <2>3
<1>4. CASE assessments' = assessments
  <2>1. ASSUME NEW a \in Assessors, NEW t \in Tasks, assessments'[<<a, t>>] # NoAssessment
        PROVE  \E c \in Calls : /\ AssessorOf[c] = a
                                /\ received'[c] # NoProof
                                /\ received'[c].task = t
                                /\ result'[c] = assessments'[<<a, t>>]
    <3>1. assessments[<<a, t>>] # NoAssessment
      BY <1>4, <2>1
    <3>2. PICK c \in Calls : /\ AssessorOf[c] = a
                             /\ received[c].task = t
                             /\ result[c] = assessments[<<a, t>>]
                             /\ received[c] # NoProof
      BY <3>1
    <3> QED
      BY <1>1, <1>3, <1>4, <3>1, <3>2
  <2> QED
    BY <2>1
<1>5. CASE \E c \in Calls : ReportArrives(c) /\ assessments' # assessments
  <2>1. PICK c \in Calls :
          /\ result[c] \in IntegrityAssessment
          /\ assessments' = [assessments EXCEPT
                              ![<<AssessorOf[c], received[c].task>>] = result[c]]
    BY <1>5 DEF ReportArrives, RecordAssessment, CallInv
  <2>2. ASSUME NEW a \in Assessors, NEW t \in Tasks, assessments'[<<a, t>>] # NoAssessment
        PROVE  \E d \in Calls : /\ AssessorOf[d] = a
                                /\ received'[d] # NoProof
                                /\ received'[d].task = t
                                /\ result'[d] = assessments'[<<a, t>>]
    <3>1. CASE a = AssessorOf[c] /\ t = received[c].task
      BY <1>1, <1>2, <2>1, <3>1 DEF TypeOK, ExchangeTypeOK
    <3>2. CASE ~(a = AssessorOf[c] /\ t = received[c].task)
      <4>1. assessments'[<<a, t>>] = assessments[<<a, t>>]
        BY <2>1, <3>2 DEF TypeOK, ExchangeTypeOK
      <4> QED
        BY <1>1, <1>3, <2>2, <4>1
    <3> QED
      BY <3>1, <3>2
  <2> QED
    BY <2>2
<1>6. assessments' = assessments \/ \E c \in Calls : ReportArrives(c) /\ assessments' # assessments
  <2>1. CASE CommitNext
    BY <2>1 DEF CommitNext, RunStep, BodyEnds, BodyRaises, NoResponse, SaveProof,
       SaveFails, SendCommit, CommitReply, CommitFails, CommitArrives, CommitLost,
       MutateArtifacts, EvictProof, Crash, TimePasses, sharedVars, exchangeVars
  <2>2. CASE ChallengeNext
    BY <2>2 DEF ChallengeNext, CallStep, Ask, Respond, RespondOther, AskFails, CheckContent,
       CheckSketch, QueryFails, ReportEnds, ReportLost, exchangeVars
  <2>3. CASE UNCHANGED vars
    BY <2>3 DEF vars, exchangeVars
  <2> QED
    BY <2>1, <2>2, <2>3 DEF Next, Terminated
<1> QED
  BY <1>4, <1>5, <1>6

(* What the store of a steady task holds is what one of its runs built: no *)
(* artifacts of it can change.  A challenger receives what is stored.      *)
LEMMA HonestInvStep ==
  ASSUME TypeOK, HonestInv, [Next]_vars
  PROVE  HonestInv'
<1> USE RunAssumption DEF HonestInv, Holds, TaskAsked, Steady, storeVars
<1>1. ASSUME NEW r \in Runs PROVE Authentic(ProofOf(r), TaskOf[r])
  BY DEF Authentic, ProofOf, NewProof
<1>2. CASE CommitNext /\ UNCHANGED challengeVars
  <2> SUFFICES ASSUME NEW t \in Tasks, Steady(t), store'[t] # NoProof
               PROVE  Authentic(store'[t], t)
    BY <1>2 DEF challengeVars, Authentic
  <2>0. CASE store'[t] = store[t]
    BY <2>0
  <2>1. ASSUME NEW r \in Runs, SaveProof(r) \/ SaveFails(r)
        PROVE  Authentic(store'[t], t)
    <3>1. store' = store \/ store' = [store EXCEPT ![TaskOf[r]] = ProofOf(r)]
      BY <2>1 DEF SaveProof, SaveFails, Put
    <3>2. CASE t = TaskOf[r] /\ store'[t] = ProofOf(r)
      BY <1>1, <3>2
    <3> QED
      BY <2>0, <3>1, <3>2 DEF TypeOK, StoreTypeOK
  <2>2. ASSUME NEW u \in Tasks, MutateArtifacts(u)
        PROVE  Authentic(store'[t], t)
    <3>1. u # t
      BY <2>2 DEF MutateArtifacts
    <3> QED
      BY <2>0, <2>2, <3>1 DEF MutateArtifacts
  <2>3. ASSUME NEW u \in Tasks, EvictProof(u)
        PROVE  Authentic(store'[t], t)
    BY <2>0, <2>3 DEF EvictProof, Evict, TypeOK, StoreTypeOK
  <2>4. CASE Crash
    BY <2>0, <2>4 DEF Crash, LoseMemory
  <2>5. CASE store' = store
    BY <2>0, <2>5
  <2> QED
    BY <1>2, <2>1, <2>2, <2>3, <2>4, <2>5 DEF CommitNext, RunStep, BodyEnds, BodyRaises,
       NoResponse, SendCommit, CommitReply, CommitFails, CommitArrives, CommitLost,
       TimePasses, sharedVars
<1>3. CASE ChallengeNext
  <2>1. PICK c \in Calls : CallStep(c) \/ ReportArrives(c) \/ ReportLost(c)
    BY <1>3 DEF ChallengeNext
  <2>2. CASE Respond(c)
    <3>1. request' = request /\ request[c].task \in Tasks
      BY <2>2 DEF Respond, TypeOK, ChallengeTypeOK, Requests
    <3>2. ASSUME NEW t \in Tasks PROVE store'[t] = store[t] \/ store'[t] = NoProof
      BY <2>2, <3>1 DEF Respond, Evict, TypeOK, StoreTypeOK
    <3>3. ASSUME NEW d \in Calls
          PROVE  \/ received'[d] = received[d]
                 \/ /\ d = c /\ Live(request[c].task)
                    /\ received'[d] = AnswerFrom(request[c].task)
      BY <2>2 DEF Respond, TypeOK, ChallengeTypeOK
    <3>4. ASSUME NEW t \in Tasks, Steady(t), store'[t] # NoProof
          PROVE  Authentic(store'[t], t)
      BY <3>2, <3>4
    <3>5. ASSUME NEW t \in Tasks, Steady(t), NEW d \in Calls, request'[d].agent = "sdk",
                 request'[d].task = t, received'[d] # NoProof
          PROVE  Authentic(received'[d], t)
      BY <3>1, <3>3, <3>5 DEF Live, AnswerFrom, Authentic
    <3> QED
      BY <3>4, <3>5 DEF Authentic
  <2>3. CASE RespondOther(c)
    BY <2>3 DEF RespondOther, Authentic, TypeOK, ChallengeTypeOK
  <2>4. CASE ~Respond(c) /\ ~RespondOther(c)
    BY <2>1, <2>4 DEF CallStep, Ask, AskFails, CheckContent, CheckSketch, QueryFails,
       ReportEnds, ReportArrives, ReportLost, Authentic
  <2> QED
    BY <2>2, <2>3, <2>4
<1>4. CASE UNCHANGED vars
  BY <1>4 DEF vars, challengeVars, Authentic
<1> QED
  BY <1>2, <1>3, <1>4 DEF Next, Terminated

-----------------------------------------------------------------------------
(* The inductive invariant.                                                *)
IInv == /\ TypeOK
        /\ CallInv
        /\ CommitInv
        /\ BackedInv
        /\ VerdictInv
        /\ VerdictIsEarned
        /\ HonestInv

LEMMA InitIInv == Init => IInv
<1> SUFFICES ASSUME Init PROVE IInv
  OBVIOUS
<1> USE RunAssumption DEF Init
<1>1. TypeOK /\ CallInv
  BY InitTypes
<1>2. CommitInv /\ BackedInv
  BY DEF CommitInit, ExchangeInit, CommitInv, BackedInv, Committed, Catalogued, FreshRuns
<1>3. VerdictInv
  BY DEF ChallengeInit, VerdictInv, VerifiedIsSound, CompromisedHasEvidence
<1>4. VerdictIsEarned
  BY DEF ExchangeInit, VerdictIsEarned
<1>5. HonestInv
  BY DEF StoreInit, ChallengeInit, HonestInv, Holds
<1> QED
  BY <1>1, <1>2, <1>3, <1>4, <1>5 DEF IInv

LEMMA NextIInv == IInv /\ [Next]_vars => IInv'
BY NextTypes, CommitInvStep, BackedInvStep, VerdictInvStep, EarnedStep, HonestInvStep
   DEF IInv

(* The inductive invariant holds of every behaviour.                       *)
THEOREM Invariance == Spec => []IInv
BY InitIInv, NextIInv, PTL DEF Spec

-----------------------------------------------------------------------------
(* The flag _committed and the exchange agree: for an atp_task run the     *)
(* commit that is there can only be its own, because of its uuid4 task_id. *)
LEMMA FlagAgrees == IInv => CommittedIsCatalogued
<1> SUFFICES ASSUME IInv, NEW r \in Runs, Committed(r)
             PROVE  /\ Catalogued(TaskOf[r])
                    /\ r \in FreshRuns => commits[TaskOf[r]].hash = Hash(ContentOf[r])
  BY DEF CommittedIsCatalogued
<1>1. Catalogued(TaskOf[r])
  BY DEF IInv, CommitInv
<1>2. PICK s \in Runs : /\ TaskOf[s] = TaskOf[r]
                        /\ commits[TaskOf[r]].hash = Hash(ContentOf[s])
  BY <1>1, RunAssumption DEF IInv, CommitInv
<1> QED
  BY <1>1, <1>2, RunAssumption DEF FreshRuns

(* _committed is set after a 200 or 201 only, and the Exchange keeps what  *)
(* it has answered for: a run that says committed is on the catalogue.     *)
THEOREM FlagIsTrue == Spec => []CommittedIsCatalogued
BY Invariance, FlagAgrees, PTL

(* What the exchange shows of a fresh run was posted by that run.          *)
LEMMA OwnCommit ==
  ASSUME IInv, NEW r \in FreshRuns, Catalogued(TaskOf[r])
  PROVE  post[r] = "created"
<1>1. PICK s \in Runs : TaskOf[s] = TaskOf[r] /\ post[s] = "created"
  BY RunAssumption DEF IInv, CommitInv, FreshRuns
<1> QED
  BY <1>1, RunAssumption DEF FreshRuns

(* _commit awaits the save before it posts: a catalogued run of a durable  *)
(* store can be proved until its proof expires, through any crash.         *)
THEOREM CatalogueIsProvable == Spec => []CataloguedIsBacked
<1>1. IInv => CataloguedIsBacked
  BY OwnCommit DEF IInv, BackedInv, CataloguedIsBacked
<1> QED
  BY <1>1, Invariance, PTL

(* __aexit__ commits nothing for a body that raised, gave no response or   *)
(* has not ended.                                                          *)
THEOREM NothingTooEarly == Spec => []UnfinishedPublishesNothing
<1>1. IInv => UnfinishedPublishesNothing
  BY OwnCommit DEF IInv, CommitInv, UnfinishedPublishesNothing, FreshRuns
<1> QED
  BY <1>1, Invariance, PTL

(* verified = True is the truth, for ever, about the content received and  *)
(* the task it was received for, whoever answered: the catalogue does not  *)
(* take a commit back.  It is the task asked for if the agent is one of    *)
(* this SDK.                                                               *)
THEOREM VerifiedIsTrue == Spec => []VerifiedIsSound
<1>1. IInv => VerifiedIsSound
  BY DEF IInv, VerdictInv
<1> QED
  BY <1>1, Invariance, PTL

(* challenge_and_verify reports compromised on evidence only.              *)
THEOREM BlameHasEvidence == Spec => []CompromisedHasEvidence
<1>1. IInv => CompromisedHasEvidence
  BY DEF IInv, VerdictInv
<1> QED
  BY <1>1, Invariance, PTL

(* Every verdict on the exchange comes from a call that held a proof.      *)
THEOREM VerdictsAreEarned == Spec => []VerdictIsEarned
<1>1. IInv => VerdictIsEarned
  BY DEF IInv
<1> QED
  BY <1>1, Invariance, PTL

(* The content of a steady task has one hash: the stored one, the one      *)
(* received and the committed one, so no comparison of hashes can fail.    *)
LEMMA HonestWork == IInv => HonestNeverCompromised
<1> SUFFICES ASSUME IInv, NEW r \in Runs, NEW a \in Assessors, Steady(TaskOf[r]),
                    assessments[<<a, TaskOf[r]>>] = "compromised"
             PROVE  \E c \in Calls :
                      /\ AssessorOf[c] = a
                      /\ received[c] # NoProof
                      /\ TaskNamed(c) = TaskOf[r]
                      /\ \/ ~Cautious(c)
                         \/ request[c].agent = "other"
                         \/ request[c].expect \notin {NoContent, ContentOf[r]}
  BY DEF HonestNeverCompromised
<1>0. TaskOf[r] \in Tasks
  BY RunAssumption
<1>1. PICK c \in Calls : /\ AssessorOf[c] = a
                         /\ received[c] # NoProof
                         /\ TaskNamed(c) = TaskOf[r]
                         /\ result[c] = "compromised"
  <2>1. assessments[<<a, TaskOf[r]>>] # NoAssessment
    BY ExchangeAssumption DEF IntegrityAssessment
  <2> QED
    BY <1>0, <2>1 DEF IInv, VerdictIsEarned
<1>2. CASE ~Cautious(c) \/ request[c].agent = "other"
  BY <1>1, <1>2
<1>3. CASE Cautious(c) /\ request[c].agent = "sdk"
  <2>1. Evidence(c)
    BY <1>1, <1>3 DEF IInv, VerdictInv, CompromisedHasEvidence
  <2>2. received[c].content = ContentOf[r] /\ received[c].hash = Hash(ContentOf[r])
    BY <1>0, <1>1, <1>3 DEF IInv, CallInv, HonestInv, Authentic, Steady
  <2>3. Catalogued(TaskNamed(c)) => commits[TaskNamed(c)].hash = Hash(ContentOf[r])
    BY <1>0, <1>1 DEF IInv, CommitInv, Steady
  <2>4. request[c].expect \notin {NoContent, ContentOf[r]}
    BY <2>1, <2>2, <2>3 DEF Evidence
  <2> QED
    BY <1>1, <2>4
<1>4. request[c].agent \in {"sdk", "other"}
  BY CallAssumption DEF IInv, TypeOK, ChallengeTypeOK, Requests
<1> QED
  BY <1>2, <1>3, <1>4

(* Honest work is not blamed, whatever is lost, late, repeated or crashed. *)
THEOREM HonestIsSafe == Spec => []HonestNeverCompromised
BY Invariance, HonestWork, PTL

-----------------------------------------------------------------------------
(* The refinement of Attestation.                                          *)

(* A step of a call that is not its report leaves the Exchange alone, and  *)
(* a report leaves the calls.                                              *)
LEMMA CommitLeavesCalls ==
  ASSUME CommitNext
  PROVE  /\ assessments' = assessments
         /\ \/ commits' = commits
            \/ \E r \in Runs : RecordCommit(TaskOf[r], Hash(ContentOf[r]))
BY DEF CommitNext, RunStep, BodyEnds, BodyRaises, NoResponse, SaveProof, SaveFails,
   SendCommit, CommitReply, CommitFails, CommitArrives, CommitLost, MutateArtifacts,
   EvictProof, Crash, TimePasses, sharedVars, exchangeVars

LEMMA CallMoves ==
  ASSUME TypeOK, CallInv, ChallengeNext
  PROVE  /\ request' = request /\ commits' = commits
         /\ \E c \in Calls :
              /\ \A d \in Calls : d # c =>
                   result'[d] = result[d] /\ received'[d] = received[d]
              /\ \/ /\ assessments' = assessments
                    /\ Decided(c) => result'[c] = result[c] /\ received'[c] = received[c]
                 \/ /\ RecordAssessment(AssessorOf[c], TaskNamed(c), result[c])
                    /\ UNCHANGED <<result, received>> /\ Decided(c)
<1>1. PICK c \in Calls : CallStep(c) \/ ReportArrives(c) \/ ReportLost(c)
  BY DEF ChallengeNext
<1>2. request' = request /\ commits' = commits
  BY <1>1 DEF CallStep, Ask, Respond, RespondOther, AskFails, CheckContent, CheckSketch, QueryFails,
     ReportEnds, ReportArrives, ReportLost, exchangeVars
<1>3. CASE CallStep(c) \/ ReportLost(c)
  <2>1. assessments' = assessments
    BY <1>3 DEF CallStep, Ask, Respond, RespondOther, AskFails, CheckContent, CheckSketch, QueryFails,
       ReportEnds, ReportLost, exchangeVars
  <2>2. /\ \A d \in Calls : d # c =>
             result'[d] = result[d] /\ received'[d] = received[d]
        /\ Decided(c) => result'[c] = result[c] /\ received'[c] = received[c]
    BY <1>3 DEF Decided, CallStep, Ask, Respond, RespondOther, AskFails, CheckContent, CheckSketch, QueryFails,
       ReportEnds, ReportLost, Judge, Ends, Undecided, CallInv, IntegrityAssessment,
       TypeOK, ChallengeTypeOK
  <2> QED
    BY <1>2, <2>1, <2>2
<1>4. CASE ReportArrives(c)
  BY <1>2, <1>4 DEF ReportArrives, CallInv, Decided
<1> QED
  BY <1>1, <1>3, <1>4

(* The work of a task.                                                     *)
LEMMA ProducedByRuns ==
  ASSUME NEW t \in Tasks, NEW content
  PROVE  content \in Produced[t] <=> \E r \in Runs : TaskOf[r] = t /\ ContentOf[r] = content
BY DEF Produced

(* What a call may come to, by the invariant after its step.               *)
Sound(c) ==
  Decided(c) =>
    /\ TaskNamed(c) \in Promised!TasksOfCall(c)
    /\ result[c] = "verified" =>
         \E content \in Produced[TaskNamed(c)] :
            Promised!Attested(TaskNamed(c), content) /\ Promised!Expects(c, {content})
    /\ result[c] = "compromised" => ~Promised!Trusted(c, TaskNamed(c))

LEMMA DecisionsAreSound == IInv => \A c \in Calls : Sound(c)
<1> SUFFICES ASSUME IInv, NEW c \in Calls, Decided(c) PROVE Sound(c)
  BY DEF Sound
<1> USE DEF Promised!TasksOfCall, Promised!Expects, Promised!Trusted
<1>0. request[c].expect \in Contents \cup {NoContent} /\ request[c].agent \in {"sdk", "other"}
  BY CallAssumption DEF IInv, TypeOK, ChallengeTypeOK, Requests
<1>1. received[c] # NoProof /\ received[c] \in Answers
  BY DEF Decided, IInv, CallInv, TypeOK, ChallengeTypeOK
<1>2. TaskNamed(c) \in Tasks
  BY <1>1 DEF TaskNamed, Answers
<1>3. request[c].agent = "sdk" => TaskNamed(c) = TaskAsked(c)
  BY <1>1 DEF IInv, CallInv
<1>4. TaskNamed(c) \in Promised!TasksOfCall(c)
  BY <1>2, <1>3 DEF TaskAsked
<1>5. ASSUME result[c] = "verified"
      PROVE  \E content \in Produced[TaskNamed(c)] :
                /\ Promised!Attested(TaskNamed(c), content)
                /\ Promised!Expects(c, {content})
  <2>1. /\ commits[TaskNamed(c)] = [hash |-> Hash(received[c].content), status |-> "confirmed"]
        /\ request[c].expect \in {NoContent, received[c].content}
    BY <1>5 DEF IInv, VerdictInv, VerifiedIsSound
  <2>2. Catalogued(TaskNamed(c))
    BY <1>1, <2>1, ExchangeAssumption DEF Catalogued, Answers, Hashes, Sketches, CommitStatus
  <2>3. PICK r \in Runs : /\ TaskOf[r] = TaskNamed(c)
                          /\ commits[TaskNamed(c)].hash = Hash(ContentOf[r])
    BY <1>2, <2>2 DEF IInv, CommitInv
  <2>4. ContentOf[r] = received[c].content
    BY <2>1, <2>3 DEF Hash
  <2>5. ContentOf[r] \in Produced[TaskNamed(c)]
    BY <1>2, <2>3, ProducedByRuns
  <2> QED
    BY <2>1, <2>4, <2>5 DEF Promised!Attested, Promised!Hash, Hash
<1>6. ASSUME result[c] = "compromised", Promised!Trusted(c, TaskNamed(c)) PROVE FALSE
  <2>1. Steady(TaskNamed(c)) /\ Cautious(c) /\ request[c].agent = "sdk"
    BY <1>6 DEF SteadyTasks, Cautious
  <2>2. Evidence(c)
    BY <1>6, <2>1 DEF IInv, VerdictInv, CompromisedHasEvidence
  <2>3. PICK r \in Runs : /\ TaskOf[r] = TaskNamed(c)
                          /\ received[c].content = ContentOf[r]
                          /\ received[c].hash = Hash(ContentOf[r])
    BY <1>1, <1>2, <1>3, <2>1 DEF IInv, HonestInv, Authentic
  <2>4. \A s \in Runs : TaskOf[s] = TaskNamed(c) => ContentOf[s] = ContentOf[r]
    BY <2>1, <2>3 DEF Steady
  <2>5. Catalogued(TaskNamed(c)) => commits[TaskNamed(c)].hash = received[c].hash
    BY <1>2, <2>3, <2>4 DEF IInv, CommitInv
  <2>6. request[c].expect \in {NoContent, received[c].content}
    <3>1. request[c].expect \in {NoContent} \cup Produced[TaskNamed(c)]
      BY <1>6
    <3>2. \A content \in Produced[TaskNamed(c)] : content = received[c].content
      BY <1>2, <2>3, <2>4, ProducedByRuns
    <3> QED
      BY <3>1, <3>2
  <2> QED
    BY <2>2, <2>3, <2>5, <2>6 DEF Evidence
<1> QED
  BY <1>4, <1>5, <1>6 DEF Sound

(* Every step of the protocol is a step of Attestation, or changes nothing *)
(* of what can be seen.                                                    *)
LEMMA StepIsPromised ==
  ASSUME IInv, IInv', [Next]_vars
  PROVE  [Promised!AttestationNext]_(Promised!attestationVars)
<1> USE DEF Promised!exchangeVars
<1>0. TypeOK /\ CallInv
  BY DEF IInv
<1>a. (\A c \in Calls : Sound(c))'
  BY DecisionsAreSound, PTL
<1>1. CASE CommitNext /\ UNCHANGED challengeVars
  <2>1. UNCHANGED <<assessments, request, Verdict, About>>
    BY <1>1, CommitLeavesCalls DEF challengeVars, Verdict, About, Decided, TaskNamed, TaskAsked
  <2>2. CASE commits' = commits
    BY <2>1, <2>2 DEF Promised!attestationVars
  <2>3. ASSUME NEW r \in Runs, RecordCommit(TaskOf[r], Hash(ContentOf[r]))
        PROVE  Promised!Publish(TaskOf[r])
    <3>1. TaskOf[r] \in Tasks /\ ContentOf[r] \in Produced[TaskOf[r]]
      BY RunAssumption, ProducedByRuns
    <3> QED
      BY <2>1, <2>3, <3>1 DEF Promised!Publish, Promised!RecordCommit, RecordCommit,
         Promised!Hash, Hash, Promised!CommitStatus, CommitStatus
  <2> QED
    BY <1>1, <2>2, <2>3, CommitLeavesCalls, RunAssumption DEF Promised!AttestationNext
<1>2. CASE ChallengeNext
  <2>0. request' = request /\ commits' = commits
    BY <1>0, <1>2, CallMoves
  <2>1. PICK c \in Calls :
          /\ \A d \in Calls : d # c =>
               result'[d] = result[d] /\ received'[d] = received[d]
          /\ \/ /\ assessments' = assessments
                /\ Decided(c) => result'[c] = result[c] /\ received'[c] = received[c]
             \/ /\ RecordAssessment(AssessorOf[c], TaskNamed(c), result[c])
                /\ UNCHANGED <<result, received>> /\ Decided(c)
    BY <1>0, <1>2, CallMoves
  <2> USE <2>0 DEF Verdict, About, Decided, TaskNamed, TaskAsked
  <2>2. CASE /\ RecordAssessment(AssessorOf[c], TaskNamed(c), result[c])
             /\ UNCHANGED <<result, received>> /\ Decided(c)
    <3>1. /\ Verdict[c] = result[c] /\ Verdict[c] # "none" /\ About[c] = TaskNamed(c)
          /\ UNCHANGED <<Verdict, About>>
      BY <2>2 DEF IntegrityAssessment
    <3>2. Promised!Report(c)
      BY <2>2, <3>1 DEF Promised!Report, Promised!RecordAssessment, RecordAssessment
    <3> QED
      BY <3>2 DEF Promised!AttestationNext
  <2>3. CASE /\ assessments' = assessments
             /\ Decided(c) \/ ~Decided(c)'
    <3>1. UNCHANGED <<Verdict, About>>
      BY <2>1, <2>3
    <3> QED
      BY <2>3, <3>1 DEF Promised!attestationVars
  <2>4. CASE assessments' = assessments /\ ~Decided(c) /\ Decided(c)'
    <3>1. /\ Verdict[c] = "none"
          /\ Verdict' = [Verdict EXCEPT ![c] = result'[c]]
          /\ About' = [About EXCEPT ![c] = TaskNamed(c)']
      BY <2>1, <2>4
    <3>2. Sound(c)' /\ TaskNamed(c)' \in Tasks
      <4>1. received'[c] \in Answers
        BY <2>4 DEF IInv, CallInv, TypeOK, ChallengeTypeOK
      <4> QED
        BY <1>a, <4>1 DEF Answers
    <3>a. \A t \in Tasks, v \in IntegrityAssessment :
             t = TaskNamed(c)' /\ v = result'[c] => Promised!Decide(c, t, v)
      BY <2>4, <3>1, <3>2 DEF Promised!Decide, Promised!TasksOfCall, Sound
    <3>3. CASE result'[c] = "verified"
      <4>1. \E content \in Produced[TaskNamed(c)'] :
                /\ Promised!Attested(TaskNamed(c)', content)
                /\ Promised!Expects(c, {content})
        BY <2>4, <3>2, <3>3 DEF Sound, Promised!Attested, Promised!Expects
      <4>2. PICK t \in Tasks : t = TaskNamed(c)'
        BY <3>2
      <4>3. Promised!Decide(c, t, "verified")
        BY <3>3, <3>a, <4>2 DEF IntegrityAssessment
      <4>4. Promised!Verify(c, t)
        BY <4>1, <4>2, <4>3 DEF Promised!Verify
      <4> QED
        BY <4>4 DEF Promised!AttestationNext
    <3>4. CASE result'[c] = "compromised"
      <4>1. ~Promised!Trusted(c, TaskNamed(c)')
        BY <2>4, <3>2, <3>4 DEF Sound, Promised!Trusted, Promised!Expects
      <4>2. PICK t \in Tasks : t = TaskNamed(c)'
        BY <3>2
      <4>3. Promised!Decide(c, t, "compromised")
        BY <3>4, <3>a, <4>2 DEF IntegrityAssessment
      <4>4. Promised!Blame(c, t)
        BY <4>1, <4>2, <4>3 DEF Promised!Blame
      <4> QED
        BY <4>4 DEF Promised!AttestationNext
    <3> QED
      BY <2>4, <3>3, <3>4 DEF IntegrityAssessment
  <2> QED
    BY <2>1, <2>2, <2>3, <2>4
<1>3. CASE UNCHANGED vars
  BY <1>3 DEF vars, exchangeVars, challengeVars, Verdict, About, Decided, TaskNamed, TaskAsked,
     Promised!attestationVars
<1> QED
  BY <1>1, <1>2, <1>3 DEF Next, Terminated

(* With any number of tasks, runs, calls, crashes and lost or late         *)
(* messages, the protocol does what Attestation promises: what the         *)
(* Exchange shows is written once, verified is said of confirmed work, and *)
(* nobody who trusts steady work blames it.                                *)
THEOREM PromiseKept == Spec => Attests
<1>1. Init => Promised!AttestationInit
  BY DEF Init, ExchangeInit, ChallengeInit, Verdict, About, Decided, TaskAsked,
     IntegrityAssessment, Promised!AttestationInit, Promised!ExchangeInit
<1>2. IInv /\ IInv' /\ [Next]_vars => [Promised!AttestationNext]_(Promised!attestationVars)
  BY StepIsPromised
<1> QED
  BY <1>1, <1>2, Invariance, PTL DEF Spec, Attests, Promised!AttestationSpec

(* A verdict that can be read on the Exchange is right and stays right:    *)
(* verified of work that is confirmed there, compromised never of steady   *)
(* work all of whose assessors trust it.                                   *)
THEOREM VerdictsAreRight == Spec => []Promised!VerdictsStand
<1>1. IInv => Promised!VerdictsStand
  <2> SUFFICES ASSUME IInv, NEW a \in Assessors, NEW t \in Tasks
               PROVE  /\ assessments[<<a, t>>] = "verified" =>
                           \E content \in Produced[t] : Promised!Attested(t, content)
                      /\ assessments[<<a, t>>] = "compromised" =>
                           \E c \in Calls : /\ AssessorOf[c] = a
                                            /\ t \in Promised!TasksOfCall(c)
                                            /\ ~Promised!Trusted(c, t)
    BY DEF Promised!VerdictsStand
  <2>1. ASSUME assessments[<<a, t>>] \in IntegrityAssessment
        PROVE  \E c \in Calls : /\ AssessorOf[c] = a /\ TaskNamed(c) = t
                                /\ result[c] = assessments[<<a, t>>]
    BY <2>1, ExchangeAssumption DEF IInv, VerdictIsEarned
  <2> QED
    BY <2>1, DecisionsAreSound DEF Sound, Decided, IntegrityAssessment
<1> QED
  BY <1>1, Invariance, PTL

-----------------------------------------------------------------------------
(* Nobody goes back: runs and calls come nearer to their end with every    *)
(* step of theirs, so that they take at most five, and a request that was  *)
(* answered or lost is not sent again.                                     *)
RunAhead(r) == CASE run[r] = "body" -> 4
                 [] run[r] = "saving" -> 3
                 [] run[r] = "saved" -> 2
                 [] run[r] = "posting" -> 1
                 [] OTHER -> 0
CallAhead(c) == CASE call[c] = "idle" -> 5
                  [] call[c] = "asking" -> 4
                  [] call[c] = "received" -> 3
                  [] call[c] = "querying" -> 2
                  [] call[c] = "reporting" -> 1
                  [] OTHER -> 0

RunGoesOn(r) == /\ run'[r] = run[r] \/ RunAhead(r)' < RunAhead(r)
                /\ post[r] \in {"created", "refused", "lost"} => post'[r] = post[r]

(* And what a call has found stays: neither the proof it judged nor its    *)
(* verdict changes while the verdict is reported, or afterwards.           *)
CallGoesOn(c) == /\ call'[c] = call[c] \/ CallAhead(c)' < CallAhead(c)
                 /\ report[c] \in {"answered", "lost"} => report'[c] = report[c]
                 /\ result[c] # "none" => /\ result'[c] = result[c]
                                          /\ received'[c] = received[c]

LEMMA RunsGoOn ==
  ASSUME TypeOK, CommitInv, [Next]_vars, NEW r \in Runs
  PROVE  RunGoesOn(r)
<1> USE DEF TypeOK, CommitTypeOK, CommitInv, RunGoesOn, RunAhead, RunStates, Ended, PostStates,
            Goto, Committed, commitVars
<1>1. ASSUME UNCHANGED <<run, post>> PROVE RunGoesOn(r)
  BY <1>1
<1>2. ASSUME NEW s \in Runs, RunStep(s) PROVE RunGoesOn(r)
  BY <1>2 DEF RunStep, BodyEnds, BodyRaises, NoResponse, SaveProof, SaveFails, SendCommit,
     CommitReply, CommitFails
<1>3. ASSUME NEW s \in Runs, CommitArrives(s) \/ CommitLost(s) PROVE RunGoesOn(r)
  BY <1>3 DEF CommitArrives, CommitLost
<1>4. CASE Crash
  BY <1>4 DEF Crash
<1>5. ASSUME NEW t \in Tasks, MutateArtifacts(t) \/ EvictProof(t) PROVE RunGoesOn(r)
  BY <1>1, <1>5 DEF MutateArtifacts, EvictProof
<1>6. CASE TimePasses \/ UNCHANGED vars
  BY <1>1, <1>6 DEF TimePasses, vars
<1> QED
  BY <1>1, <1>2, <1>3, <1>4, <1>5, <1>6 DEF Next, CommitNext, Terminated

LEMMA CallsGoOn ==
  ASSUME TypeOK, CallInv, [Next]_vars, NEW c \in Calls
  PROVE  CallGoesOn(c)
<1> USE DEF TypeOK, ChallengeTypeOK, CallInv, CallGoesOn, CallAhead, CallStates, Results,
            ReportStates, IntegrityAssessment, Goes, Ends, Judge
<1>1. ASSUME UNCHANGED challengeVars PROVE CallGoesOn(c)
  BY <1>1 DEF challengeVars
<1>2. ASSUME NEW d \in Calls, Ask(d) \/ Respond(d) \/ RespondOther(d) \/ AskFails(d)
      PROVE  CallGoesOn(c)
  BY <1>2 DEF Ask, Respond, RespondOther, AskFails
<1>3. ASSUME NEW d \in Calls, CheckContent(d) \/ CheckSketch(d) PROVE CallGoesOn(c)
  BY <1>3 DEF CheckContent, CheckSketch, Undecided
<1>4. ASSUME NEW d \in Calls, QueryFails(d) \/ ReportEnds(d) PROVE CallGoesOn(c)
  BY <1>4 DEF QueryFails, ReportEnds, Undecided
<1>5. ASSUME NEW d \in Calls, ReportArrives(d) \/ ReportLost(d) PROVE CallGoesOn(c)
  BY <1>5 DEF ReportArrives, ReportLost
<1> QED
  BY <1>1, <1>2, <1>3, <1>4, <1>5 DEF Next, ChallengeNext, CallStep, Terminated, vars

(* The safety half of RunsEnd and CallsEnd, and what makes a retry another *)
(* run: no step takes a run, a call or a request back.                     *)
THEOREM NobodyGoesBack ==
  Spec => [][(\A r \in Runs : RunGoesOn(r)) /\ (\A c \in Calls : CallGoesOn(c))]_vars
<1> DEFINE Forward == (\A r \in Runs : RunGoesOn(r)) /\ (\A c \in Calls : CallGoesOn(c))
<1>1. IInv /\ [Next]_vars => Forward
  BY RunsGoOn, CallsGoOn DEF IInv
<1> HIDE DEF Forward
<1>2. Spec => [][Forward]_vars
  BY <1>1, Invariance, PTL DEF Spec
<1> QED
  BY <1>2 DEF Forward

-----------------------------------------------------------------------------
(* The instance in which other runs have failed at the start has the same  *)
(* invariant, so that what its run shows is proved of it as well.          *)
THEOREM RetriedIsSafe ==
  RetriedSpec => /\ [](VerifiedIsSound /\ CompromisedHasEvidence)
                 /\ []HonestNeverCompromised
                 /\ Attests
<1>1. RetriedInit => IInv /\ Promised!AttestationInit
  <2> SUFFICES ASSUME RetriedInit PROVE IInv /\ Promised!AttestationInit
    OBVIOUS
  <2>1. /\ StoreInit /\ ExchangeInit /\ ChallengeInit
        /\ run \in [Runs -> {"body", "failed"}]
        /\ made = [r \in Runs |-> 0]
        /\ post = [r \in Runs |-> "none"]
        /\ crashes = 0
    BY DEF RetriedInit, RetriedBy
  <2>2. TypeOK
    <3>1. StoreTypeOK
      BY <2>1, StoreAssumption DEF StoreInit, StoreTypeOK
    <3>2. ExchangeTypeOK
      BY <2>1 DEF ExchangeInit, ExchangeTypeOK
    <3>3. CommitTypeOK
      BY <2>1, RunAssumption, StoreAssumption DEF CommitTypeOK, RunStates, Ended, PostStates
    <3>4. ChallengeTypeOK
      BY <2>1 DEF ChallengeInit, ChallengeTypeOK, CallStates, Results, ReportStates
    <3> QED
      BY <3>1, <3>2, <3>3, <3>4 DEF TypeOK
  <2>3. CallInv
    BY <2>1 DEF ChallengeInit, CallInv, IntegrityAssessment
  <2>4. CommitInv /\ BackedInv
    BY <2>1, RunAssumption
    DEF ExchangeInit, CommitInv, BackedInv, Committed, Catalogued, FreshRuns
  <2>5. VerdictInv /\ VerdictIsEarned
    BY <2>1 DEF ChallengeInit, ExchangeInit, VerdictInv, VerifiedIsSound,
       CompromisedHasEvidence, VerdictIsEarned
  <2>6. HonestInv
    BY <2>1 DEF StoreInit, ChallengeInit, HonestInv, Holds
  <2>7. Promised!AttestationInit
    BY <2>1 DEF ExchangeInit, ChallengeInit, Verdict, About, Decided, TaskAsked,
       IntegrityAssessment, Promised!AttestationInit, Promised!ExchangeInit
  <2> QED
    BY <2>2, <2>3, <2>4, <2>5, <2>6, <2>7 DEF IInv
<1>2. RetriedSpec => []IInv
  BY <1>1, NextIInv, PTL DEF RetriedSpec
<1>3. IInv => VerifiedIsSound /\ CompromisedHasEvidence /\ HonestNeverCompromised
  BY HonestWork DEF IInv, VerdictInv
<1>4. IInv /\ IInv' /\ [Next]_vars => [Promised!AttestationNext]_(Promised!attestationVars)
  BY StepIsPromised
<1>5. RetriedSpec => Attests
  BY <1>1, <1>2, <1>4, PTL DEF RetriedSpec, Attests, Promised!AttestationSpec
<1> QED
  BY <1>2, <1>3, <1>5, PTL
-----------------------------------------------------------------------------
(* The store under the protocol.  A retry, a cancelled save, a crash and   *)
(* artifacts that change under the proof which refers to them leave it     *)
(* what a step of ProofStore leaves.                                       *)
LEMMA StoreStep ==
  ASSUME TypeOK, TypeOK', [Next]_vars
  PROVE  [StoreNext]_storeVars
<1> USE DEF storeVars, sharedVars
<1>1. ASSUME NEW t \in Tasks, store' = [store EXCEPT ![t] = store'[t]],
             store'[t] # NoProof, UNCHANGED now
      PROVE  StoreNext
  <2>1. store'[t] \in StoredProofs
    BY <1>1 DEF TypeOK, StoreTypeOK
  <2> QED
    BY <1>1, <2>1 DEF StoreNext, Put
<1>2. ASSUME NEW r \in Runs, SaveProof(r) \/ SaveFails(r), store' # store PROVE StoreNext
  <2>1. TaskOf[r] \in Tasks /\ store' = [store EXCEPT ![TaskOf[r]] = ProofOf(r)]
        /\ UNCHANGED now
    BY <1>2, RunAssumption DEF SaveProof, SaveFails, Put
  <2>2. store'[TaskOf[r]] = ProofOf(r)
    BY <2>1 DEF TypeOK, StoreTypeOK
  <2>3. ProofOf(r) # NoProof
    BY ProofOfType, NoProofAssumption DEF TypeOK
  <2> QED
    BY <1>1, <2>1, <2>2, <2>3
<1>3. ASSUME NEW r \in Runs, CommitArrives(r) \/ CommitLost(r) PROVE UNCHANGED storeVars
  BY <1>3 DEF CommitArrives, CommitLost
<1>4. ASSUME NEW r \in Runs, RunStep(r), ~SaveProof(r), ~SaveFails(r)
      PROVE  UNCHANGED storeVars
  BY <1>4 DEF RunStep, BodyEnds, BodyRaises, NoResponse, SendCommit, CommitReply, CommitFails
<1>5. ASSUME NEW t \in Tasks, MutateArtifacts(t) PROVE StoreNext
  <2>1. PICK content \in Contents : store' = [store EXCEPT ![t].content = content]
    BY <1>5 DEF MutateArtifacts
  <2>2. store[t] \in StoredProofs /\ UNCHANGED now
    BY <1>5 DEF MutateArtifacts, Holds, TypeOK, StoreTypeOK
  <2>3. store'[t] = [store[t] EXCEPT !.content = content]
        /\ store' = [store EXCEPT ![t] = store'[t]]
    BY <2>1 DEF TypeOK, StoreTypeOK
  <2>4. store'[t] \in StoredProofs
    BY <2>2, <2>3 DEF StoredProofs
  <2> QED
    BY <2>2, <2>3, <2>4 DEF StoreNext, Put
<1>6. ASSUME NEW t \in Tasks, Evict(t), UNCHANGED now PROVE StoreNext
  <2>1. store' = [u \in Tasks |-> IF u \in {t} THEN NoProof ELSE store[u]]
    BY <1>6 DEF Evict, TypeOK, StoreTypeOK
  <2>2. Collect({t})
    BY <1>6, <2>1 DEF Evict, Collect
  <2> QED
    BY <1>6, <2>2 DEF StoreNext
<1>7. CASE Crash
  BY <1>7 DEF Crash, StoreNext
<1>8. CASE TimePasses
  BY <1>8 DEF TimePasses, StoreNext
<1>9. CASE ChallengeNext
  <2>0. ASSUME NEW c \in Calls, Respond(c) PROVE StoreNext \/ UNCHANGED storeVars
    <3>1. TaskAsked(c) \in Tasks
      BY DEF TypeOK, ChallengeTypeOK, Requests, TaskAsked
    <3>2. UNCHANGED now /\ (Evict(TaskAsked(c)) \/ UNCHANGED store)
      BY <2>0 DEF Respond
    <3> QED
      BY <1>6, <3>1, <3>2
  <2>1. ASSUME NEW c \in Calls, Ask(c) \/ RespondOther(c) \/ AskFails(c)
        PROVE  UNCHANGED storeVars
    BY <2>1 DEF Ask, RespondOther, AskFails
  <2>2. ASSUME NEW c \in Calls, CheckContent(c) \/ CheckSketch(c) PROVE UNCHANGED storeVars
    BY <2>2 DEF CheckContent, CheckSketch
  <2>3. ASSUME NEW c \in Calls, QueryFails(c) \/ ReportEnds(c) PROVE UNCHANGED storeVars
    BY <2>3 DEF QueryFails, ReportEnds
  <2>4. ASSUME NEW c \in Calls, ReportArrives(c) \/ ReportLost(c) PROVE UNCHANGED storeVars
    BY <2>4 DEF ReportArrives, ReportLost
  <2> QED
    BY <1>9, <2>0, <2>1, <2>2, <2>3, <2>4 DEF ChallengeNext, CallStep
<1>10. CASE Terminated \/ UNCHANGED vars
  BY <1>10 DEF Terminated, vars
<1>11. CASE CommitNext
  <2>1. ASSUME NEW r \in Runs, RunStep(r) PROVE StoreNext \/ UNCHANGED storeVars
    BY <1>2, <1>4, <2>1 DEF SaveProof, SaveFails
  <2>2. ASSUME NEW t \in Tasks, EvictProof(t) PROVE StoreNext
    BY <1>6, <2>2 DEF EvictProof
  <2> QED
    BY <1>3, <1>5, <1>7, <1>8, <1>11, <2>1, <2>2 DEF CommitNext
<1> QED
  BY <1>9, <1>10, <1>11 DEF Next

(* What the protocol does to its store and expects of it, also in a crash  *)
(* or when a save is cancelled, is what ProofStore promises, which both    *)
(* stores of the SDK implement.                                            *)
THEOREM StoreIsAStore == Spec => StoreSpec
<1>1. Init => StoreInit
  BY DEF Init
<1> QED
  BY <1>1, TypeCorrect, StoreStep, PTL DEF Spec, StoreSpec
=============================================================================
