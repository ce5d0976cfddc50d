----------------------------- MODULE Challenge -----------------------------
(* The verifying side of the protocol: calls of ATPClient.challenge        *)
(* (core/client.py) and of challenge_and_verify (core/utils.py).  A call   *)
(* asks the agent for the proof of a task, checks the proof against the    *)
(* hash it declares and against the sketch on the exchange, and reports an *)
(* integrity assessment.  The two functions do the same work and differ in *)
(* what they do when the exchange gives no usable answer.  A task stands   *)
(* for the pair of its system and its task_id.                             *)
EXTENDS ProofStore, Exchange

CONSTANTS Calls,       \* calls of the two functions
          AssessorOf,  \* AssessorOf[c]: the system that makes call c
          Registered,  \* the assessors whose client has registered a system
          Agents,      \* what may be at agent_url: "sdk", "other"
          NoContent    \* no expected content is given

(* The proof in an answer: the task it names, and a content with the hash  *)
(* declared for it.                                                        *)
Answers == [task : Tasks, content : Contents, hash : Hashes]

ASSUME CallAssumption == /\ AssessorOf \in [Calls -> Assessors]
                         /\ Registered \subseteq Assessors
                         /\ Agents \subseteq {"sdk", "other"}
                         /\ NoContent \notin Contents
                         /\ NoProof \notin Answers

VARIABLES call,      \* call[c]: how far call c is
          request,   \* request[c]: its arguments
          received,  \* received[c]: the proof the agent answered with
          result,    \* result[c]: the outcome of the checks
          report     \* report[c]: where its POST /assess is

challengeVars == <<call, request, received, result, report>>

CallStates == {"idle", "asking", "received", "querying", "reporting", "done"}
Results == {"none", "refused", "error", "skipped", "verified", "compromised"}
ReportStates == {"none", "wire", "answered", "lost"}

(* challenge(verify=...) and challenge_and_verify(expected_outcome=...).   *)
Requests ==
  [api : {"challenge"}, agent : Agents, task : Tasks, verify : BOOLEAN,
   expect : {NoContent}]
    \cup [api : {"challenge_and_verify"}, agent : Agents, task : Tasks,
          verify : {TRUE}, expect : Contents \cup {NoContent}]

ChallengeTypeOK == /\ call \in [Calls -> CallStates]
                   /\ request \in [Calls -> Requests]
                   /\ received \in [Calls -> Answers \cup {NoProof}]
                   /\ result \in [Calls -> Results]
                   /\ report \in [Calls -> ReportStates]

ChallengeInit == /\ call = [c \in Calls |-> "idle"]
                 /\ request \in [Calls -> Requests]
                 /\ received = [c \in Calls |-> NoProof]
                 /\ result = [c \in Calls |-> "none"]
                 /\ report = [c \in Calls |-> "none"]

TaskAsked(c) == request[c].task

(* What is queried and reported is the task of the answer, which neither   *)
(* function compares with the one it asked for.                            *)
TaskNamed(c) == received[c].task

Cautious(c) == request[c].api = "challenge_and_verify"

Goes(c, state) == call' = [call EXCEPT ![c] = state]

(* The call returns, or raises when the outcome is an error.               *)
Ends(c, outcome) == /\ Goes(c, "done")
                    /\ result' = [result EXCEPT ![c] = outcome]
                    /\ UNCHANGED report

(* A verdict is reached and report_assessment sends it.                    *)
Judge(c, verdict) == /\ Goes(c, "reporting")
                     /\ result' = [result EXCEPT ![c] = verdict]
                     /\ report' = [report EXCEPT ![c] = "wire"]

(* A challenger must have registered a system; then the request is sent.   *)
Ask(c) == /\ call[c] = "idle"
          /\ IF AssessorOf[c] \in Registered
             THEN Goes(c, "asking") /\ UNCHANGED <<result, report>>
             ELSE Ends(c, "refused")
          /\ UNCHANGED <<request, received, storeVars, exchangeVars>>

AnswerFrom(t) == [task |-> t, content |-> store[t].content, hash |-> store[t].hash]

(* An agent's on_challenge: the proof of the task if its store has a live  *)
(* one; an error if it has none, or an expired one, which get() deletes.   *)
Respond(c) ==
  /\ call[c] = "asking"
  /\ request[c].agent = "sdk"
  /\ \/ /\ Live(TaskAsked(c))
        /\ Goes(c, "received")
        /\ received' = [received EXCEPT ![c] = AnswerFrom(TaskAsked(c))]
        /\ UNCHANGED <<result, report, store>>
     \/ /\ Evict(TaskAsked(c))
        /\ Ends(c, "error")
        /\ UNCHANGED received
     \/ /\ ~Holds(TaskAsked(c))
        /\ Ends(c, "error")
        /\ UNCHANGED <<received, store>>
  /\ UNCHANGED <<request, now, exchangeVars>>

(* An agent that is not made with this SDK may answer with any proof, also *)
(* of a task it was not asked for.                                         *)
RespondOther(c) ==
  /\ call[c] = "asking"
  /\ request[c].agent = "other"
  /\ Goes(c, "received")
  /\ \E answer \in Answers : received' = [received EXCEPT ![c] = answer]
  /\ UNCHANGED <<request, result, report, storeVars, exchangeVars>>

(* The request or its answer is lost, times out or does not parse.         *)
AskFails(c) == /\ call[c] = "asking"
               /\ Ends(c, "error")
               /\ UNCHANGED <<request, received, storeVars, exchangeVars>>

(* Bug: the content is not hashed again.                                   *)
CheckContentTrusting(c) ==
  /\ call[c] = "received"
  /\ IF ~request[c].verify THEN Ends(c, "skipped")
     ELSE Goes(c, "querying") /\ UNCHANGED <<result, report>>
  /\ UNCHANGED <<request, received, storeVars, exchangeVars>>

(* Step 1: the content must have the hash the proof declares.              *)
CheckContent(c) ==
  /\ call[c] = "received"
  /\ IF ~request[c].verify THEN Ends(c, "skipped")
     ELSE IF Hash(received[c].content) # received[c].hash
     THEN Judge(c, "compromised")
     ELSE Goes(c, "querying") /\ UNCHANGED <<result, report>>
  /\ UNCHANGED <<request, received, storeVars, exchangeVars>>

(* Bug: challenge_and_verify reports what challenge() reports.             *)
UndecidedBlaming(c) == Judge(c, "compromised")

(* No usable answer: _verify turns every exception into "not verified",    *)
(* which challenge() reports as compromised; challenge_and_verify reports  *)
(* nothing.                                                                *)
Undecided(c) == IF Cautious(c) THEN Ends(c, "error") ELSE Judge(c, "compromised")

(* Bug: the status of the commit is not looked at.                         *)
CheckSketchAnyStatus(c) ==
  /\ call[c] = "querying"
  /\ IF commits[TaskNamed(c)] = NoCommit THEN Undecided(c)
     ELSE IF \/ commits[TaskNamed(c)].hash # received[c].hash
             \/ request[c].expect \notin {NoContent, received[c].content}
     THEN Judge(c, "compromised")
     ELSE Judge(c, "verified")
  /\ UNCHANGED <<request, received, storeVars, exchangeVars>>

(* Steps 2 to 4: the sketch on the exchange must have the declared hash,   *)
(* the content must be the expected one if there is one, and the commit    *)
(* must be confirmed.                                                      *)
CheckSketch(c) ==
  LET commit == commits[TaskNamed(c)]
      Unexpected == request[c].expect \notin {NoContent, received[c].content}
  IN /\ call[c] = "querying"
     /\ IF commit = NoCommit THEN Undecided(c)
        ELSE IF commit.hash # received[c].hash \/ Unexpected
        THEN Judge(c, "compromised")
        ELSE IF commit.status = "confirmed" THEN Judge(c, "verified")
        ELSE Undecided(c)
     /\ UNCHANGED <<request, received, storeVars, exchangeVars>>

(* The exchange cannot be reached, refuses, or its answer does not parse;  *)
(* or the caller is cancelled, which is not an Exception and ends the call.*)
QueryFails(c) == /\ call[c] = "querying"
                 /\ Undecided(c) \/ Ends(c, "error")
                 /\ UNCHANGED <<request, received, storeVars, exchangeVars>>

ReportArrives(c) ==
  /\ report[c] = "wire"
  /\ report' = [report EXCEPT ![c] = "answered"]
  /\ \/ RecordAssessment(AssessorOf[c], TaskNamed(c), result[c])
     \/ UNCHANGED assessments
  /\ UNCHANGED <<call, request, received, result, storeVars, commits>>

ReportLost(c) ==
  /\ report[c] = "wire"
  /\ report' = [report EXCEPT ![c] = "lost"]
  /\ UNCHANGED <<call, request, received, result, storeVars, exchangeVars>>

(* Bug: a report that is not answered is sent again, without a limit.      *)
ReportEndsResending(c) ==
  /\ call[c] = "reporting"
  /\ IF report[c] = "answered"
     THEN Goes(c, "done") /\ UNCHANGED report
     ELSE report' = [report EXCEPT ![c] = "wire"] /\ UNCHANGED call
  /\ UNCHANGED <<request, received, result, storeVars, exchangeVars>>

(* The answer to the report is read, or it fails: both end the call.       *)
ReportEnds(c) ==
  /\ call[c] = "reporting"
  /\ Goes(c, "done")
  /\ UNCHANGED <<request, received, result, report, storeVars, exchangeVars>>

CallStep(c) == \/ Ask(c) \/ Respond(c) \/ RespondOther(c) \/ AskFails(c)
               \/ CheckContent(c) \/ CheckSketch(c) \/ QueryFails(c)
               \/ ReportEnds(c)

ChallengeNext ==
  \E c \in Calls : CallStep(c) \/ ReportArrives(c) \/ ReportLost(c)
=============================================================================
