----------------------------- MODULE Attestation -----------------------------
(* What the protocol as a whole promises to whoever reads the Exchange and *)
(* to whoever calls challenge_and_verify: a task shows at most one commit  *)
(* and an assessor's verdict about it at most once; both are for ever; and *)
(* verdicts speak of work that was really done.  Stores, proofs, the       *)
(* network and the clock are gone; of the agents only is left which of     *)
(* them answer for the task they are asked about.                          *)
EXTENDS Exchange

CONSTANTS Calls, AssessorOf, NoContent,
          Produced,    \* Produced[t]: the contents the executions of t have
          SteadyTasks  \* the tasks whose work is one content nobody changes

VARIABLES request,  \* request[c]: the arguments of call c
          verdict,  \* verdict[c]: what the call came to, or "none"
          about     \* about[c]: the task this is said of

attestationVars == <<exchangeVars, request, verdict, about>>

(* The tasks a call may come to speak of.                                  *)
TasksOfCall(c) == IF request[c].agent = "sdk" THEN {request[c].task} ELSE Tasks
Expects(c, contents) == request[c].expect \in {NoContent} \cup contents

AttestationInit == /\ ExchangeInit
                   /\ request = [c \in Calls |-> request[c]]
                   /\ verdict = [c \in Calls |-> "none"]
                   /\ about = [c \in Calls |-> request[c].task]

(* The sketch of an execution of the task is recorded.                     *)
Publish(t) == /\ \E content \in Produced[t] : RecordCommit(t, Hash(content))
              /\ UNCHANGED <<assessments, request, verdict, about>>

Attested(t, content) == commits[t] = [hash |-> Hash(content), status |-> "confirmed"]

Decide(c, t, v) == /\ verdict[c] = "none"
                   /\ t \in TasksOfCall(c)
                   /\ verdict' = [verdict EXCEPT ![c] = v]
                   /\ about' = [about EXCEPT ![c] = t]
                   /\ UNCHANGED <<exchangeVars, request>>

(* A call says verified of work that was done, that the Exchange confirms  *)
(* and that is what was expected.                                          *)
Verify(c, t) == /\ \E content \in Produced[t] :
                     Attested(t, content) /\ Expects(c, {content})
                /\ Decide(c, t, "verified")

(* Steady work is blamed by nobody who is cautious, expects it and asks an *)
(* agent of this SDK.                                                      *)
Trusted(c, t) == /\ t \in SteadyTasks
                 /\ request[c].agent = "sdk"
                 /\ request[c].api = "challenge_and_verify"
                 /\ Expects(c, Produced[t])
Blame(c, t) == ~Trusted(c, t) /\ Decide(c, t, "compromised")

(* What a call came to is recorded as the verdict of its assessor.         *)
Report(c) == /\ verdict[c] # "none"
             /\ RecordAssessment(AssessorOf[c], about[c], verdict[c])
             /\ UNCHANGED <<commits, request, verdict, about>>

AttestationNext == \/ \E t \in Tasks : Publish(t)
                   \/ \E c \in Calls, t \in Tasks : Verify(c, t) \/ Blame(c, t)
                   \/ \E c \in Calls : Report(c)

AttestationSpec == AttestationInit /\ [][AttestationNext]_attestationVars

-----------------------------------------------------------------------------
(* A verdict on the Exchange is right for ever: verified of work that is   *)
(* confirmed there, and compromised never of what all its assessors trust. *)
VerdictsStand ==
  \A a \in Assessors, t \in Tasks :
    /\ assessments[<<a, t>>] = "verified" =>
         \E content \in Produced[t] : Attested(t, content)
    /\ assessments[<<a, t>>] = "compromised" =>
         \E c \in Calls : /\ AssessorOf[c] = a
                          /\ t \in TasksOfCall(c)
                          /\ ~Trusted(c, t)
=============================================================================
