---------------------------- MODULE PreChallenge ----------------------------
(* pre_challenge_dependencies (core/utils.py): before an agent works on a  *)
(* request, it challenges the upstream proofs the request declares, one    *)
(* after the other, and appends what it could verify to its list of        *)
(* dependencies.  Requests overlap; the list is the agent's.               *)
EXTENDS Naturals, Sequences, SequencesExt

CONSTANTS Requests, \* inbound requests
          MaxItems  \* the most dependencies a request declares

(* A dictionary that Dependency refuses; one without challenge_url; one    *)
(* with an empty task_id; one that can be challenged.                      *)
ItemKinds == {"malformed", "unchallengeable", "nameless", "challengeable"}

ASSUME PreChallengeAssumption == MaxItems \in Nat

VARIABLES items,    \* items[r]: the kinds of the dependencies r declares
          next,     \* next[r]: the one its loop is at
          progress, \* progress[r]: where the loop is
          verdict,  \* verdict[r][i]: what challenging dependency i came to
          list      \* _atp_dependencies: what was appended, as <<r, i>>

preChallengeVars == <<items, next, progress, verdict, list>>

Verdicts == {"none", "verified", "unusable", "unverified", "raised"}
Places == 1..MaxItems
Pairs == Requests \X Places

PreChallengeTypeOK ==
  /\ items \in [Requests -> BoundedSeq(ItemKinds, MaxItems)]
  /\ next \in [Requests -> 1..MaxItems + 1]
  /\ progress \in [Requests -> {"loop", "challenging", "done", "raised"}]
  /\ verdict \in [Requests -> [Places -> Verdicts]]
  /\ list \in Seq(Pairs)

PreChallengeInit ==
  /\ items \in [Requests -> BoundedSeq(ItemKinds, MaxItems)]
  /\ next = [r \in Requests |-> 1]
  /\ progress = [r \in Requests |-> "loop"]
  /\ verdict = [r \in Requests |-> [i \in Places |-> "none"]]
  /\ list = <<>>

-----------------------------------------------------------------------------
Item(r) == items[r][next[r]]
LoopGoes(r, to) == progress' = [progress EXCEPT ![r] = to]
Advance(r) == next' = [next EXCEPT ![r] = @ + 1]

(* Bug: (proof, verified, message) is kept for verified.                   *)
JudgeTuple(r, result) == verdict' = [verdict EXCEPT ![r][next[r]] = <<result, "message">>]

Judge(r, result) == verdict' = [verdict EXCEPT ![r][next[r]] = result]

(* The dictionary is made a Dependency outside the try.                    *)
Malformed(r) ==
  /\ progress[r] = "loop" /\ next[r] <= Len(items[r])
  /\ Item(r) = "malformed"
  /\ LoopGoes(r, "raised")
  /\ UNCHANGED <<items, next, verdict, list>>

(* continue: there is nobody to ask, or nothing to ask for.                *)
Skip(r) ==
  /\ progress[r] = "loop" /\ next[r] <= Len(items[r])
  /\ Item(r) \in {"unchallengeable", "nameless"}
  /\ Advance(r)
  /\ UNCHANGED <<items, progress, verdict, list>>

Challenge(r) ==
  /\ progress[r] = "loop" /\ next[r] <= Len(items[r])
  /\ Item(r) = "challengeable"
  /\ LoopGoes(r, "challenging")
  /\ UNCHANGED <<items, next, verdict, list>>

(* Bug: the newest dependency is put first.                                *)
AppendFirst(r) == Judge(r, "verified") /\ list' = <<<<r, next[r]>>>> \o list

(* challenge_and_verify says verified, and its proof has every field.      *)
AppendVerified(r) == Judge(r, "verified") /\ list' = Append(list, <<r, next[r]>>)

(* It is not verified, lacks a field, or the challenge raised: a warning.  *)
NotVerified(r) ==
  (\E v \in {"unusable", "unverified", "raised"} : Judge(r, v)) /\ UNCHANGED list

(* Bug: a failed challenge ends the loop.                                  *)
GiveUp(r) == IF list' = list THEN LoopGoes(r, "done") ELSE LoopGoes(r, "loop")

GoOn(r) == LoopGoes(r, "loop")

Answered(r) ==
  /\ progress[r] = "challenging"
  /\ AppendVerified(r) \/ NotVerified(r)
  /\ GoOn(r)
  /\ Advance(r)
  /\ UNCHANGED items

Finish(r) ==
  /\ progress[r] = "loop" /\ next[r] > Len(items[r])
  /\ LoopGoes(r, "done")
  /\ UNCHANGED <<items, next, verdict, list>>

AllReturned == /\ \A r \in Requests : progress[r] \in {"raised", "done"}
               /\ UNCHANGED preChallengeVars

PreChallengeNext ==
  \/ \E r \in Requests : Malformed(r) \/ Skip(r) \/ Challenge(r) \/ Answered(r) \/ Finish(r)
  \/ AllReturned

PreChallengeSpec == PreChallengeInit /\ [][PreChallengeNext]_preChallengeVars

-----------------------------------------------------------------------------
(* The dependencies of a request are listed once and in the order it       *)
(* declares them, whatever other requests append in between.               *)
ListedInOrder ==
  \A j, k \in DOMAIN list : j < k /\ list[j][1] = list[k][1] => list[j][2] < list[k][2]

(* A challenge that fails keeps no other from being made: when the call is *)
(* over, all that could be challenged up to its end, or up to a malformed  *)
(* dependency that made it raise, was challenged, and nothing else.        *)
AllAreChallenged ==
  \A r \in Requests : progress[r] \in {"done", "raised"} =>
    /\ \A i \in DOMAIN items[r] :
         verdict[r][i] # "none" <=> i < next[r] /\ items[r][i] = "challengeable"
    /\ next[r] <= Len(items[r]) => Item(r) = "malformed"
=============================================================================
