--------------------------- MODULE ATPProtocolMC ---------------------------
(* Small instances of ATPProtocol.                                         *)
EXTENDS ATPProtocol, TLC

CONSTANTS r1, r2, r3, r4, t1, t2, x, y, a1, c1, c2

(* One atp_task run, challenged by one or two calls of one assessor.       *)
OneTaskOf == r1 :> t1
OneContentOf == r1 :> x
OneCall == c1 :> a1
TwoCalls == c1 :> a1 @@ c2 :> a1

(* Two tasks, for each of which on_task_complete is called twice: for t1   *)
(* with different outcomes, for t2 with the same.                          *)
RetriedTaskOf == r1 :> t1 @@ r2 :> t1 @@ r3 :> t2 @@ r4 :> t2
RetriedContentOf == r1 :> x @@ r2 :> y @@ r3 :> x @@ r4 :> x

(* The runs of alive are at their start and the others have failed without *)
(* leaving a trace; all calls ask agents of one kind about one task.       *)
RetriedBy(alive, agent, t) ==
  /\ StoreInit /\ ExchangeInit /\ ChallengeInit
  /\ \A c \in Calls : request[c].agent = agent /\ TaskAsked(c) = t
  /\ run = [r \in Runs |-> IF r \in alive THEN "body" ELSE "failed"]
  /\ made = [r \in Runs |-> 0]
  /\ post = [r \in Runs |-> "none"]
  /\ crashes = 0

(* An agent of this SDK is asked about a task that is executed twice; or   *)
(* another agent is asked about a task that left no trace, and may answer  *)
(* with one that was executed.  Tasks do not meet anywhere but in the      *)
(* calls, so that more runs at a time would only repeat the same states.   *)
RetriedInit ==
  \/ \E t \in Tasks : RetriedBy({r \in Runs : TaskOf[r] = t}, "sdk", t)
  \/ \E r \in Runs, t \in Tasks : t # TaskOf[r] /\ RetriedBy({r}, "other", t)
RetriedSpec == RetriedInit /\ [][Next]_vars
=============================================================================
