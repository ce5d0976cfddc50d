---------------------------- MODULE TaskCommit ----------------------------
(* The committing side of the protocol: one run for each execution of a    *)
(* task, either the body of an atp_task context (core/utils.py), which has *)
(* a task_id of its own, or a call of MinimalAdapter.on_task_complete      *)
(* (adapters/base.py), whose caller chooses the task_id and may call it    *)
(* again.  Both first save the full proof locally and then commit its      *)
(* sketch to the exchange with create_commit (core/client.py).             *)
EXTENDS ProofStore, Exchange

CONSTANTS Runs,         \* executions of tasks
          AdapterRuns,  \* those made through a MinimalAdapter
          ArtifactRuns, \* the adapter runs that are given artifacts
          TaskOf,       \* TaskOf[r]: the task_id of run r
          ContentOf,    \* ContentOf[r]: its invocation and outcome
          TTL,          \* config.proof_ttl_seconds
          MaxCrashes    \* bound on the crashes of the agent's process

(* uuid4() gives every atp_task context a task_id no other run has, and a  *)
(* MinimalAdapter keeps its proofs in an InMemoryProofStore.               *)
ASSUME RunAssumption ==
  /\ ArtifactRuns \subseteq AdapterRuns
  /\ AdapterRuns \subseteq Runs
  /\ \A r \in AdapterRuns : TaskOf[r] \notin Durable
  /\ TaskOf \in [Runs -> Tasks]
  /\ ContentOf \in [Runs -> Contents]
  /\ TTL \in Nat
  /\ MaxCrashes \in Nat
  /\ \A r \in Runs \ AdapterRuns, s \in Runs : TaskOf[r] = TaskOf[s] => r = s

VARIABLES run,      \* run[r]: how far run r is
          made,     \* made[r]: the timestamp of its proof
          post,     \* post[r]: where its POST /commit is
          crashes

commitVars == <<run, made, post, crashes>>
sharedVars == <<storeVars, exchangeVars>>

Ended == {"committed", "failed", "skipped", "aborted"}
RunStates == {"body", "saving", "saved", "posting"} \cup Ended
PostStates == {"none", "wire", "created", "refused", "lost"}

CommitTypeOK == /\ run \in [Runs -> RunStates]
                /\ made \in [Runs -> 0..MaxTime]
                /\ post \in [Runs -> PostStates]
                /\ crashes \in 0..MaxCrashes

CommitInit == /\ run = [r \in Runs |-> "body"]
              /\ made = [r \in Runs |-> 0]
              /\ post = [r \in Runs |-> "none"]
              /\ crashes = 0

Goto(r, state) == run' = [run EXCEPT ![r] = state]

(* ATPTaskContext._committed.                                              *)
Committed(r) == run[r] = "committed"
ProofOf(r) == NewProof(ContentOf[r], made[r], TTL)

(* Bug: expires_at passed where the timestamp belongs.                     *)
BodyEndsLate(r) == /\ run[r] = "body"
                   /\ Goto(r, "saving")
                   /\ made' = [made EXCEPT ![r] = now + TTL]
                   /\ UNCHANGED <<post, crashes, sharedVars>>

(* Bug: the save and the commit are started together.                      *)
BodyEndsGathering(r) == /\ run[r] = "body"
                        /\ Goto(r, "saving")
                        /\ made' = [made EXCEPT ![r] = now]
                        /\ post' = [post EXCEPT ![r] = "wire"]
                        /\ UNCHANGED <<crashes, sharedVars>>

(* The body ends with a response (or on_task_complete is called): hashes   *)
(* and timestamps are computed and the store is asked to save the proof.   *)
BodyEnds(r) == /\ run[r] = "body"
               /\ Goto(r, "saving")
               /\ made' = [made EXCEPT ![r] = now]
               /\ UNCHANGED <<post, crashes, sharedVars>>

(* The body raises, and __aexit__ lets the exception through.              *)
BodyRaises(r) == /\ r \notin AdapterRuns
                 /\ run[r] = "body"
                 /\ Goto(r, "aborted")
                 /\ UNCHANGED <<made, post, crashes, sharedVars>>

(* The body ends without a response (None or the empty string).            *)
NoResponse(r) == /\ r \notin AdapterRuns
                 /\ run[r] = "body"
                 /\ Goto(r, "skipped")
                 /\ UNCHANGED <<made, post, crashes, sharedVars>>

SaveProof(r) == /\ run[r] = "saving"
                /\ Goto(r, "saved")
                /\ Put(TaskOf[r], ProofOf(r))
                /\ UNCHANGED <<now, made, post, crashes, exchangeVars>>

(* Bug: an error of the store is swallowed and the commit goes on.         *)
SaveFailsSilently(r) ==
  /\ run[r] = "saving"
  /\ Goto(r, "saved")
  /\ Put(TaskOf[r], ProofOf(r)) \/ UNCHANGED store
  /\ UNCHANGED <<now, made, post, crashes, exchangeVars>>

(* No system is registered, the store raises, or the caller is cancelled   *)
(* while it waits, when the store may or may not have done the save.       *)
SaveFails(r) == /\ run[r] = "saving"
                /\ Goto(r, "failed")
                /\ Put(TaskOf[r], ProofOf(r)) \/ UNCHANGED store
                /\ UNCHANGED <<now, made, post, crashes, exchangeVars>>

SendCommit(r) == /\ run[r] = "saved"
                 /\ Goto(r, "posting")
                 /\ post' = [post EXCEPT ![r] = "wire"]
                 /\ UNCHANGED <<made, crashes, sharedVars>>

(* The request reaches the exchange, perhaps after the client has given    *)
(* up: it is recorded, or refused (401, an invalid proof_hash, 5xx), or    *)
(* finds a commit of the task and is answered either way.                  *)
CommitArrives(r) ==
  /\ post[r] = "wire"
  /\ \/ /\ RecordCommit(TaskOf[r], Hash(ContentOf[r]))
        /\ post' = [post EXCEPT ![r] = "created"]
     \/ /\ \/ post' = [post EXCEPT ![r] = "refused"]
           \/ /\ commits[TaskOf[r]] # NoCommit
              /\ post' = [post EXCEPT ![r] = "created"]
        /\ UNCHANGED commits
  /\ UNCHANGED <<run, made, crashes, storeVars, assessments>>

CommitLost(r) == /\ post[r] = "wire"
                 /\ post' = [post EXCEPT ![r] = "lost"]
                 /\ UNCHANGED <<run, made, crashes, sharedVars>>

(* The reply is read: 200 and 201 set _committed, any other status raises. *)
CommitReply(r) ==
  /\ run[r] = "posting"
  /\ \/ post[r] = "created" /\ Goto(r, "committed")
     \/ post[r] = "refused" /\ Goto(r, "failed")
  /\ UNCHANGED <<made, post, crashes, sharedVars>>

(* Bug: _committed is set in a finally clause.                             *)
CommitFailsCommitted(r) ==
  /\ run[r] = "posting"
  /\ Goto(r, "committed")
  /\ UNCHANGED <<made, post, crashes, sharedVars>>

(* Bug: the commit is retried without a limit.                             *)
CommitFailsForever(r) == /\ run[r] = "posting"
                         /\ Goto(r, "saved")
                         /\ UNCHANGED <<made, post, crashes, sharedVars>>

(* httpx times out or loses the connection before the reply is read, the   *)
(* reply does not parse, or the caller is cancelled.  There is no retry.   *)
CommitFails(r) == /\ run[r] = "posting"
                  /\ Goto(r, "failed")
                  /\ UNCHANGED <<made, post, crashes, sharedVars>>

(* The agent's process stops and starts again.                             *)
Crash == /\ crashes < MaxCrashes
         /\ crashes' = crashes + 1
         /\ run' = [r \in Runs |->
                      IF run[r] \in Ended THEN run[r]
                      ELSE IF r \in AdapterRuns /\ run[r] = "body" THEN "body"
                      ELSE "failed"]
         /\ LoseMemory
         /\ UNCHANGED <<now, made, post, exchangeVars>>

(* The artifacts passed to on_task_complete are kept by reference in the   *)
(* outcome an InMemoryProofStore holds: the caller changing its dictionary *)
(* changes the stored content, not the hash computed for it.               *)
MutateArtifacts(t) ==
  /\ t \notin Durable
  /\ Holds(t)
  /\ \E r \in ArtifactRuns : TaskOf[r] = t /\ Hash(ContentOf[r]) = store[t].hash
  /\ \E content \in Contents \ {store[t].content} :
        store' = [store EXCEPT ![t].content = content]
  /\ UNCHANGED <<now, commitVars, exchangeVars>>

EvictProof(t) == Evict(t) /\ UNCHANGED <<now, commitVars, exchangeVars>>

TimePasses == Tick /\ UNCHANGED <<store, commitVars, exchangeVars>>

RunStep(r) == \/ BodyEnds(r) \/ BodyRaises(r) \/ NoResponse(r)
              \/ SaveProof(r) \/ SaveFails(r)
              \/ SendCommit(r) \/ CommitReply(r) \/ CommitFails(r)

CommitNext == \/ \E r \in Runs : RunStep(r) \/ CommitArrives(r) \/ CommitLost(r)
              \/ \E t \in Tasks : MutateArtifacts(t) \/ EvictProof(t)
              \/ Crash
              \/ TimePasses
=============================================================================
