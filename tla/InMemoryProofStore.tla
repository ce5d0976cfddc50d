------------------------- MODULE InMemoryProofStore -------------------------
(* InMemoryProofStore (core/storage.py): a dictionary under an asyncio     *)
(* lock, and a collector that the first save() starts.  No await is made   *)
(* under the lock, so it is always free: save(), get(), delete(), and the  *)
(* collector's pass over all proofs, run without giving way.  What can     *)
(* come between are the sleep of the collector and the wait of stop().     *)
EXTENDS ATPData

CONSTANTS Deletable,  \* the tasks whose proofs a caller may delete
          Unzoned,    \* contents saved with an expires_at without a zone
          TTL,        \* config.proof_ttl_seconds
          MaxTime, MaxStops  \* bounds: the clock, stop() calls that wait

ASSUME InMemoryAssumption ==
  /\ Durable = {} /\ Deletable \subseteq Tasks
  /\ TTL \in Nat /\ MaxTime \in Nat /\ MaxStops \in Nat

VARIABLES now,     \* the clock
          proofs,  \* the dictionary
          loop,    \* an event loop runs
          gc,      \* _gc_task: none yet, asleep, cancelled, done
          waiting, \* the stop() calls that wait for it
          fresh    \* saved in this loop since stop() was last called

vars == <<now, proofs, loop, gc, waiting, fresh>>

TypeOK == /\ now \in 0..MaxTime
          /\ proofs \in [Tasks -> StoredProofs \cup {NoProof}]
          /\ loop \in BOOLEAN
          /\ gc \in {"none", "asleep", "cancelled", "done"}
          /\ waiting \in 0..MaxStops
          /\ fresh \subseteq Tasks

Init == /\ now = 0
        /\ proofs = [t \in Tasks |-> NoProof]
        /\ loop = TRUE
        /\ gc = "none"
        /\ waiting = 0
        /\ fresh = {}

Held(t) == proofs[t] # NoProof
Ended == gc \in {"none", "done"}

StoredProof(content) == NewProof(content, now, TTL)

(* _ensure_gc_task; a cancelled collector is not done before it has run.   *)
Save(t, content) ==
  /\ loop
  /\ gc' = IF Ended THEN "asleep" ELSE gc
  /\ proofs' = [proofs EXCEPT ![t] = StoredProof(content)]
  /\ fresh' = fresh \cup {t}
  /\ UNCHANGED <<now, loop, waiting>>

(* Bug: a proof is dropped at its expires_at and not after it.             *)
DueInclusive(t) == proofs[t].content \notin Unzoned /\ proofs[t].expires_at <= now

(* get() raises ATPProofExpiredError; comparing a time without a zone      *)
(* raises TypeError, which is converted, and the proof stays.              *)
Due(t) == proofs[t].content \notin Unzoned /\ proofs[t].expires_at < now

(* Bug: an error of one get() ends the pass.                               *)
CheckedUntilError(T) ==
  IF \E t \in T : Held(t) /\ proofs[t].content \in Unzoned
  THEN proofs
  ELSE [t \in Tasks |-> IF t \in T /\ Held(t) /\ Due(t) THEN NoProof ELSE proofs[t]]

(* What get() leaves when it is called for each task of T.                 *)
Checked(T) ==
  [t \in Tasks |-> IF t \in T /\ Held(t) /\ Due(t) THEN NoProof ELSE proofs[t]]

Get(t) == /\ loop
          /\ proofs' = Checked({t})
          /\ UNCHANGED <<now, loop, gc, waiting, fresh>>

Delete(t) == /\ loop
             /\ t \in Deletable
             /\ proofs' = [proofs EXCEPT ![t] = NoProof]
             /\ UNCHANGED <<now, loop, gc, waiting, fresh>>

(* The collector wakes, lists the proofs and gets each of them.            *)
Pass == /\ loop
        /\ gc = "asleep"
        /\ proofs' = Checked({t \in Tasks : Held(t)})
        /\ UNCHANGED <<now, loop, gc, waiting, fresh>>

(* stop() cancels a collector that is not done, and waits for it.          *)
Stop == /\ loop
        /\ fresh' = {}
        /\ \/ Ended /\ UNCHANGED <<gc, waiting>>
           \/ /\ ~Ended /\ waiting < MaxStops
              /\ gc' = "cancelled"
              /\ waiting' = waiting + 1
        /\ UNCHANGED <<now, proofs, loop>>

(* Bug: the loop of the collector catches its cancellation and goes on.    *)
CancelIsCaught == gc' = "asleep" /\ UNCHANGED waiting

(* CancelledError ends the collector, and with it the calls that wait.     *)
CancelEnds == gc' = "done" /\ waiting' = 0

Cancelled == /\ loop
             /\ gc = "cancelled"
             /\ CancelEnds
             /\ UNCHANGED <<now, proofs, loop, fresh>>

(* asyncio.run returns: it has cancelled every task, and ends them.        *)
LoopEnds == /\ loop
            /\ loop' = FALSE
            /\ gc' = IF gc = "none" THEN gc ELSE "done"
            /\ waiting' = 0
            /\ fresh' = {}
            /\ UNCHANGED <<now, proofs>>

LoopStarts == ~loop /\ loop' = TRUE /\ UNCHANGED <<now, proofs, gc, waiting, fresh>>

(* The process ends; the next one starts with an empty dictionary.         *)
Crash == /\ proofs' = [t \in Tasks |-> NoProof]
         /\ loop' = TRUE
         /\ gc' = "none"
         /\ waiting' = 0
         /\ fresh' = {}
         /\ UNCHANGED now

Tick == /\ now < MaxTime
        /\ now' = now + 1
        /\ UNCHANGED <<proofs, loop, gc, waiting, fresh>>

Next == \/ \E t \in Tasks : \/ \E content \in Contents : Save(t, content)
                            \/ Get(t) \/ Delete(t)
        \/ Pass \/ Stop \/ Cancelled \/ LoopEnds \/ LoopStarts \/ Crash \/ Tick

(* A running loop resumes the collector when its sleep or its life ends.   *)
Fairness == WF_vars(Pass) /\ WF_vars(Cancelled)

Spec == Init /\ [][Next]_vars /\ Fairness

-----------------------------------------------------------------------------
(* The dictionary keeps the promise of a ProofStore, also when a task is   *)
(* saved again, which is where SQLiteProofStore breaks it: a proof goes    *)
(* only when it has expired, is deleted, or the process ends.              *)
Promise == INSTANCE ProofStore WITH store <- proofs
KeepsPromise == Promise!StoreSpec

(* One proof that get() fails on keeps no other from being collected.      *)
ExpiredIsCollected ==
  \A t \in Tasks : Held(t) /\ Due(t) ~> ~Held(t) \/ ~Due(t) \/ Ended

(* stop() returns, whatever is saved while it waits.                       *)
StopReturns == waiting > 0 ~> waiting = 0

(* The comment in save(): ensure the collector is running.  It is for what *)
(* was saved since stop() was last called.                                 *)
SavedIsWatched == loop /\ fresh # {} => gc # "done"
=============================================================================
