---------------------------- MODULE ProofStore ----------------------------
(* What a ProofStore promises, whatever keeps the proofs: a map from       *)
(* task_id to proof in which a proof stays until it is replaced by a save, *)
(* deleted on request, or has passed its expires_at.  A store in memory    *)
(* is lost with its process, a durable one is not.                         *)
EXTENDS ATPData

CONSTANTS Deletable,  \* the tasks whose proofs a caller may delete
          MaxTime     \* bound on the clock

ASSUME StoreAssumption == Deletable \subseteq Tasks /\ MaxTime \in Nat

VARIABLES now,   \* the clock, in units of the time to live
          store  \* store[t]: the proof kept for task t, or NoProof

storeVars == <<now, store>>

StoreTypeOK == /\ now \in 0..MaxTime
               /\ store \in [Tasks -> StoredProofs \cup {NoProof}]

Expired(proof) == proof.expires_at < now
Holds(t) == store[t] # NoProof
Live(t) == Holds(t) /\ ~Expired(store[t])

StoreInit == /\ now = 0
             /\ store = [t \in Tasks |-> NoProof]

(* save(): insert or replace.                                              *)
Put(t, proof) == store' = [store EXCEPT ![t] = proof]

(* A proof that has passed its TTL is removed: by get(), which finds it    *)
(* expired and deletes it, or by the garbage collector.                    *)
Evict(t) == /\ Holds(t)
            /\ Expired(store[t])
            /\ store' = [store EXCEPT ![t] = NoProof]

(* The collector may remove several expired proofs in one statement.       *)
Collect(T) == /\ \A t \in T : Holds(t) /\ Expired(store[t])
              /\ store' = [t \in Tasks |-> IF t \in T THEN NoProof ELSE store[t]]

Delete(t) == /\ t \in Deletable
             /\ store' = [store EXCEPT ![t] = NoProof]

(* The process stops and starts again: what is only in memory is gone.     *)
LoseMemory ==
  store' = [t \in Tasks |-> IF t \in Durable THEN store[t] ELSE NoProof]

Tick == now < MaxTime /\ now' = now + 1

StoreNext == \/ /\ \/ \E t \in Tasks : /\ store'[t] \in StoredProofs
                                       /\ Put(t, store'[t])
                   \/ \E t \in Tasks : Delete(t)
                   \/ \E T \in SUBSET Tasks : Collect(T)
                   \/ LoseMemory
                /\ UNCHANGED now
             \/ Tick /\ UNCHANGED store

StoreSpec == StoreInit /\ [][StoreNext]_storeVars
=============================================================================
