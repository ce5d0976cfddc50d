---------------------- MODULE InMemoryProofStoreProofs ----------------------
(* The type of the store in memory, and that it keeps the promise of a     *)
(* ProofStore for any number of tasks, saves, collectors and restarts; and *)
(* when its collector watches what was saved.                              *)
EXTENDS InMemoryProofStore, TLAPS

(* A time to live of whole units from a clock that is a natural number.    *)
LEMMA StoredProofIsStored ==
  ASSUME NEW t \in Tasks, NEW content \in Contents, now \in 0..MaxTime
  PROVE  StoredProof(content) \in StoredProofs
  <1>1. now + TTL \in Nat
    BY InMemoryAssumption
  <1>2. Hash(content) \in Hashes
    BY DEF Hashes
  <1> QED
    BY <1>1, <1>2 DEF StoredProof, NewProof, StoredProofs

LEMMA InitTyped == Init => TypeOK
  BY InMemoryAssumption DEF Init, TypeOK

(* Every action keeps the types; only Save writes a new proof.             *)
LEMMA NextTyped == TypeOK /\ [Next]_vars => TypeOK'
  <1> SUFFICES ASSUME TypeOK, [Next]_vars PROVE TypeOK'
    OBVIOUS
  <1> USE DEF TypeOK
  <1>1. ASSUME NEW t \in Tasks, NEW content \in Contents, Save(t, content)
        PROVE  TypeOK'
    <2>1. StoredProof(content) \in StoredProofs
      BY StoredProofIsStored
    <2> QED
      BY <1>1, <2>1 DEF Save
  <1>2. ASSUME NEW t \in Tasks, Get(t) PROVE TypeOK'
    BY <1>2 DEF Get, Checked
  <1>3. ASSUME NEW t \in Tasks, Delete(t) PROVE TypeOK'
    BY <1>3 DEF Delete
  <1>4. CASE Pass
    BY <1>4 DEF Pass, Checked
  <1>5. CASE Stop
    BY <1>5, InMemoryAssumption DEF Stop
  <1>6. CASE Cancelled
    BY <1>6, InMemoryAssumption DEF Cancelled, CancelEnds
  <1>7. CASE LoopEnds
    <2>1. waiting' \in 0..MaxStops
      BY <1>7, InMemoryAssumption DEF LoopEnds
    <2>2. gc' \in {"none", "done"}
      BY <1>7 DEF LoopEnds
    <2> QED
      BY <1>7, <2>1, <2>2 DEF LoopEnds
  <1>8. CASE LoopStarts
    BY <1>8 DEF LoopStarts
  <1>9. CASE Crash
    <2>1. proofs' \in [Tasks -> StoredProofs \cup {NoProof}]
      BY <1>9 DEF Crash
    <2>2. waiting' \in 0..MaxStops
      BY <1>9, InMemoryAssumption DEF Crash
    <2> QED
      BY <1>9, <2>1, <2>2 DEF Crash
  <1>10. CASE Tick
    BY <1>10, InMemoryAssumption DEF Tick
  <1>11. CASE UNCHANGED vars
    BY <1>11 DEF vars
  <1> QED
    BY <1>1, <1>2, <1>3, <1>4, <1>5, <1>6, <1>7, <1>8, <1>9, <1>10, <1>11 DEF Next

(* The variables of the store keep their types.                            *)
THEOREM TypeCorrect == Spec => []TypeOK
  BY InitTyped, NextTyped, PTL DEF Spec

-----------------------------------------------------------------------------
(* What get() removes, called for any set of tasks, has expired: a step of *)
(* the abstract Collect.                                                   *)
LEMMA CheckedCollects ==
  ASSUME NEW T \in SUBSET Tasks, proofs' = Checked(T)
  PROVE  \E E \in SUBSET Tasks : Promise!Collect(E)
  <1> DEFINE E == {t \in T : Held(t) /\ Due(t)}
  <1>1. \A t \in E : Promise!Holds(t) /\ Promise!Expired(proofs[t])
    <2> SUFFICES ASSUME NEW t \in T, Held(t), Due(t)
                 PROVE  Promise!Holds(t) /\ Promise!Expired(proofs[t])
      OBVIOUS
    <2> QED
      BY DEF Held, Due, Promise!Holds, Promise!Expired
  <1>2. proofs' = [t \in Tasks |-> IF t \in E THEN NoProof ELSE proofs[t]]
    BY DEF Checked
  <1>3. Promise!Collect(E)
    BY <1>1, <1>2 DEF Promise!Collect
  <1> QED
    BY <1>3

(* Each step of the store is one of the promise, or none.                  *)
LEMMA StepIsPromised ==
  TypeOK /\ [Next]_vars => [Promise!StoreNext]_(Promise!storeVars)
  <1> SUFFICES ASSUME TypeOK, [Next]_vars
               PROVE  Promise!StoreNext \/ UNCHANGED <<now, proofs>>
    BY DEF Promise!storeVars
  <1>1. ASSUME NEW t \in Tasks, NEW content \in Contents, Save(t, content)
        PROVE  Promise!StoreNext
    <2>1. StoredProof(content) \in StoredProofs
      BY StoredProofIsStored DEF TypeOK
    <2>2. proofs'[t] = StoredProof(content) /\ Promise!Put(t, proofs'[t])
      BY <1>1 DEF Save, Promise!Put, TypeOK
    <2>3. Promise!StoredProofs = StoredProofs
      BY DEF Promise!StoredProofs, StoredProofs, Promise!Hashes, Hashes,
             Promise!Hash, Hash
    <2> QED
      BY <1>1, <2>1, <2>2, <2>3 DEF Save, Promise!StoreNext
  <1>2. ASSUME NEW t \in Tasks, Get(t) PROVE Promise!StoreNext
    <2>1. proofs' = Checked({t}) /\ UNCHANGED now
      BY <1>2 DEF Get
    <2>2. \E E \in SUBSET Tasks : Promise!Collect(E)
      BY <2>1, CheckedCollects
    <2> QED
      BY <2>1, <2>2 DEF Promise!StoreNext
  <1>3. ASSUME NEW t \in Tasks, Delete(t) PROVE Promise!StoreNext
    BY <1>3 DEF Delete, Promise!Delete, Promise!StoreNext
  <1>4. ASSUME Pass PROVE Promise!StoreNext
    <2>1. proofs' = Checked({t \in Tasks : Held(t)}) /\ UNCHANGED now
      BY <1>4 DEF Pass
    <2>2. \E E \in SUBSET Tasks : Promise!Collect(E)
      BY <2>1, CheckedCollects
    <2> QED
      BY <2>1, <2>2 DEF Promise!StoreNext
  <1>5. ASSUME Crash PROVE Promise!StoreNext
    <2>1. Promise!LoseMemory
      BY <1>5, InMemoryAssumption DEF Crash, Promise!LoseMemory
    <2> QED
      BY <1>5, <2>1 DEF Crash, Promise!StoreNext
  <1>6. ASSUME Tick PROVE Promise!StoreNext
    BY <1>6 DEF Tick, Promise!Tick, Promise!StoreNext
  <1>7. ASSUME Stop \/ Cancelled \/ LoopEnds \/ LoopStarts \/ UNCHANGED vars
        PROVE  UNCHANGED <<now, proofs>>
    BY <1>7 DEF Stop, Cancelled, LoopEnds, LoopStarts, vars
  <1> QED
    BY <1>1, <1>2, <1>3, <1>4, <1>5, <1>6, <1>7 DEF Next

(* A proof stays until it is replaced, deleted or expired, or the process  *)
(* ends, also when its task is saved again while the collector works.      *)
THEOREM PromiseKept == Spec => KeepsPromise
  <1>1. Init => Promise!StoreInit
    BY DEF Init, Promise!StoreInit
  <1>2. Spec => []TypeOK
    BY TypeCorrect
  <1> QED
    BY <1>1, <1>2, StepIsPromised, PTL DEF Spec, KeepsPromise, Promise!StoreSpec

-----------------------------------------------------------------------------
(* What is wrong with stop() is its wait and nothing else: as long as no   *)
(* proof is saved while a cancelled collector has not ended yet, a running *)
(* loop watches all that was saved since stop() was called, through loops  *)
(* that end, processes that end, and collectors that are stopped again.    *)
NoneSavedMeanwhile == [][gc = "cancelled" => fresh' \subseteq fresh]_vars

(* The converse of the finding memory_watched: no other way leads there.   *)
THEOREM WatchedUnlessStopping == Spec /\ NoneSavedMeanwhile => []SavedIsWatched
<1> DEFINE Inv == gc \in {"cancelled", "done"} => fresh = {}
           Calm == gc = "cancelled" => fresh' \subseteq fresh
<1>1. Init => Inv
  BY DEF Init
<1>2. ASSUME Inv, [Next]_vars, Calm \/ UNCHANGED vars PROVE Inv'
  <2>1. ASSUME NEW t \in Tasks, NEW content \in Contents, Save(t, content) PROVE Inv'
    BY <1>2, <2>1 DEF Save, Ended, vars
  <2>2. ASSUME NEW t \in Tasks, Get(t) \/ Delete(t) PROVE Inv'
    BY <1>2, <2>2 DEF Get, Delete
  <2>3. CASE Stop \/ Cancelled
    BY <1>2, <2>3 DEF Stop, Ended, Cancelled, CancelEnds
  <2>4. CASE LoopEnds \/ LoopStarts \/ Crash
    BY <1>2, <2>4 DEF LoopEnds, LoopStarts, Crash
  <2>5. CASE Pass \/ Tick \/ UNCHANGED vars
    BY <1>2, <2>5 DEF Pass, Tick, vars
  <2> QED
    BY <1>2, <2>1, <2>2, <2>3, <2>4, <2>5 DEF Next
<1>3. Inv => SavedIsWatched
  BY DEF SavedIsWatched
<1> HIDE DEF Inv, Calm
<1>4. NoneSavedMeanwhile => [][Calm]_vars
  BY PTL DEF NoneSavedMeanwhile, Calm
<1> QED
  BY <1>1, <1>2, <1>3, <1>4, PTL DEF Spec
=============================================================================
