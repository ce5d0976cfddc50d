----------------------- MODULE SQLiteProofStoreProofs -----------------------
(* Types and locks of the SQLite store, for any number of coroutines,      *)
(* tasks, calls and faults; and that a task that is saved once stays until *)
(* it expires, whatever becomes of others: the store implements ProofStore.*)
EXTENDS SQLiteProofStore, TLAPS

(* A flag that is set tells the truth, and past the schema there is a      *)
(* table.  A crash clears the flag and keeps the table.                    *)
TableInv == /\ ready => table
            /\ \A p \in Procs : pc[p] = "connect" => table

LockInv == SchemaOnce /\ TableInv /\ OneWriter

-----------------------------------------------------------------------------
LEMMA ProofType ==
  ASSUME now \in 0..MaxTime, NEW content \in Contents
  PROVE  NewProof(content, now, TTL) \in StoredProofs
BY SQLiteAssumption DEF NewProof, StoredProofs, Hashes

(* What a statement leaves in the table is a table.                        *)
LEMMA WrittenType ==
  ASSUME TypeOK, NEW p \in Procs
  PROVE  Written(p) \in [Tasks -> StoredProofs \cup {NoProof}]
BY DEF TypeOK, Jobs, Written

LEMMA InitTypes == Init => TypeOK
<1> SUFFICES ASSUME Init PROVE TypeOK
  OBVIOUS
<1> USE SQLiteAssumption DEF Init
<1>1. NoJob \in Jobs
  BY DEF NoJob, Jobs, Kinds
<1>2. now = 0 /\ now \in 0..MaxTime
  OBVIOUS
<1>3. calls = 0 /\ calls \in 0..MaxCalls /\ faults = 0 /\ faults \in 0..MaxFaults
  OBVIOUS
<1>4. pc \in [Procs -> PCs]
  BY DEF PCs, Waits
<1>5. job \in [Procs -> Jobs] /\ outcome \in [Procs -> Outcomes]
  BY <1>1 DEF Outcomes
<1> QED
  BY <1>1, <1>2, <1>3, <1>4, <1>5 DEF TypeOK

(* A job that goes on as another kind, with another time.                  *)
LEMMA JobType ==
  ASSUME NEW j \in Jobs, NEW kind \in Kinds, NEW time \in 0..MaxTime
  PROVE  [j EXCEPT !.kind = kind] \in Jobs /\ [j EXCEPT !.kind = kind, !.cut = time] \in Jobs
BY DEF Jobs

(* What a cancelled coroutine leaves.                                      *)
LEMMA AbandonType ==
  ASSUME TypeOK, NEW p \in Procs, Abandon(p)
  PROVE  /\ now' \in 0..MaxTime
         /\ disk' \in [Tasks -> StoredProofs \cup {NoProof}]
         /\ table' \in BOOLEAN /\ ready' \in BOOLEAN
         /\ slock' \in Procs \cup {Nobody} /\ wlock' \in Procs \cup {Nobody}
         /\ job' = job /\ row' = row
         /\ outcome' \in [Procs -> Outcomes]
<1>1. Written(p) \in [Tasks -> StoredProofs \cup {NoProof}]
  BY WrittenType
<1>2. disk' \in [Tasks -> StoredProofs \cup {NoProof}]
  BY <1>1 DEF Abandon, TypeOK
<1> QED
  BY <1>2 DEF Abandon, TypeOK, Free, Outcomes

(* The calls.                                                              *)
LEMMA CallTypes ==
  ASSUME TypeOK, NEW p \in Callers, CallSave(p) \/ CallOther(p)
  PROVE  TypeOK'
<1> USE SQLiteAssumption DEF TypeOK, PCs, Waits, Outcomes, Procs, dataVars, lockVars
<1>1. PICK kind \in Kinds, t \in Tasks, proof \in StoredProofs \cup {NoProof} :
        Begin(p, kind, t, proof)
  BY ProofType DEF CallSave, CallOther, Kinds
<1>2. [kind |-> kind, task |-> t, proof |-> proof, cut |-> now] \in Jobs
  BY DEF Jobs
<1>3. /\ job' \in [Procs -> Jobs]
      /\ outcome' \in [Procs -> Outcomes]
      /\ calls' \in 0..MaxCalls
      /\ UNCHANGED <<dataVars, lockVars, row, acked, faults>>
  BY <1>1, <1>2 DEF Begin
<1>4. pc' \in [Procs -> PCs] /\ stopping' = stopping /\ given' \in SUBSET Tasks
  BY DEF CallSave, CallOther, Goto
<1> QED
  BY <1>3, <1>4

(* The steps of a coroutine.                                               *)
LEMMA StepTypes ==
  ASSUME TypeOK, NEW p \in Procs, Step(p)
  PROVE  TypeOK'
<1> USE SQLiteAssumption
    DEF TypeOK, PCs, Waits, Outcomes, dataVars, lockVars, auxVars, Goto, Proceed, Free,
        Error, Fault, Rest
<1>1. CASE CheckReady(p) \/ LockSchema(p) \/ CreateSchema(p) \/ Connect(p) \/ Execute(p)
  BY <1>1 DEF CheckReady, LockSchema, CreateSchema, Connect, Execute
<1>2. CASE OpenFails(p)
  <2>1. outcome' \in [Procs -> Outcomes]
    BY <1>2 DEF OpenFails
  <2>2. pc' \in [Procs -> PCs]
    BY <1>2 DEF OpenFails
  <2>3. table' \in BOOLEAN
    <3>1. table \in BOOLEAN /\ (table \/ pc[p] = "ddl") \in BOOLEAN
      OBVIOUS
    <3> QED
      BY <1>2, <3>1, Zenon DEF OpenFails
  <2>4. slock' \in Procs \cup {Nobody} /\ faults' \in 0..MaxFaults
    BY <1>2 DEF OpenFails
  <2> QED
    BY <1>2, <2>1, <2>2, <2>3, <2>4 DEF OpenFails
<1>3. CASE Select(p) \/ SelectAll(p)
  BY <1>3 DEF Select, SelectAll, Jobs
<1>4. CASE CheckRow(p)
  <2>1. [job[p] EXCEPT !.kind = "evict"] \in Jobs
    BY JobType DEF Kinds
  <2>2. job' \in [Procs -> Jobs]
    BY <1>4, <2>1 DEF CheckRow
  <2>3. pc' \in [Procs -> PCs] /\ outcome' \in [Procs -> Outcomes]
    BY <1>4 DEF CheckRow
  <2> QED
    BY <1>4, <2>2, <2>3 DEF CheckRow
<1>5. CASE Commit(p)
  BY <1>5, WrittenType DEF Commit, Success
<1>6. CASE LockTimeout(p) \/ StatementFails(p)
  BY <1>6 DEF LockTimeout, StatementFails, Blocked, Fails, Failure
<1>7. CASE Close(p)
  BY <1>7 DEF Close, Jobs
<1> QED
  BY <1>1, <1>2, <1>3, <1>4, <1>5, <1>6, <1>7 DEF Step

LEMMA NextTypes ==
  ASSUME TypeOK, [Next]_vars
  PROVE  TypeOK'
<1> USE SQLiteAssumption
    DEF TypeOK, PCs, Waits, Outcomes, Procs, dataVars, lockVars, callVars, auxVars,
        Goto, Free, Fault
<1>1. ASSUME NEW p \in Callers, Cancel(p) PROVE TypeOK'
  BY <1>1, AbandonType DEF Cancel
<1>2. CASE Wake
  <2>1. [job[GC] EXCEPT !.kind = "collect", !.cut = now] \in Jobs
    BY JobType DEF Kinds
  <2>2. job' = [job EXCEPT ![GC] = [job[GC] EXCEPT !.kind = "collect", !.cut = now]]
    BY <1>2 DEF Wake, Cut
  <2>3. job' \in [Procs -> Jobs]
    BY <2>1, <2>2
  <2>4. pc' \in [Procs -> PCs]
    BY <1>2 DEF Wake
  <2> QED
    BY <1>2, <2>3, <2>4 DEF Wake
<1>3. CASE Stop
  BY <1>3 DEF Stop
<1>4. CASE CollectorEnds
  BY <1>4, AbandonType DEF CollectorEnds
<1>5. CASE Crash
  <2>1. disk' \in [Tasks -> StoredProofs \cup {NoProof}]
    <3>1. CASE disk' = disk
      BY <3>1
    <3>2. CASE \E p \in Procs : disk' = Written(p)
      <4>1. \A p \in Procs : Written(p) \in [Tasks -> StoredProofs \cup {NoProof}]
        BY WrittenType
      <4> QED
        BY <3>2, <4>1
    <3> QED
      BY <1>5, <3>1, <3>2 DEF Crash
  <2>2. pc' \in [Procs -> PCs] /\ outcome' \in [Procs -> Outcomes]
    BY <1>5 DEF Crash
  <2>3. /\ UNCHANGED <<now, table, job, row, given, acked, calls>>
        /\ ready' = FALSE /\ slock' = Nobody /\ wlock' = Nobody /\ stopping' = FALSE
        /\ faults' \in 0..MaxFaults
    BY <1>5 DEF Crash
  <2> QED
    BY <2>1, <2>2, <2>3
<1>6. CASE Tick
  BY <1>6 DEF Tick
<1>7. CASE UNCHANGED vars
  BY <1>7 DEF vars
<1> QED
  BY <1>1, <1>2, <1>3, <1>4, <1>5, <1>6, <1>7, CallTypes, StepTypes
     DEF Next, Terminated

(* Type correctness of the SQLite store.                                   *)
THEOREM TypeCorrect == Spec => []TypeOK
BY InitTypes, NextTypes, PTL DEF Spec

-----------------------------------------------------------------------------
LEMMA InitLocks == Init => LockInv
BY SQLiteAssumption
   DEF Init, LockInv, SchemaOnce, TableInv, OneWriter, Procs

(* A step of a coroutine takes and leaves only locks of its own.           *)
LEMMA StepLocks ==
  ASSUME TypeOK, LockInv, NEW p \in Procs, Step(p)
  PROVE  LockInv'
<1> USE SQLiteAssumption
    DEF TypeOK, LockInv, SchemaOnce, TableInv, OneWriter, Procs, dataVars, lockVars,
        Goto, Proceed, Free, Rest
<1>1. CASE CheckReady(p)
  BY <1>1 DEF CheckReady
<1>2. CASE LockSchema(p)
  BY <1>2 DEF LockSchema, ReadyUnderLock
<1>3. CASE CreateSchema(p)
  BY <1>3 DEF CreateSchema
<1>4. CASE OpenFails(p)
  BY <1>4 DEF OpenFails
<1>5. CASE Connect(p) \/ Select(p) \/ SelectAll(p) \/ CheckRow(p)
  BY <1>5 DEF Connect, Select, SelectAll, CheckRow
<1>6. CASE Execute(p)
  BY <1>6 DEF Execute
<1>7. CASE Commit(p)
  BY <1>7 DEF Commit
<1>8. CASE LockTimeout(p) \/ StatementFails(p)
  BY <1>8 DEF LockTimeout, StatementFails, Blocked, Fails
<1>9. CASE Close(p)
  BY <1>9 DEF Close
<1> QED
  BY <1>1, <1>2, <1>3, <1>4, <1>5, <1>6, <1>7, <1>8, <1>9 DEF Step

LEMMA NextLocks ==
  ASSUME TypeOK, LockInv, [Next]_vars
  PROVE  LockInv'
<1> USE SQLiteAssumption
    DEF TypeOK, LockInv, SchemaOnce, TableInv, OneWriter, Procs, dataVars, lockVars,
        callVars, Goto, Free
<1>1. CASE \E p \in Callers : CallSave(p) \/ CallOther(p)
  BY <1>1 DEF CallSave, CallOther, Begin
<1>2. CASE \E p \in Callers : Cancel(p)
  BY <1>2 DEF Cancel, Abandon
<1>3. CASE Wake
  BY <1>3 DEF Wake
<1>4. CASE CollectorEnds
  BY <1>4 DEF CollectorEnds, Abandon
<1>5. CASE Crash
  BY <1>5 DEF Crash
<1>6. CASE Stop \/ Tick \/ UNCHANGED vars
  BY <1>6 DEF Stop, Tick, vars
<1> QED
  BY <1>1, <1>2, <1>3, <1>4, <1>5, <1>6, StepLocks DEF Next, Terminated

(* The schema is there for who relies on it, and is made by one coroutine  *)
(* at a time, as the write lock is held by one: inductive together.        *)
THEOREM Locks == Spec => []LockInv
BY InitTypes, NextTypes, InitLocks, NextLocks, PTL DEF Spec

(* _ensure_schema makes the schema in one coroutine at a time and lets no  *)
(* statement through before it is there.                                   *)
THEOREM SchemaIsMadeOnce == Spec => []SchemaOnce
<1>1. LockInv => SchemaOnce
  BY DEF LockInv
<1> QED
  BY <1>1, Locks, PTL

(* Two transactions never overlap, and a lock is never left behind: the    *)
(* finally clauses close every connection.                                 *)
THEOREM WritersAlternate == Spec => []OneWriter
<1>1. LockInv => OneWriter
  BY DEF LockInv
<1> QED
  BY <1>1, Locks, PTL

-----------------------------------------------------------------------------
(* Durability.  It needs to know of every coroutine what it may still do   *)
(* to the row of a task, and that a task saved once has one proof: then a  *)
(* row that get() or the collector found expired is the only one there is. *)
Active(p) == pc[p] \notin {"idle", "asleep", "dead"}
Doing(p, kind, t) == Active(p) /\ job[p].kind = kind /\ job[p].task = t

(* The only proof task t was ever given.                                   *)
OneProof(t, proof) ==
  /\ t \in given
  /\ acked[t] \in {NoProof, proof}
  /\ \A q \in Procs : Doing(q, "save", t) => job[q].proof = proof

(* What a get() has read of t is still what is there, if anything is.      *)
SameRow(p, t) ==
  (pc[p] = "check" /\ job[p].task = t) \/ Doing(p, "evict", t) =>
    row[p] = NoProof \/ disk[t] = NoProof \/ row[p] = disk[t]

JobInv ==
  \A p \in Procs :
    /\ job[p].cut <= now
    /\ pc[p] = "close" /\ outcome[p] = "saved" => job[p].kind = "save"
    /\ Active(p) /\ job[p].kind = "delete" => job[p].task \in Deletable

Kept(t) ==
  /\ acked[t] # NoProof => t \in given
  /\ acked[t] # NoProof /\ ~Expired(acked[t]) => disk[t] = acked[t]
  /\ disk[t] # NoProof => OneProof(t, disk[t])
  /\ \A p \in Procs : Doing(p, "save", t) =>
       /\ t \in given
       /\ acked[t] = NoProof
       /\ job[p].proof # NoProof
       /\ \A q \in Procs : Doing(q, "save", t) => q = p
       /\ pc[p] = "close" /\ outcome[p] = "saved" /\ ~Expired(job[p].proof) =>
            disk[t] = job[p].proof
  /\ \A p \in Procs : pc[p] = "check" /\ job[p].task = t /\ row[p] # NoProof =>
       OneProof(t, row[p])
  /\ \A p \in Procs : Doing(p, "evict", t) =>
       row[p] # NoProof /\ Expired(row[p]) /\ OneProof(t, row[p])
  /\ \A p \in Procs : SameRow(p, t)

(* The tasks whose proofs nobody asks to delete or saves again.            *)
SavedOnce == Tasks \ (Deletable \cup Resaved)

DurableInv == JobInv /\ \A t \in SavedOnce : Kept(t)

(* What expired stays expired.                                             *)
LEMMA ExpiredStays ==
  ASSUME TypeOK, now' \in Nat, now <= now', NEW proof \in StoredProofs, Expired(proof)
  PROVE  Expired(proof)'
<1>1. now \in Nat /\ proof.expires_at \in Nat
  BY SQLiteAssumption DEF TypeOK, StoredProofs
<1> QED
  BY <1>1 DEF Expired

(* What a step may do to the row of t without anybody noticing: nothing,   *)
(* remove it when its proof has expired, or write what its save was given. *)
RowStays(t) ==
  \/ disk'[t] = disk[t]
  \/ /\ disk'[t] = NoProof
     /\ acked[t] # NoProof => Expired(acked[t])
     /\ \A q \in Procs : Doing(q, "save", t) => Expired(job[q].proof)
  \/ \E p \in Procs : Doing(p, "save", t) /\ disk'[t] = job[p].proof

(* A coroutine that, after the step, is out, or deals with another task,   *)
(* or does t no harm, or goes on with what it did.                         *)
Calm(p, t) ==
  \/ ~Active(p)'
  \/ job'[p].task # t
  \/ job'[p].kind \notin {"save", "evict"} /\ pc'[p] # "check"
  \/ /\ Active(p)
     /\ job'[p] = job[p]
     /\ row'[p] = row[p]
     /\ pc'[p] = "check" => pc[p] = "check"
     /\ Doing(p, "save", t) /\ pc'[p] = "close" /\ outcome'[p] = "saved" =>
          \/ pc[p] = "close" /\ outcome[p] = "saved"
          \/ disk'[t] = job[p].proof

LEMMA KeptStays ==
  ASSUME TypeOK, NEW t \in Tasks, Kept(t), RowStays(t), \A p \in Procs : Calm(p, t),
         now' \in Nat, now <= now', acked'[t] = acked[t], t \in given => t \in given'
  PROVE  Kept(t)'
<1> USE DEF Kept
<1>1. \A proof \in StoredProofs : Expired(proof) => proof.expires_at < now'
  BY ExpiredStays DEF Expired
<1>2. /\ acked[t] \in StoredProofs \cup {NoProof}
      /\ \A p \in Procs : /\ job[p].proof \in StoredProofs \cup {NoProof}
                          /\ row[p] \in StoredProofs \cup {NoProof}
  BY DEF TypeOK, Jobs
<1>3. ASSUME NEW p \in Procs, Doing(p, "save", t)'
      PROVE  Doing(p, "save", t) /\ job'[p] = job[p]
  BY <1>3 DEF Calm, Doing, Active
<1>4. ASSUME NEW p \in Procs, Doing(p, "evict", t)'
      PROVE  Doing(p, "evict", t) /\ row'[p] = row[p]
  BY <1>4 DEF Calm, Doing, Active
<1>5. ASSUME NEW p \in Procs, pc'[p] = "check", job'[p].task = t
      PROVE  pc[p] = "check" /\ job[p].task = t /\ row'[p] = row[p]
  BY <1>5 DEF Calm, Active
<1> DEFINE StillOne(proof) ==
      /\ t \in given'
      /\ acked'[t] \in {NoProof, proof}
      /\ \A q \in Procs : Doing(q, "save", t)' => job'[q].proof = proof
<1>6. \A proof : OneProof(t, proof) => StillOne(proof)
  BY <1>3 DEF OneProof
<1> HIDE DEF StillOne
<1>7. acked'[t] # NoProof => t \in given'
  OBVIOUS
<1>8. acked'[t] # NoProof /\ ~Expired(acked[t])' => disk'[t] = acked'[t]
  BY <1>1, <1>2 DEF RowStays, Expired
<1>9. disk'[t] # NoProof => StillOne(disk'[t])
  <2>1. CASE disk'[t] = disk[t]
    BY <1>6, <2>1
  <2>2. CASE \E p \in Procs : Doing(p, "save", t) /\ disk'[t] = job[p].proof
    <3>1. PICK p \in Procs : Doing(p, "save", t) /\ disk'[t] = job[p].proof
      BY <2>2
    <3>2. OneProof(t, job[p].proof)
      BY <3>1 DEF OneProof
    <3> QED
      BY <1>6, <3>1, <3>2
  <2> QED
    BY <2>1, <2>2 DEF RowStays
<1>10. ASSUME NEW p \in Procs, Doing(p, "save", t)'
       PROVE  /\ t \in given'
              /\ acked'[t] = NoProof
              /\ job'[p].proof # NoProof
              /\ \A q \in Procs : Doing(q, "save", t)' => q = p
              /\ pc'[p] = "close" /\ outcome'[p] = "saved" /\ ~Expired(job[p].proof)' =>
                   disk'[t] = job'[p].proof
  <2>1. Doing(p, "save", t) /\ job'[p] = job[p]
    BY <1>3, <1>10
  <2>2. \A q \in Procs : Doing(q, "save", t) => q = p
    BY <2>1
  <2>3. ASSUME pc'[p] = "close", outcome'[p] = "saved", ~Expired(job[p].proof)'
        PROVE  disk'[t] = job[p].proof
    <3>1. ~Expired(job[p].proof)
      BY <1>1, <1>2, <2>1, <2>3 DEF Expired
    <3>2. \/ disk'[t] = job[p].proof
          \/ pc[p] = "close" /\ outcome[p] = "saved"
      <4>1. /\ Active(p)'
            /\ job'[p].task = t
            /\ job'[p].kind = "save"
            /\ Doing(p, "save", t)
            /\ Calm(p, t)
        BY <1>10, <2>1 DEF Doing
      <4> QED
        BY <2>3, <4>1 DEF Calm
    <3> QED
      BY <2>1, <2>2, <3>1, <3>2 DEF RowStays
  <2> QED
    BY <1>3, <2>1, <2>2, <2>3
<1>11. ASSUME NEW p \in Procs, pc'[p] = "check", job'[p].task = t, row'[p] # NoProof
       PROVE  StillOne(row'[p])
  BY <1>5, <1>6, <1>11
<1>12. ASSUME NEW p \in Procs, Doing(p, "evict", t)'
       PROVE  row'[p] # NoProof /\ Expired(row[p])' /\ StillOne(row'[p])
  BY <1>1, <1>2, <1>4, <1>6, <1>12 DEF Expired
<1>13. ASSUME NEW p \in Procs PROVE SameRow(p, t)'
  <2> SUFFICES ASSUME (pc'[p] = "check" /\ job'[p].task = t) \/ Doing(p, "evict", t)',
                      row'[p] # NoProof, disk'[t] # NoProof
               PROVE  row'[p] = disk'[t]
    BY DEF SameRow
  <2>1. /\ (pc[p] = "check" /\ job[p].task = t) \/ Doing(p, "evict", t)
        /\ row'[p] = row[p]
    BY <1>4, <1>5
  <2>2. OneProof(t, row[p])
    BY <2>1
  <2>3. CASE disk'[t] = disk[t]
    BY <2>1, <2>3 DEF SameRow
  <2>4. CASE \E q \in Procs : Doing(q, "save", t) /\ disk'[t] = job[q].proof
    BY <2>1, <2>2, <2>4 DEF OneProof
  <2> QED
    BY <2>3, <2>4 DEF RowStays
<1> QED
  BY <1>7, <1>8, <1>9, <1>10, <1>11, <1>12, <1>13 DEF StillOne, OneProof

(* What a statement does to a row nobody asked to delete.                  *)
LEMMA WriteStays ==
  ASSUME TypeOK, JobInv, NEW t \in Tasks \ Deletable, Kept(t),
         NEW p \in Procs, pc[p] = "commit", disk' = Written(p)
  PROVE  /\ RowStays(t)
         /\ Doing(p, "save", t) => disk'[t] = job[p].proof
<1>1. Active(p)
  BY DEF Active
<1>2. CASE job[p].kind = "save"
  BY <1>1, <1>2 DEF Written, RowStays, Doing, TypeOK
<1>3. CASE job[p].kind = "evict" /\ job[p].task = t
  <2>1. Expired(row[p]) /\ row[p] # NoProof /\ OneProof(t, row[p])
    BY <1>1, <1>3 DEF Kept, Doing
  <2>2. disk'[t] = NoProof
    BY <1>3 DEF Written, TypeOK
  <2> QED
    BY <1>3, <2>1, <2>2 DEF RowStays, OneProof, Doing
<1>4. CASE job[p].kind \in {"evict", "delete"} /\ job[p].task # t
  BY <1>4 DEF Written, RowStays, TypeOK, Doing
<1>5. CASE job[p].kind = "delete" /\ job[p].task = t
  BY <1>1, <1>5 DEF JobInv
<1>6. CASE job[p].kind \notin {"save", "evict", "delete"}
  <2>1. disk'[t] = IF disk[t] # NoProof /\ Due(disk[t], job[p].cut) THEN NoProof
                   ELSE disk[t]
    BY <1>6 DEF Written
  <2>2. CASE disk[t] # NoProof /\ Due(disk[t], job[p].cut)
    <3>1. /\ disk[t] \in StoredProofs /\ disk[t].expires_at \in Nat
          /\ job[p].cut \in Nat /\ now \in Nat /\ job[p].cut <= now
      BY <2>2, SQLiteAssumption DEF TypeOK, StoredProofs, Jobs, JobInv
    <3>2. Expired(disk[t])
      BY <2>2, <3>1 DEF Due, Expired
    <3>3. OneProof(t, disk[t])
      BY <2>2 DEF Kept
    <3> QED
      BY <1>6, <2>1, <2>2, <3>2, <3>3 DEF RowStays, OneProof, Doing
  <2>3. CASE ~(disk[t] # NoProof /\ Due(disk[t], job[p].cut))
    BY <1>6, <2>1, <2>3 DEF RowStays, Doing
  <2> QED
    BY <2>2, <2>3
<1> QED
  BY <1>2, <1>3, <1>4, <1>5, <1>6

(* A step of one coroutine leaves the row and the other coroutines.        *)
LEMMA StepKept ==
  ASSUME TypeOK, JobInv, NEW t \in Tasks \ Deletable, Kept(t),
         NEW p \in Procs, Step(p)
  PROVE  Kept(t)'
<1> USE DEF dataVars, lockVars, auxVars, Goto, Proceed
<1>0. now \in Nat /\ now <= now
  BY SQLiteAssumption DEF TypeOK
<1>1. CASE CheckReady(p) \/ LockSchema(p) \/ CreateSchema(p) \/ Connect(p)
             \/ Execute(p) \/ SelectAll(p) \/ OpenFails(p) \/ LockTimeout(p)
             \/ StatementFails(p)
  <2>1. /\ now' = now /\ disk' = disk /\ job' = job /\ row' = row /\ given' = given
        /\ acked' = acked
        /\ \A q \in Procs : q # p => pc'[q] = pc[q] /\ outcome'[q] = outcome[q]
    BY <1>1 DEF CheckReady, LockSchema, CreateSchema, Connect, Execute, SelectAll,
       OpenFails, LockTimeout, StatementFails, Blocked, Fails, TypeOK
  <2>2. /\ Active(p) /\ pc'[p] # "check"
        /\ pc'[p] = "close" => outcome'[p] # "saved"
    BY <1>1 DEF CheckReady, LockSchema, CreateSchema, Connect, Execute, SelectAll,
       OpenFails, LockTimeout, StatementFails, Blocked, Fails, Failure, Error, Rest,
       Active, TypeOK
  <2>3. \A q \in Procs : Calm(q, t)
    BY <2>1, <2>2 DEF Calm, Active
  <2> QED
    BY <1>0, <2>1, <2>3, KeptStays DEF RowStays
<1>2. CASE Select(p)
  <2>1. CASE job[p].task = t
    BY <1>2, <2>1 DEF Select, Kept, SameRow, OneProof, Doing, Active, Expired, TypeOK
  <2>2. CASE job[p].task # t
    <3>1. \A q \in Procs : Calm(q, t)
      BY <1>2, <2>2 DEF Select, Calm, Active, TypeOK
    <3> QED
      BY <1>0, <1>2, <3>1, KeptStays DEF Select, RowStays
  <2> QED
    BY <2>1, <2>2
<1>3. CASE CheckRow(p)
  <2>1. CASE job[p].task = t /\ row[p] # NoProof /\ Expired(row[p])
    <3>1. OneProof(t, row[p])
      BY <1>3, <2>1 DEF CheckRow, Kept
    <3>2. /\ job' = [job EXCEPT ![p].kind = "evict"] /\ pc' = [pc EXCEPT ![p] = "schema"]
          /\ UNCHANGED <<outcome, row, now, disk, given, acked>>
      BY <1>3, <2>1 DEF CheckRow
    <3>3. /\ job'[p].kind = "evict" /\ job'[p].task = t /\ pc'[p] = "schema"
          /\ \A q \in Procs : q # p => job'[q] = job[q] /\ pc'[q] = pc[q]
      BY <2>1, <3>2 DEF TypeOK, Jobs
    <3>4. \A q \in Procs : Doing(q, "save", t)' => q # p /\ Doing(q, "save", t)
      BY <3>3 DEF Doing, Active
    <3>5. \A q \in Procs : Doing(q, "evict", t)' => q = p \/ Doing(q, "evict", t)
      BY <3>3 DEF Doing, Active
    <3>6. \A proof : OneProof(t, proof) =>
            /\ t \in given' /\ acked'[t] \in {NoProof, proof}
            /\ \A q \in Procs : Doing(q, "save", t)' => job'[q].proof = proof
      BY <3>2, <3>3, <3>4 DEF OneProof
    <3>7. \A q \in Procs : SameRow(q, t)'
      <4>1. \A q \in Procs : SameRow(q, t)
        BY DEF Kept
      <4>2. pc[p] = "check"
        BY <1>3 DEF CheckRow
      <4>3. ASSUME NEW q \in Procs, pc'[q] = "check" /\ job'[q].task = t
            PROVE  pc[q] = "check" /\ job[q].task = t
        BY <3>3, <4>3
      <4> QED
        BY <2>1, <3>2, <3>5, <4>1, <4>2, <4>3 DEF SameRow
    <3> QED
      BY <2>1, <3>1, <3>2, <3>3, <3>4, <3>5, <3>6, <3>7 DEF Kept, OneProof, Expired
  <2>2. CASE ~(job[p].task = t /\ row[p] # NoProof /\ Expired(row[p]))
    <3>1. \A q \in Procs : q # p => Calm(q, t)
      BY <1>3 DEF CheckRow, Calm, Active, TypeOK
    <3>2. Calm(p, t)
      BY <1>3, <2>2 DEF CheckRow, Calm, Active, TypeOK, Jobs
    <3> QED
      BY <1>0, <1>3, <3>1, <3>2, KeptStays DEF CheckRow, RowStays
  <2> QED
    BY <2>1, <2>2
<1>4. CASE Commit(p)
  <2>1. RowStays(t) /\ (Doing(p, "save", t) => disk'[t] = job[p].proof)
    BY <1>4, WriteStays DEF Commit
  <2>2. \A q \in Procs : Calm(q, t)
    BY <1>4, <2>1 DEF Commit, Calm, Active, TypeOK
  <2> QED
    BY <1>0, <1>4, <2>1, <2>2, KeptStays DEF Commit
<1>5. CASE Close(p)
  <2>1. \A q \in Procs : Calm(q, t)
    BY <1>5 DEF Close, Calm, Active, Rest, TypeOK
  <2>2. CASE acked'[t] = acked[t]
    BY <1>0, <1>5, <2>1, <2>2, KeptStays DEF Close, RowStays
  <2>3. CASE acked'[t] # acked[t]
    <3>1. /\ outcome[p] = "saved" /\ job[p].task = t /\ acked'[t] = job[p].proof
          /\ pc[p] = "close"
      BY <1>5, <2>3 DEF Close, TypeOK
    <3>2. Doing(p, "save", t)
      BY <3>1 DEF JobInv, Doing, Active
    <3>3. /\ \A q \in Procs : ~Doing(q, "save", t)'
          /\ \A q \in Procs : Doing(q, "evict", t)' => Doing(q, "evict", t)
          /\ \A q \in Procs : pc'[q] = "check" => pc[q] = "check"
          /\ UNCHANGED <<job, row, now, disk, given>>
      BY <1>5, <3>2 DEF Close, Doing, Active, Rest, Kept, TypeOK
    <3>4. \A proof : OneProof(t, proof) => proof = job[p].proof
      BY <3>2 DEF OneProof
    <3>5. t \in given /\ (~Expired(job[p].proof) => disk[t] = job[p].proof)
      BY <3>1, <3>2 DEF Kept
    <3> QED
      BY <3>1, <3>3, <3>4, <3>5 DEF Kept, SameRow, OneProof, Expired
  <2> QED
    BY <2>2, <2>3
<1> QED
  BY <1>1, <1>2, <1>3, <1>4, <1>5 DEF Step

(* A save of a task that was never given finds nothing of it anywhere.     *)
LEMMA SaveKept ==
  ASSUME TypeOK, NEW t \in SavedOnce, Kept(t), NEW p \in Callers, CallSave(p)
  PROVE  Kept(t)'
<1> USE SQLiteAssumption DEF dataVars, lockVars, Procs, SavedOnce
<1>1. PICK u \in Tasks, content \in Contents :
        /\ u \in given => u \in Resaved
        /\ Begin(p, "save", u, NewProof(content, now, TTL))
        /\ given' = given \cup {u}
        /\ pc' = [pc EXCEPT ![p] = "schema", ![GC] = IF @ = "dead" THEN "asleep" ELSE @]
  BY DEF CallSave
<1>2. /\ job'[p] = [kind |-> "save", task |-> u, proof |-> NewProof(content, now, TTL),
                    cut |-> now]
      /\ \A q \in Procs : q # p => job'[q] = job[q] /\ outcome'[q] = outcome[q]
      /\ UNCHANGED <<now, disk, row, acked>>
  BY <1>1 DEF Begin, TypeOK
<1>3. /\ pc'[p] = "schema"
      /\ \A q \in Procs : q # p => \/ pc'[q] = pc[q]
                                   \/ pc'[q] = "asleep"
  BY <1>1 DEF TypeOK
<1>4. now \in Nat /\ now <= now
  BY DEF TypeOK
<1>5. CASE u # t
  <2>1. \A q \in Procs : Calm(q, t)
    BY <1>2, <1>3, <1>5 DEF Calm, Active
  <2> QED
    BY <1>1, <1>2, <1>4, <2>1, KeptStays DEF RowStays
<1>6. CASE u = t
  <2>1. /\ disk[t] = NoProof /\ acked[t] = NoProof
        /\ \A q \in Procs : ~Doing(q, "save", t) /\ ~Doing(q, "evict", t)
        /\ \A q \in Procs : pc[q] = "check" /\ job[q].task = t => row[q] = NoProof
    BY <1>1, <1>6 DEF Kept, OneProof
  <2>2. \A q \in Procs : Doing(q, "save", t)' => q = p
    BY <1>2, <1>3, <2>1 DEF Doing, Active
  <2>3. \A q \in Procs : ~Doing(q, "evict", t)'
    BY <1>2, <1>3, <2>1 DEF Doing, Active
  <2>4. \A q \in Procs : pc'[q] = "check" /\ job'[q].task = t => row'[q] = NoProof
    BY <1>2, <1>3, <2>1
  <2>5. NewProof(content, now, TTL) # NoProof
    BY ProofType, NoProofAssumption DEF TypeOK
  <2>6. /\ t \in given' /\ acked'[t] = NoProof /\ disk'[t] = NoProof
        /\ job'[p].proof # NoProof /\ pc'[p] # "close"
    BY <1>1, <1>2, <1>3, <1>6, <2>1, <2>5
  <2> QED
    BY <2>2, <2>3, <2>4, <2>6 DEF Kept, SameRow
<1> QED
  BY <1>5, <1>6

LEMMA NextKept ==
  ASSUME TypeOK, JobInv, NEW t \in SavedOnce, Kept(t), [Next]_vars
  PROVE  Kept(t)'
<1> USE SQLiteAssumption
    DEF dataVars, lockVars, callVars, auxVars, Procs, Goto, Fault, SavedOnce
<1>0. now \in Nat /\ now <= now
  BY DEF TypeOK
<1>1. ASSUME NEW p \in Callers, CallOther(p) PROVE Kept(t)'
  <2>1. \A q \in Procs : Calm(q, t)
    BY <1>1 DEF CallOther, Begin, Calm, Active, TypeOK
  <2> QED
    BY <1>0, <1>1, <2>1, KeptStays DEF CallOther, Begin, RowStays
<1>2. ASSUME NEW p \in Procs, Abandon(p), ~Active(p)', UNCHANGED <<given, acked>>,
             \A q \in Procs : q # p => pc'[q] = pc[q]
      PROVE  Kept(t)'
  <2>1. RowStays(t)
    BY <1>2, WriteStays DEF Abandon, RowStays
  <2>2. \A q \in Procs : Calm(q, t)
    BY <1>2 DEF Abandon, Calm, Active, TypeOK
  <2> QED
    BY <1>0, <1>2, <2>1, <2>2, KeptStays DEF Abandon
<1>3. ASSUME NEW p \in Callers, Cancel(p) PROVE Kept(t)'
  <2>1. ~Active(p)' /\ \A q \in Procs : q # p => pc'[q] = pc[q]
    BY <1>3 DEF Cancel, Active, TypeOK
  <2> QED
    BY <1>2, <1>3, <2>1 DEF Cancel
<1>4. CASE CollectorEnds
  <2>1. ~Active(GC)' /\ \A q \in Procs : q # GC => pc'[q] = pc[q]
    BY <1>4 DEF CollectorEnds, Active, TypeOK
  <2> QED
    BY <1>2, <1>4, <2>1 DEF CollectorEnds
<1>5. CASE Wake
  <2>1. \A q \in Procs : Calm(q, t)
    BY <1>5 DEF Wake, Cut, Calm, Active, TypeOK, Jobs
  <2> QED
    BY <1>0, <1>5, <2>1, KeptStays DEF Wake, RowStays
<1>6. CASE Crash
  <2>1. RowStays(t)
    BY <1>6, WriteStays DEF Crash, RowStays
  <2>2. \A q \in Procs : Calm(q, t)
    BY <1>6 DEF Crash, Calm, Active
  <2> QED
    BY <1>0, <1>6, <2>1, <2>2, KeptStays DEF Crash
<1>7. CASE Tick \/ Stop \/ UNCHANGED vars
  <2>1. now' \in Nat /\ now <= now'
    BY <1>0, <1>7 DEF Tick, Stop, vars
  <2>2. UNCHANGED <<disk, acked, given, job, row, pc, outcome>>
    BY <1>7 DEF Tick, Stop, vars
  <2>3. \A q \in Procs : Calm(q, t)
    BY <2>2 DEF Calm, Active
  <2> QED
    BY <2>1, <2>2, <2>3, KeptStays DEF RowStays
<1> QED
  BY <1>1, <1>3, <1>4, <1>5, <1>6, <1>7, SaveKept, StepKept DEF Next, Terminated

LEMMA NextJobs ==
  ASSUME TypeOK, JobInv, [Next]_vars
  PROVE  JobInv'
<1> USE SQLiteAssumption
    DEF dataVars, lockVars, callVars, auxVars, Procs, Goto, Fault, JobInv, Active
<1>0. now \in Nat /\ \A p \in Procs : job[p].cut \in Nat /\ job[p] \in Jobs
  BY DEF TypeOK, Jobs
<1>1. ASSUME NEW p \in Procs, Step(p) PROVE JobInv'
  <2>1. CASE CheckRow(p)
    BY <1>0, <2>1 DEF CheckRow, TypeOK, Jobs
  <2>2. CASE Commit(p)
    BY <2>2 DEF Commit, Success, TypeOK
  <2>3. CASE CheckReady(p) \/ LockSchema(p) \/ CreateSchema(p) \/ Connect(p) \/ Execute(p)
    BY <2>3 DEF CheckReady, LockSchema, CreateSchema, Connect, Execute, Proceed, TypeOK
  <2>4. CASE OpenFails(p) \/ Close(p)
    BY <2>4 DEF OpenFails, Close, Rest, TypeOK
  <2>5. CASE Select(p) \/ SelectAll(p) \/ LockTimeout(p) \/ StatementFails(p)
    BY <2>5 DEF Select, SelectAll, LockTimeout, StatementFails, Blocked, Fails, Failure,
       Error, TypeOK
  <2> QED
    BY <1>1, <2>1, <2>2, <2>3, <2>4, <2>5 DEF Step
<1>2. ASSUME NEW p \in Callers, CallSave(p) \/ CallOther(p) PROVE JobInv'
  BY <1>0, <1>2 DEF CallSave, CallOther, Begin, TypeOK
<1>3. ASSUME NEW p \in Callers, Cancel(p) PROVE JobInv'
  BY <1>3 DEF Cancel, Abandon, TypeOK
<1>4. CASE CollectorEnds
  BY <1>4 DEF CollectorEnds, Abandon, TypeOK
<1>5. CASE Wake
  <2>1. /\ job'[GC].cut = now /\ job'[GC].kind = "collect" /\ pc'[GC] = "schema"
        /\ now' = now /\ outcome' = outcome
        /\ \A q \in Procs : q # GC => job'[q] = job[q] /\ pc'[q] = pc[q]
    BY <1>0, <1>5 DEF Wake, Cut, TypeOK, Jobs
  <2> QED
    BY <1>0, <2>1
<1>6. CASE Crash
  BY <1>6 DEF Crash
<1>7. CASE Tick
  BY <1>0, <1>7 DEF Tick
<1>8. CASE Stop \/ UNCHANGED vars
  BY <1>8 DEF Stop, vars
<1> QED
  BY <1>1, <1>2, <1>3, <1>4, <1>5, <1>6, <1>7, <1>8 DEF Next, Terminated

(* What every coroutine may still do to a task saved once is harmless.     *)
THEOREM StaysDurable == Spec => []DurableInv
<1>1. Init => DurableInv
  <2> SUFFICES ASSUME Init PROVE DurableInv
    OBVIOUS
  <2>1. \A p \in Procs : ~Active(p) /\ pc[p] \notin {"check", "close"} /\ job[p].cut = 0
    BY DEF Init, NoJob, Active
  <2>2. now = 0 /\ \A t \in Tasks : disk[t] = NoProof /\ acked[t] = NoProof
    BY DEF Init
  <2> QED
    BY <2>1, <2>2 DEF DurableInv, SavedOnce, JobInv, Kept, SameRow, Doing
<1>2. TypeOK /\ DurableInv /\ [Next]_vars => DurableInv'
  BY NextJobs, NextKept DEF DurableInv
<1> QED
  BY <1>1, <1>2, TypeCorrect, PTL DEF Spec

(* The proof save() returned for is the one on disk until it expires: for  *)
(* a task that is saved once, as by atp_task, no failure, cancellation,    *)
(* crash, late delete of a get() or pass of the collector takes it away,   *)
(* and no save, delete or late delete of another task.                     *)
THEOREM SavedOnceIsDurable ==
  Spec => [](\A t \in SavedOnce :
               acked[t] # NoProof /\ ~Expired(acked[t]) => disk[t] = acked[t])
<1>1. DurableInv => \A t \in SavedOnce :
                      acked[t] # NoProof /\ ~Expired(acked[t]) => disk[t] = acked[t]
  BY DEF DurableInv, Kept
<1> QED
  BY <1>1, StaysDurable, PTL

(* What save() returned for is durable, when tasks that are saved again    *)
(* are among those the application deletes.                                *)
THEOREM SavesAreDurable ==
  ASSUME Resaved \subseteq Deletable
  PROVE  Spec => []AckedIsDurable
<1>1. DurableInv => AckedIsDurable
  BY DEF DurableInv, SavedOnce, Kept, AckedIsDurable
<1> QED
  BY <1>1, StaysDurable, PTL

-----------------------------------------------------------------------------
(* What a get() of a task saved once reads and answers.  From the return   *)
(* of save() until the proof expires it reads that proof and no other; it  *)
(* answers with a proof that is live and the only one the task was given,  *)
(* and deletes what has expired.                                           *)
GetIsTrue(p, t) ==
  /\ pc[p] = "execute" /\ pc'[p] = "check" /\ acked[t] # NoProof /\ ~Expired(acked[t]) =>
       row'[p] = acked[t]
  /\ pc[p] = "check" /\ pc'[p] = "close" =>
       IF outcome'[p] = "found" THEN OneProof(t, row[p]) /\ ~Expired(row[p])
                                ELSE outcome'[p] = "missing" /\ row[p] = NoProof
  /\ pc[p] = "check" /\ pc'[p] = "schema" => row[p] # NoProof /\ Expired(row[p])

LEMMA StepGetIsTrue ==
  ASSUME TypeOK, DurableInv, [Next]_vars,
         NEW p \in Procs, NEW t \in SavedOnce, job[p].task = t
  PROVE  GetIsTrue(p, t)
<1> USE DEF dataVars, lockVars, callVars, auxVars, Goto
<1>1. SavedOnce \subseteq Tasks /\ Kept(t)
  BY DEF SavedOnce, DurableInv
<1>2. CASE Select(p)
  BY <1>1, <1>2 DEF Select, GetIsTrue, Kept, TypeOK
<1>3. CASE CheckRow(p)
  BY <1>1, <1>3 DEF CheckRow, GetIsTrue, Kept, TypeOK
<1>4. ASSUME NEW q \in Procs, Step(q), ~Select(q), ~CheckRow(q) PROVE GetIsTrue(p, t)
  <2>1. pc[q] # "check" /\ pc'[q] # "check"
    BY <1>4 DEF Step, Proceed, CheckReady, LockSchema, CreateSchema, OpenFails, Connect,
       Select, SelectAll, CheckRow, Execute, Commit, LockTimeout, Blocked, StatementFails,
       Fails, Close, Rest, TypeOK
  <2>2. q = p \/ pc'[p] = pc[p]
    BY <1>4 DEF Step, Proceed, CheckReady, LockSchema, CreateSchema, OpenFails, Connect,
       Select, SelectAll, CheckRow, Execute, Commit, LockTimeout, Blocked, StatementFails,
       Fails, Close, Rest, TypeOK
  <2> QED
    BY <2>1, <2>2 DEF GetIsTrue
<1>5. ASSUME NEW q \in Procs, q # p, Select(q) \/ CheckRow(q) PROVE GetIsTrue(p, t)
  BY <1>5 DEF Select, CheckRow, GetIsTrue, TypeOK
<1>6. ASSUME NEW q \in Callers, CallSave(q) \/ CallOther(q) PROVE GetIsTrue(p, t)
  <2>1. pc'[p] = pc[p] \/ pc[p] \in {"idle", "dead"}
    BY <1>6 DEF CallSave, CallOther, Begin, TypeOK
  <2> QED
    BY <2>1 DEF GetIsTrue
<1>7. ASSUME NEW q \in Callers, Cancel(q) PROVE GetIsTrue(p, t)
  <2>1. pc'[p] \in {pc[p], "idle"}
    BY <1>7 DEF Cancel, TypeOK
  <2> QED
    BY <2>1 DEF GetIsTrue
<1>8. CASE Wake \/ CollectorEnds \/ Crash
  <2>1. \/ pc'[p] \in {pc[p], "idle", "dead"}
        \/ pc[p] = "asleep"
    BY <1>8 DEF Wake, CollectorEnds, Crash, TypeOK
  <2> QED
    BY <2>1 DEF GetIsTrue
<1>9. CASE Tick \/ Stop \/ Terminated \/ UNCHANGED vars
  <2>1. pc'[p] = pc[p]
    BY <1>9 DEF Tick, Stop, Terminated, vars
  <2> QED
    BY <2>1 DEF GetIsTrue
<1> QED
  BY <1>2, <1>3, <1>4, <1>5, <1>6, <1>7, <1>8, <1>9 DEF Next, Procs

(* Whoever asks for a proof that save() has returned for is given that     *)
(* proof until it expires, and never one that was not saved.               *)
THEOREM GetsAreTrue ==
  Spec => [][\A p \in Procs : job[p].task \in SavedOnce => GetIsTrue(p, job[p].task)]_vars
<1> DEFINE True == \A p \in Procs : job[p].task \in SavedOnce => GetIsTrue(p, job[p].task)
<1>1. TypeOK /\ DurableInv /\ [Next]_vars => True
  BY StepGetIsTrue
<1> HIDE DEF True
<1>2. Spec => [][True]_vars
  BY <1>1, TypeCorrect, StaysDurable, PTL DEF Spec
<1> QED
  BY <1>2 DEF True

-----------------------------------------------------------------------------
(* The refinement.  A task that is saved again may lose its proof at any   *)
(* time, as if it were deleted on request (run sqlite_resave); Lenient is  *)
(* the promise that allows this, and nothing else.                         *)
Lenient == INSTANCE ProofStore WITH store <- disk, Deletable <- Deletable \cup Resaved

LEMMA SameProofs == Lenient!StoredProofs = StoredProofs
BY DEF Lenient!StoredProofs, StoredProofs, Lenient!Hashes, Hashes, Lenient!Hash, Hash

(* A row taken away from a task that is saved once had expired.            *)
LEMMA EvictedIsExpired ==
  ASSUME TypeOK, NEW t \in SavedOnce, Kept(t),
         NEW p \in Procs, Doing(p, "evict", t), disk[t] # NoProof
  PROVE  Expired(disk[t])
<1>1. SameRow(p, t) /\ row[p] # NoProof /\ Expired(row[p])
  BY DEF Kept
<1> QED
  BY <1>1 DEF SameRow

(* What a statement leaves is what a step of the promise leaves.           *)
LEMMA WriteIsPromised ==
  ASSUME TypeOK, DurableInv, NEW p \in Procs, pc[p] = "commit",
         disk' = Written(p), now' = now
  PROVE  Lenient!StoreNext \/ disk' = disk
<1>1. Active(p)
  BY DEF Active
<1>2. job[p].task \in Tasks /\ job[p].proof \in StoredProofs \cup {NoProof}
  BY DEF TypeOK, Jobs
<1> DEFINE t == job[p].task
<1>3. CASE job[p].kind = "save"
  <2>1. disk' = [disk EXCEPT ![t] = job[p].proof]
    BY <1>3 DEF Written
  <2>2. CASE job[p].proof \in StoredProofs
    <3>1. disk'[t] = job[p].proof /\ Lenient!Put(t, disk'[t])
      BY <1>2, <2>1 DEF Lenient!Put, TypeOK
    <3> QED
      BY <1>2, <2>2, <3>1, SameProofs DEF Lenient!StoreNext
  <2>3. CASE job[p].proof = NoProof
    <3>1. t \in Deletable \cup Resaved
      BY <1>1, <1>2, <1>3, <2>3 DEF DurableInv, SavedOnce, Kept, Doing
    <3>2. Lenient!Delete(t)
      BY <2>1, <2>3, <3>1 DEF Lenient!Delete
    <3> QED
      BY <1>2, <3>2 DEF Lenient!StoreNext
  <2> QED
    BY <1>2, <2>2, <2>3
<1>4. CASE job[p].kind \in {"evict", "delete"}
  <2>1. disk' = [disk EXCEPT ![t] = NoProof]
    BY <1>4 DEF Written
  <2>2. CASE t \in Deletable \cup Resaved
    <3>1. Lenient!Delete(t)
      BY <2>1, <2>2 DEF Lenient!Delete
    <3> QED
      BY <1>2, <3>1 DEF Lenient!StoreNext
  <2>3. CASE t \in SavedOnce /\ disk[t] # NoProof
    <3>1. Doing(p, "evict", t)
      BY <1>1, <1>4, <2>3 DEF DurableInv, SavedOnce, JobInv, Doing
    <3>2. Expired(disk[t])
      BY <1>2, <2>3, <3>1, EvictedIsExpired DEF DurableInv
    <3>3. disk' = [u \in Tasks |-> IF u \in {t} THEN NoProof ELSE disk[u]]
      BY <2>1 DEF TypeOK
    <3>4. Lenient!Collect({t})
      BY <2>3, <3>2, <3>3 DEF Lenient!Collect, Lenient!Holds, Lenient!Expired, Expired
    <3> QED
      BY <1>2, <3>4 DEF Lenient!StoreNext
  <2>4. CASE disk[t] = NoProof
    BY <1>2, <2>1, <2>4 DEF TypeOK
  <2> QED
    BY <1>2, <2>2, <2>3, <2>4 DEF SavedOnce
<1>5. CASE job[p].kind \notin {"save", "evict", "delete"}
  <2> DEFINE T == {u \in Tasks : disk[u] # NoProof /\ Due(disk[u], job[p].cut)}
  <2>1. disk' = [u \in Tasks |-> IF u \in T THEN NoProof ELSE disk[u]]
    BY <1>5 DEF Written
  <2>2. ASSUME NEW u \in T PROVE Lenient!Holds(u) /\ Lenient!Expired(disk[u])
    <3>1. /\ disk[u] \in StoredProofs /\ disk[u].expires_at \in Nat
          /\ job[p].cut \in Nat /\ now \in Nat /\ job[p].cut <= now
      BY <2>2, SQLiteAssumption DEF TypeOK, StoredProofs, Jobs, DurableInv, JobInv
    <3> QED
      BY <2>2, <3>1 DEF Due, Lenient!Holds, Lenient!Expired
  <2>3. Lenient!Collect(T)
    BY <2>1, <2>2 DEF Lenient!Collect
  <2> QED
    BY <2>3 DEF Lenient!StoreNext
<1> QED
  BY <1>3, <1>4, <1>5

LEMMA StepIsPromised ==
  TypeOK /\ DurableInv /\ [Next]_vars => [Lenient!StoreNext]_(Lenient!storeVars)
<1> SUFFICES ASSUME TypeOK, DurableInv, [Next]_vars
             PROVE  Lenient!StoreNext \/ UNCHANGED <<now, disk>>
  BY DEF Lenient!storeVars
<1> USE DEF dataVars, lockVars, callVars, auxVars, Goto, Fault
<1>1. ASSUME NEW p \in Procs, Commit(p) PROVE Lenient!StoreNext \/ UNCHANGED <<now, disk>>
  BY <1>1, WriteIsPromised DEF Commit
<1>2. ASSUME NEW p \in Procs, Step(p), ~Commit(p) PROVE UNCHANGED <<now, disk>>
  BY <1>2 DEF Step, CheckReady, LockSchema, CreateSchema, OpenFails, Connect, Select,
     SelectAll, CheckRow, Execute, LockTimeout, StatementFails, Close, Proceed, Fails, Blocked
<1>3. ASSUME NEW p \in Callers, CallSave(p) \/ CallOther(p) PROVE UNCHANGED <<now, disk>>
  BY <1>3 DEF CallSave, CallOther, Begin
<1>4. ASSUME NEW p \in Procs, Abandon(p)
      PROVE  Lenient!StoreNext \/ UNCHANGED <<now, disk>>
  BY <1>4, WriteIsPromised DEF Abandon
<1>5. ASSUME NEW p \in Callers, Cancel(p)
      PROVE  Lenient!StoreNext \/ UNCHANGED <<now, disk>>
  BY <1>4, <1>5 DEF Cancel, Procs
<1>6. CASE CollectorEnds
  BY <1>4, <1>6 DEF CollectorEnds, Procs
<1>7. CASE Crash
  BY <1>7, WriteIsPromised DEF Crash
<1>8. CASE Tick
  BY <1>8 DEF Tick, Lenient!Tick, Lenient!StoreNext
<1>9. CASE Wake \/ Stop \/ Terminated \/ UNCHANGED vars
  BY <1>9 DEF Wake, Stop, Terminated, vars
<1> QED
  BY <1>1, <1>2, <1>3, <1>5, <1>6, <1>7, <1>8, <1>9 DEF Next

(* The store implements the lenient promise, without any assumption: what  *)
(* fails, is cancelled, deleted late or collected takes a proof only when  *)
(* it has expired, if its task is saved once and nobody asked it to go.    *)
THEOREM LenientPromiseKept == Spec => Lenient!StoreSpec
<1>1. Init => Lenient!StoreInit
  BY DEF Init, Lenient!StoreInit
<1>2. Spec => []TypeOK
  BY TypeCorrect
<1>3. Spec => []DurableInv
  BY StaysDurable
<1> QED
  BY <1>1, <1>2, <1>3, StepIsPromised, PTL DEF Spec, Lenient!StoreSpec

(* And it implements ProofStore itself when the tasks that are saved again *)
(* are among those the application deletes.                                *)
THEOREM PromiseKept ==
  ASSUME Resaved \subseteq Deletable
  PROVE  Spec => KeepsPromise
<1>1. Lenient!StoreInit => Promise!StoreInit
  BY DEF Lenient!StoreInit, Promise!StoreInit
<1>2. ASSUME [Lenient!StoreNext]_(Lenient!storeVars)
      PROVE  [Promise!StoreNext]_(Promise!storeVars)
  <2>1. Deletable \cup Resaved = Deletable
    OBVIOUS
  <2>2. CASE UNCHANGED Lenient!storeVars
    BY <2>2 DEF Lenient!storeVars, Promise!storeVars
  <2>3. ASSUME NEW t \in Tasks, Lenient!Delete(t) PROVE Promise!Delete(t)
    BY <2>1, <2>3 DEF Lenient!Delete, Promise!Delete
  <2>4. ASSUME NEW T \in SUBSET Tasks, Lenient!Collect(T) PROVE Promise!Collect(T)
    BY <2>4 DEF Lenient!Collect, Promise!Collect, Lenient!Holds, Promise!Holds,
                Lenient!Expired, Promise!Expired
  <2>5. ASSUME NEW t \in Tasks, Lenient!Put(t, disk'[t]), disk'[t] \in Lenient!StoredProofs
        PROVE  Promise!Put(t, disk'[t]) /\ disk'[t] \in Promise!StoredProofs
    BY <2>5 DEF Lenient!Put, Promise!Put, Lenient!StoredProofs, Promise!StoredProofs,
                Lenient!Hashes, Promise!Hashes, Lenient!Hash, Promise!Hash
  <2>6. Lenient!LoseMemory => Promise!LoseMemory
    BY DEF Lenient!LoseMemory, Promise!LoseMemory
  <2>7. Lenient!Tick => Promise!Tick
    BY DEF Lenient!Tick, Promise!Tick
  <2> QED
    BY <1>2, <2>2, <2>3, <2>4, <2>5, <2>6, <2>7 DEF Lenient!StoreNext, Promise!StoreNext
<1> QED
  BY <1>1, <1>2, LenientPromiseKept, PTL
  DEF KeepsPromise, Lenient!StoreSpec, Promise!StoreSpec

-----------------------------------------------------------------------------
(* How many places lie before a coroutine at most, until it rests.  A      *)
(* get() may go through them a second time, to delete what it has read.    *)
Place(p) == CASE pc[p] = "schema" -> 7
              [] pc[p] = "waiting" -> 6
              [] pc[p] = "ddl" -> 5
              [] pc[p] = "connect" -> 4
              [] pc[p] = "execute" -> 3
              [] pc[p] \in {"check", "commit"} -> 2
              [] pc[p] = "close" -> 1
              [] OTHER -> 0
Ahead(p) == Place(p) + (IF Active(p) /\ job[p].kind = "get" THEN 7 ELSE 0)

(* No call waits, locks or fails its way back: whatever the others do, a   *)
(* coroutine that moves comes nearer to its end.  So a call takes at most  *)
(* 14 steps, and CallsReturn can only fail if it is not let make them.     *)
Nearer(p) == Active(p) => \/ Ahead(p)' < Ahead(p)
                          \/ pc'[p] = pc[p] /\ job'[p] = job[p]

(* Only a get() looks at a row.                                            *)
Checks == \A p \in Procs : pc[p] = "check" => job[p].kind = "get"

LEMMA GetChecks == Spec => []Checks
<1>1. Init => Checks
  BY DEF Init, Checks
<1>2. ASSUME TypeOK, Checks, [Next]_vars PROVE Checks'
  <2> USE <1>2 DEF Checks, TypeOK, Jobs, dataVars, lockVars, callVars, auxVars, Goto, Procs
  <2>1. ASSUME NEW q \in Procs, Step(q) PROVE Checks'
    BY <2>1 DEF Step, Proceed, CheckReady, LockSchema, CreateSchema, OpenFails, Connect,
       Select, SelectAll, CheckRow, Execute, Commit, LockTimeout, Blocked,
       StatementFails, Fails, Close, Rest
  <2>2. ASSUME NEW q \in Callers, CallSave(q) \/ CallOther(q) PROVE Checks'
    BY <2>2 DEF CallSave, CallOther, Begin
  <2>3. ASSUME NEW q \in Callers, Cancel(q) PROVE Checks'
    BY <2>3 DEF Cancel, Abandon
  <2>4. CASE Wake \/ CollectorEnds \/ Crash
    BY <2>4 DEF Wake, CollectorEnds, Abandon, Crash
  <2>5. CASE Tick \/ Stop \/ Terminated \/ UNCHANGED vars
    BY <2>5 DEF Tick, Stop, Terminated, vars
  <2> QED
    BY <1>2, <2>1, <2>2, <2>3, <2>4, <2>5 DEF Next
<1> QED
  BY <1>1, <1>2, TypeCorrect, PTL DEF Spec

LEMMA RestIsNear ==
  ASSUME TypeOK, NEW p \in Procs, pc'[p] \in {"idle", "asleep", "dead"}
  PROVE  Nearer(p)
BY DEF TypeOK, PCs, Waits, Nearer, Ahead, Place, Active

(* The safety half of CallsReturn: every step of a coroutine, also one     *)
(* that fails or is cancelled, is a step towards its return.               *)
THEOREM CallsGoForward == Spec => [][\A p \in Procs : Nearer(p)]_vars
<1> DEFINE Forward == \A p \in Procs : Nearer(p)
<1>1. ASSUME TypeOK, Checks, [Next]_vars, NEW p \in Procs PROVE Nearer(p)
  <2> USE DEF dataVars, lockVars, callVars, auxVars, Goto
  <2>1. ASSUME UNCHANGED <<pc, job>> PROVE Nearer(p)
    BY <2>1 DEF Nearer
  <2>2. ASSUME NEW q \in Procs, q # p, pc'[p] = pc[p], job'[p] = job[p] PROVE Nearer(p)
    BY <2>2 DEF Nearer
  <2>3. ASSUME Step(p) PROVE Nearer(p)
    <3> USE <1>1 DEF Nearer, Ahead, Place, Active, TypeOK, Jobs, Writes, Proceed
    <3>1. CASE CheckReady(p)
      BY <3>1 DEF CheckReady
    <3>2. CASE LockSchema(p)
      BY <3>2 DEF LockSchema
    <3>3. CASE CreateSchema(p) \/ Connect(p)
      BY <3>3 DEF CreateSchema, Connect
    <3>4. CASE Select(p) \/ SelectAll(p)
      BY <3>4 DEF Select, SelectAll
    <3>5. CASE CheckRow(p)
      BY <3>5 DEF CheckRow, Checks
    <3>6. CASE Execute(p) \/ Commit(p)
      BY <3>6 DEF Execute, Commit
    <3>7. CASE LockTimeout(p) \/ StatementFails(p)
      BY <3>7 DEF LockTimeout, Blocked, StatementFails, Fails
    <3>8. CASE OpenFails(p) \/ Close(p)
      BY <3>8, RestIsNear DEF OpenFails, Close, Rest
    <3> QED
      BY <2>3, <3>1, <3>2, <3>3, <3>4, <3>5, <3>6, <3>7, <3>8 DEF Step
  <2>4. ASSUME NEW q \in Procs, q # p, Step(q) PROVE pc'[p] = pc[p] /\ job'[p] = job[p]
    BY <1>1, <2>4 DEF TypeOK, Step, Proceed, CheckReady, LockSchema, CreateSchema, OpenFails,
       Connect, Select, SelectAll, CheckRow, Execute, Commit, LockTimeout, Blocked,
       StatementFails, Fails, Close
  <2>5. ASSUME NEW q \in Callers, CallSave(q) \/ CallOther(q) PROVE Nearer(p)
    BY <1>1, <2>5 DEF CallSave, CallOther, Begin, Nearer, Active, TypeOK
  <2>6. CASE Wake
    BY <1>1, <2>6 DEF Wake, Nearer, Active, TypeOK
  <2>7. ASSUME NEW q \in Callers, Cancel(q) PROVE Nearer(p)
    <3>1. CASE q = p
      BY <1>1, <2>7, <3>1, RestIsNear DEF Cancel, TypeOK
    <3>2. CASE q # p
      BY <1>1, <2>7, <3>2 DEF Cancel, Abandon, Nearer, TypeOK
    <3> QED
      BY <3>1, <3>2
  <2>8. CASE CollectorEnds
    <3>1. CASE p = GC
      BY <1>1, <2>8, <3>1, RestIsNear DEF CollectorEnds, TypeOK
    <3>2. CASE p # GC
      BY <1>1, <2>8, <3>2 DEF CollectorEnds, Abandon, Nearer, TypeOK
    <3> QED
      BY <3>1, <3>2
  <2>9. CASE Crash
    BY <1>1, <2>9, RestIsNear DEF Crash
  <2>10. CASE Tick \/ Stop \/ Terminated \/ UNCHANGED vars
    BY <2>1, <2>10 DEF Tick, Stop, Terminated, vars
  <2> QED
    BY <1>1, <2>2, <2>3, <2>4, <2>5, <2>6, <2>7, <2>8, <2>9, <2>10 DEF Next
<1>2. TypeOK /\ Checks /\ [Next]_vars => Forward
  BY <1>1
<1> HIDE DEF Forward
<1>3. Spec => [][Forward]_vars
  BY <1>2, TypeCorrect, GetChecks, PTL DEF Spec
<1> QED
  BY <1>3 DEF Forward
=============================================================================
