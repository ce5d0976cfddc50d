-------------------------- MODULE SQLiteProofStore --------------------------
(* SQLiteProofStore (core/storage.py): coroutines that save, get, delete   *)
(* and list proofs, and the garbage collector, over one database file.     *)
(* Every operation opens a connection of its own, so what serialises them  *)
(* is the asyncio lock around the schema and SQLite's write lock.  Each    *)
(* action is the code between two awaits; the collector is one more        *)
(* coroutine and takes the same steps.                                     *)
EXTENDS ATPData

CONSTANTS Callers,    \* coroutines that call the store
          GC,         \* the garbage collector
          Nobody,     \* the holder of a free lock
          Deletable,  \* the tasks whose proofs the application deletes
          Resaved,    \* the tasks it may save again (MinimalAdapter retries)
          TTL,        \* config.proof_ttl_seconds
          MaxTime, MaxCalls, MaxFaults  \* bounds: clock, calls, faults

ASSUME SQLiteAssumption ==
  /\ GC \notin Callers /\ Nobody \notin Callers \cup {GC}
  /\ Deletable \subseteq Tasks /\ Resaved \subseteq Tasks
  /\ Durable = Tasks /\ Tasks # {}
  /\ TTL \in Nat /\ MaxTime \in Nat /\ MaxCalls \in Nat /\ MaxFaults \in Nat

Procs == Callers \cup {GC}

VARIABLES now,       \* the clock
          disk,      \* the committed rows of atp_proofs
          table,     \* the table exists
          ready,     \* _schema_ready
          slock,     \* who holds _schema_lock
          wlock,     \* who holds the write lock of the database
          pc,        \* where each coroutine is
          job,       \* what it does
          row,       \* the row its SELECT returned
          outcome,   \* how its last call ended
          stopping,  \* stop() has cancelled the collector
          given,     \* the tasks save() was ever called for
          acked,     \* acked[t]: the proof of the last save() that returned
          calls, faults

dataVars == <<now, disk, table>>
lockVars == <<ready, slock, wlock>>
callVars == <<pc, job, row, outcome, stopping>>
auxVars == <<given, acked, calls, faults>>
vars == <<dataVars, lockVars, callVars, auxVars>>

Waits == {"schema", "waiting", "ddl", "connect", "execute", "commit", "close"}
PCs == Waits \cup {"check", "idle", "asleep", "dead"}
Kinds == {"none", "save", "get", "evict", "delete", "list", "collect"}
Writes == {"save", "evict", "delete", "collect"}
Jobs == [kind : Kinds, task : Tasks, proof : StoredProofs \cup {NoProof},
         cut : 0..MaxTime]
Outcomes == {"none", "saved", "found", "missing", "expired", "deleted",
             "listed", "ATPStorageError", "raw_error", "cancelled"}

TypeOK == /\ now \in 0..MaxTime
          /\ disk \in [Tasks -> StoredProofs \cup {NoProof}]
          /\ table \in BOOLEAN
          /\ ready \in BOOLEAN
          /\ slock \in Procs \cup {Nobody}
          /\ wlock \in Procs \cup {Nobody}
          /\ pc \in [Procs -> PCs]
          /\ job \in [Procs -> Jobs]
          /\ row \in [Procs -> StoredProofs \cup {NoProof}]
          /\ outcome \in [Procs -> Outcomes]
          /\ stopping \in BOOLEAN
          /\ given \in SUBSET Tasks
          /\ acked \in [Tasks -> StoredProofs \cup {NoProof}]
          /\ calls \in 0..MaxCalls
          /\ faults \in 0..MaxFaults

NoJob == [kind |-> "none", task |-> CHOOSE t \in Tasks : TRUE,
          proof |-> NoProof, cut |-> 0]
Rest(p) == IF p = GC THEN "asleep" ELSE "idle"

Init == /\ now = 0
        /\ disk = [t \in Tasks |-> NoProof]
        /\ table = FALSE
        /\ ready = FALSE
        /\ slock = Nobody
        /\ wlock = Nobody
        /\ pc = [p \in Procs |-> IF p = GC THEN "dead" ELSE "idle"]
        /\ job = [p \in Procs |-> NoJob]
        /\ row = [p \in Procs |-> NoProof]
        /\ outcome = [p \in Procs |-> "none"]
        /\ stopping = FALSE
        /\ given = {}
        /\ acked = [t \in Tasks |-> NoProof]
        /\ calls = 0
        /\ faults = 0

Expired(proof) == proof.expires_at < now
Goto(p, place) == pc' = [pc EXCEPT ![p] = place]
Proceed(p, place) == Goto(p, place) /\ UNCHANGED <<job, row, outcome, stopping, auxVars>>

(* Leaving a with or finally block.                                        *)
FreeLeaking(lock, p) == lock  \* Bug: not left after an error
Free(lock, p) == IF lock = p THEN Nobody ELSE lock

Error == "ATPStorageError"

(* Something outside the code goes wrong.                                  *)
Fault == faults < MaxFaults /\ faults' = faults + 1

-----------------------------------------------------------------------------
(* Calls.  list() takes the time before it opens its connection.           *)
Begin(p, kind, t, proof) ==
  /\ pc[p] = "idle"
  /\ calls < MaxCalls
  /\ calls' = calls + 1
  /\ job' = [job EXCEPT ![p] = [kind |-> kind, task |-> t, proof |-> proof,
                                cut |-> now]]
  /\ outcome' = [outcome EXCEPT ![p] = "none"]
  /\ UNCHANGED <<dataVars, lockVars, row, acked, faults>>

(* save() first starts the collector if it is not running.                 *)
CallSave(p) ==
  \E t \in Tasks, content \in Contents :
    /\ t \in given => t \in Resaved
    /\ Begin(p, "save", t, NewProof(content, now, TTL))
    /\ given' = given \cup {t}
    /\ pc' = [pc EXCEPT ![p] = "schema",
                        ![GC] = IF @ = "dead" THEN "asleep" ELSE @]
    /\ UNCHANGED stopping

CallOther(p) ==
  \E t \in Tasks, kind \in {"get", "delete", "list"} :
    /\ kind = "delete" => t \in Deletable
    /\ Begin(p, kind, t, NoProof)
    /\ Goto(p, "schema")
    /\ UNCHANGED <<stopping, given>>

(* The collector takes the time after each sleep.                          *)
CutEarly == now + 1        \* Bug: counts the coming interval as passed
CutStale == job[GC].cut    \* Bug: takes the time once, before its loop
Cut == now

(* The collector wakes after proof_cleanup_interval.                       *)
Wake == /\ pc[GC] = "asleep"
        /\ Goto(GC, "schema")
        /\ job' = [job EXCEPT ![GC].kind = "collect", ![GC].cut = Cut]
        /\ UNCHANGED <<dataVars, lockVars, row, outcome, stopping, auxVars>>

-----------------------------------------------------------------------------
(* _ensure_schema: a check, the lock, and the check again under the lock.  *)
CheckReady(p) == /\ pc[p] = "schema"
                 /\ Proceed(p, IF ready THEN "connect" ELSE "waiting")
                 /\ UNCHANGED <<dataVars, lockVars>>

ReadyUnchecked == FALSE  \* Bug: no second check under the lock
ReadyUnderLock == ready

LockSchema(p) == /\ pc[p] = "waiting"
                 /\ slock = Nobody
                 /\ IF ReadyUnderLock THEN Proceed(p, "connect") /\ UNCHANGED slock
                                      ELSE Proceed(p, "ddl") /\ slock' = p
                 /\ UNCHANGED <<dataVars, ready, wlock>>

CreateSchema(p) == /\ pc[p] = "ddl"
                   /\ Proceed(p, "connect")
                   /\ table' = TRUE
                   /\ ready' = TRUE
                   /\ slock' = Nobody
                   /\ UNCHANGED <<now, disk, wlock>>

(* An error of _open is raised as it is, since the try of save(), get(),   *)
(* delete() and list() begins after it; only that of the delete() inside a *)
(* get() is converted.  The collector catches it and goes back to sleep.   *)
OpenFails(p) == /\ pc[p] \in {"ddl", "connect"}
                /\ Fault
                /\ Goto(p, Rest(p))
                /\ slock' = Free(slock, p)
                /\ table' \in {table, table \/ pc[p] = "ddl"}
                /\ outcome' = [outcome EXCEPT ![p] =
                     IF job[p].kind = "evict" THEN Error ELSE "raw_error"]
                /\ UNCHANGED <<now, disk, ready, wlock, job, row, stopping, given,
                               acked, calls>>

Connect(p) == /\ pc[p] = "connect"
              /\ Proceed(p, "execute")
              /\ UNCHANGED <<dataVars, lockVars>>

-----------------------------------------------------------------------------
(* A SELECT reads what is committed when it runs.                          *)
Select(p) == /\ pc[p] = "execute"
             /\ job[p].kind = "get"
             /\ Goto(p, "check")
             /\ row' = [row EXCEPT ![p] = disk[job[p].task]]
             /\ UNCHANGED <<dataVars, lockVars, job, outcome, stopping, auxVars>>

SelectAll(p) == /\ pc[p] = "execute"
                /\ job[p].kind = "list"
                /\ Goto(p, "close")
                /\ outcome' = [outcome EXCEPT ![p] = "listed"]
                /\ UNCHANGED <<dataVars, lockVars, job, row, stopping, auxVars>>

(* get() back in the event loop with its row: an expired one is deleted,   *)
(* by self.delete(), on a second connection.                               *)
CheckRow(p) ==
  /\ pc[p] = "check"
  /\ IF row[p] # NoProof /\ Expired(row[p])
     THEN /\ Goto(p, "schema")
          /\ job' = [job EXCEPT ![p].kind = "evict"]
          /\ UNCHANGED outcome
     ELSE /\ Goto(p, "close")
          /\ outcome' = [outcome EXCEPT ![p] =
                           IF row[p] = NoProof THEN "missing" ELSE "found"]
          /\ UNCHANGED job
  /\ UNCHANGED <<dataVars, lockVars, row, stopping, auxVars>>

(* INSERT or DELETE: begins a transaction, which takes the write lock.     *)
Execute(p) == /\ pc[p] = "execute"
              /\ job[p].kind \in Writes
              /\ wlock = Nobody
              /\ wlock' = p
              /\ Proceed(p, "commit")
              /\ UNCHANGED <<dataVars, ready, slock>>

(* The condition of the collector's DELETE.                                *)
DueInclusive(proof, cut) == proof.expires_at <= cut  \* Bug
Due(proof, cut) == proof.expires_at < cut

(* What the statement leaves in the table.                                 *)
Written(p) ==
  LET t == job[p].task
  IN CASE job[p].kind = "save" -> [disk EXCEPT ![t] = job[p].proof]
       [] job[p].kind \in {"evict", "delete"} -> [disk EXCEPT ![t] = NoProof]
       [] OTHER -> [u \in Tasks |->
                      IF disk[u] # NoProof /\ Due(disk[u], job[p].cut)
                      THEN NoProof ELSE disk[u]]

Success(p) == CASE job[p].kind = "save" -> "saved"
                [] job[p].kind = "evict" -> "expired"
                [] job[p].kind = "delete" -> "deleted"
                [] OTHER -> "none"

Commit(p) == /\ pc[p] = "commit"
             /\ Goto(p, "close")
             /\ disk' = Written(p)
             /\ wlock' = Nobody
             /\ outcome' = [outcome EXCEPT ![p] = Success(p)]
             /\ UNCHANGED <<now, table, ready, slock, job, row, stopping, auxVars>>

(* What an exception of the statement becomes.                             *)
FailureSilent(p) == Success(p)  \* Bug: logged and not raised
Failure(p) == Error

Fails(p) == /\ Goto(p, "close")
            /\ outcome' = [outcome EXCEPT ![p] = Failure(p)]
            /\ UNCHANGED <<dataVars, lockVars, job, row, stopping, given, acked, calls>>

(* The wait for the write lock ends after timeout=30 seconds.              *)
Blocked(p) == pc[p] = "execute" /\ job[p].kind \in Writes /\ wlock # Nobody
LockTimeoutRetried(p) == Blocked(p) /\ UNCHANGED vars  \* Bug: tried again
LockTimeout(p) == Blocked(p) /\ Fails(p) /\ UNCHANGED faults

(* Any other error of the database, before or in the commit.               *)
StatementFails(p) == pc[p] \in {"execute", "commit"} /\ Fault /\ Fails(p)

(* finally: the connection is closed, which rolls back what is not         *)
(* committed, and the call returns or raises.                              *)
Close(p) == /\ pc[p] = "close"
            /\ Goto(p, Rest(p))
            /\ wlock' = Free(wlock, p)
            /\ acked' = IF outcome[p] = "saved"
                        THEN [acked EXCEPT ![job[p].task] = job[p].proof]
                        ELSE acked
            /\ UNCHANGED <<dataVars, ready, slock, job, row, outcome, stopping,
                           given, calls, faults>>

-----------------------------------------------------------------------------
(* A coroutine cancelled at an await leaves its with and finally blocks:   *)
(* its locks are released, and what was already handed to the connection's *)
(* thread, the schema or a commit, may still be done.                      *)
Abandon(p) == /\ slock' = Free(slock, p)
              /\ wlock' = Free(wlock, p)
              /\ disk' \in {disk} \cup (IF pc[p] = "commit" THEN {Written(p)} ELSE {})
              /\ table' \in {table, table \/ pc[p] = "ddl"}
              /\ outcome' = [outcome EXCEPT ![p] = "cancelled"]
              /\ UNCHANGED <<now, ready, job, row>>

Cancel(p) == /\ pc[p] \in Waits
             /\ Fault
             /\ Goto(p, "idle")
             /\ Abandon(p)
             /\ UNCHANGED <<stopping, given, acked, calls>>

(* stop() cancels the collector and waits until it has ended; a save() in  *)
(* between finds the task not done and starts no other.                    *)
Stop == /\ pc[GC] # "dead"
        /\ ~stopping
        /\ calls < MaxCalls
        /\ calls' = calls + 1
        /\ stopping' = TRUE
        /\ UNCHANGED <<dataVars, lockVars, pc, job, row, outcome, given, acked,
                       faults>>

CollectorEnds == /\ stopping
                 /\ stopping' = FALSE
                 /\ Goto(GC, "dead")
                 /\ Abandon(GC)
                 /\ UNCHANGED auxVars

(* The process is killed and started again: the file stays, with or        *)
(* without the transaction that was being committed.                       *)
Crash == /\ Fault
         /\ \/ UNCHANGED disk
            \/ \E p \in Procs : pc[p] = "commit" /\ disk' = Written(p)
         /\ ready' = FALSE
         /\ slock' = Nobody
         /\ wlock' = Nobody
         /\ pc' = [p \in Procs |-> IF p = GC THEN "dead" ELSE "idle"]
         /\ outcome' = [p \in Procs |-> "none"]
         /\ stopping' = FALSE
         /\ UNCHANGED <<now, table, job, row, given, acked, calls>>

Tick == /\ now < MaxTime
        /\ now' = now + 1
        /\ UNCHANGED <<disk, table, lockVars, callVars, auxVars>>

Terminated == /\ calls = MaxCalls
              /\ \A p \in Callers : pc[p] = "idle"
              /\ pc[GC] = "dead"
              /\ UNCHANGED vars

Step(p) == \/ CheckReady(p) \/ LockSchema(p) \/ CreateSchema(p) \/ OpenFails(p)
           \/ Connect(p) \/ Select(p) \/ SelectAll(p) \/ CheckRow(p)
           \/ Execute(p) \/ Commit(p) \/ LockTimeout(p) \/ StatementFails(p)
           \/ Close(p)

Next == \/ \E p \in Procs : Step(p)
        \/ \E p \in Callers : CallSave(p) \/ CallOther(p) \/ Cancel(p)
        \/ Wake \/ Stop \/ CollectorEnds
        \/ Crash \/ Tick \/ Terminated

(* The event loop and the threads of the connections run, the lock wait of *)
(* SQLite is bounded by its timeout, and the collector's sleep ends.       *)
Fairness == /\ \A p \in Procs : WF_vars(Step(p))
            /\ WF_vars(Wake)
            /\ WF_vars(CollectorEnds)

Spec == Init /\ [][Next]_vars /\ Fairness

-----------------------------------------------------------------------------
(* The schema is made by one coroutine at a time, only while it is not     *)
(* ready, and no statement reaches a database that has no table, whatever  *)
(* failed, was cancelled or restarted.                                     *)
SchemaOnce ==
  /\ \A p \in Procs : pc[p] = "ddl" <=> slock = p
  /\ slock # Nobody => ~ready
  /\ \A p \in Procs : pc[p] \in {"execute", "check", "commit"} => table

(* One transaction at a time, and none outlives its coroutine: the write   *)
(* lock is held by a coroutine that is about to commit or to close.        *)
OneWriter ==
  /\ \A p \in Procs : pc[p] = "commit" => wlock = p
  /\ wlock # Nobody => pc[wlock] \in {"commit", "close"}

(* What save() returned for is on disk, through crashes and the collector, *)
(* until it expires or the application deletes it.                         *)
AckedIsDurable ==
  \A t \in Tasks \ Deletable :
    acked[t] # NoProof /\ ~Expired(acked[t]) => disk[t] # NoProof

(* The rows keep the promise of a ProofStore: a row that was not asked to  *)
(* go is removed only when it has expired.                                 *)
Promise == INSTANCE ProofStore WITH store <- disk
KeepsPromise == Promise!StoreSpec

(* Every call returns or raises, whatever the others do.                   *)
CallsReturn == \A p \in Callers : pc[p] # "idle" ~> pc[p] = "idle"

(* While the collector lives an expired row does not stay.                 *)
ExpiredIsCollected ==
  \A t \in Tasks : disk[t] # NoProof /\ Expired(disk[t]) ~>
                     disk[t] = NoProof \/ ~Expired(disk[t]) \/ pc[GC] = "dead"
=============================================================================
