--------------------- MODULE OfflineVerificationProofs ----------------------
(* Any number of commits, dependencies and evaluations: a sketch whose     *)
(* time is UTC is accepted, and a proof hash tells what was committed.     *)
(* Any number of rows: what was saved in UTC is collected when it is due.  *)
EXTENDS RecordsMC, TLAPS

(* What is known of a sketch that was built, and of what became of it.     *)
WellFormed(s) ==
  \E task \in Tasks, content \in Contents, time \in AllTimes,
     list \in BoundedSeq(Dependencies(AllTimes), MaxDeps), old \in BOOLEAN :
    s = [task |-> task, content |-> content, dependencies |-> list,
         dependencies_hash |-> IF old THEN None ELSE DependenciesHash(list),
         timestamp |-> time]

(* The inductive invariant: sketches are well formed, what was sent is     *)
(* their proof hash, and the Exchange has compared it with its own.        *)
CommitInv(c) ==
  /\ state[c] \in {"new", "built", "sent", "catalogued", "refused"}
  /\ state[c] # "new" => WellFormed(sketch[c])
  /\ state[c] \notin {"new", "built"} => sent[c] = ProofHash(sketch[c])
  /\ state[c] = "catalogued" => /\ sent[c] = ExchangeProofHash(sketch[c])
                                /\ cataloged[c] \in Times(Instants, {0})
  /\ state[c] = "refused" => sent[c] # ExchangeProofHash(sketch[c])

IInv == /\ state \in [Commits -> {"new", "built", "sent", "catalogued", "refused"}]
        /\ sketch = [c \in Commits |-> sketch[c]]
        /\ sent = [c \in Commits |-> sent[c]]
        /\ cataloged = [c \in Commits |-> cataloged[c]]
        /\ \A c \in Commits : CommitInv(c)

LEMMA InitInv == Init => IInv
  BY DEF Init, IInv, CommitInv

(* Building a sketch changes its commit only, and builds it well.          *)
LEMMA BuildInv ==
  ASSUME IInv, NEW c \in Commits, NEW s \in Sketches(AllTimes), Build(c, s)
  PROVE  IInv'
  <1>1. /\ state[c] = "new"
        /\ state' = [state EXCEPT ![c] = "built"]
        /\ sketch' = [sketch EXCEPT ![c] = s]
        /\ UNCHANGED <<sent, cataloged>>
    BY DEF Build
  <1>2. WellFormed(sketch'[c])
    <2>1. sketch'[c] = s
      BY <1>1 DEF IInv
    <2>2. WellFormed(s)
      BY DEF WellFormed, Sketches
    <2> QED
      BY <2>1, <2>2
  <1>3. CommitInv(c)'
    BY <1>1, <1>2 DEF CommitInv, IInv
  <1>4. ASSUME NEW d \in Commits, d # c PROVE CommitInv(d)'
    <2>1. /\ state'[d] = state[d] /\ sketch'[d] = sketch[d]
          /\ sent'[d] = sent[d] /\ cataloged'[d] = cataloged[d]
      BY <1>1, <1>4 DEF IInv
    <2> QED
      BY <2>1 DEF CommitInv, IInv, ProofHash, ProofFields, ExchangeProofHash
  <1> QED
    BY <1>1, <1>3, <1>4 DEF IInv

LEMMA CreateCommitInv == ASSUME IInv, NEW c \in Commits, CreateCommit(c) PROVE IInv'
  <1>1. CommitInv(c)'
    BY DEF CreateCommit, CommitInv, IInv, ProofHash, ProofFields
  <1>2. ASSUME NEW d \in Commits, d # c PROVE CommitInv(d)'
    <2>1. /\ state'[d] = state[d] /\ sketch'[d] = sketch[d]
          /\ sent'[d] = sent[d] /\ cataloged'[d] = cataloged[d]
      BY <1>2 DEF IInv, CreateCommit
    <2> QED
      BY <2>1 DEF CommitInv, IInv, ProofHash, ProofFields, ExchangeProofHash
  <1> QED
    BY <1>1, <1>2 DEF IInv, CreateCommit

(* The Exchange catalogues what it can recompute, and refuses the rest.    *)
LEMMA ReceiveInv == ASSUME IInv, NEW c \in Commits, Receive(c) PROVE IInv'
  <1>1. /\ sketch' = sketch /\ sent' = sent
        /\ \A d \in Commits \ {c} : state'[d] = state[d] /\ cataloged'[d] = cataloged[d]
        /\ state' \in [Commits -> {"new", "built", "sent", "catalogued", "refused"}]
        /\ cataloged' = [d \in Commits |-> cataloged'[d]]
    BY DEF Receive, IInv
  <1>2. \/ /\ state'[c] = "catalogued"
           /\ sent[c] = ExchangeProofHash(sketch[c])
           /\ \E t \in Instants : cataloged'[c] = [instant |-> t, zone |-> 0]
        \/ /\ state'[c] = "refused"
           /\ sent[c] # ExchangeProofHash(sketch[c])
    BY DEF Receive, IInv
  <1>3. WellFormed(sketch[c]) /\ sent[c] = ProofHash(sketch[c])
    BY DEF Receive, IInv, CommitInv
  <1>4. CommitInv(c)'
    BY <1>1, <1>2, <1>3 DEF CommitInv, Times, AllTimes, ProofHash, ProofFields, ExchangeProofHash
  <1>5. ASSUME NEW d \in Commits, d # c PROVE CommitInv(d)'
    BY <1>1, <1>5 DEF CommitInv, IInv, ProofHash, ProofFields, ExchangeProofHash
  <1> QED
    BY <1>1, <1>4, <1>5 DEF IInv

LEMMA NextInv == IInv /\ [Next]_vars => IInv'
  <1> SUFFICES ASSUME IInv, [Next]_vars PROVE IInv'
    OBVIOUS
  <1>1. ASSUME UNCHANGED vars PROVE IInv'
    BY <1>1 DEF vars, IInv, CommitInv, ProofHash, ProofFields, ExchangeProofHash
  <1> QED
    BY <1>1, BuildInv, CreateCommitInv, ReceiveInv DEF Next, Terminated

LEMMA Invariance == Spec => []IInv
  BY InitInv, NextInv, PTL DEF Spec

-----------------------------------------------------------------------------
(* The two canonical times agree exactly in UTC.                           *)
LEMMA TimesAgreeInUtc ==
  ASSUME NEW time \in AllTimes
  PROVE  ProofTime(time) = Rfc3339Nano(time) <=> time.zone = 0
  <1>1. time.instant \in Int /\ time.zone \in Int
    <2>1. time.instant \in Instants /\ time.zone \in Zones
      BY DEF Times, AllTimes
    <2>2. Instants \subseteq Nat
      BY OfflineAssumption, Zenon
    <2>3. Zones \subseteq Int
      BY OfflineAssumption, Zenon
    <2>4. time.instant \in Nat
      BY <2>1, <2>2, Zenon
    <2>5. time.zone \in Int
      BY <2>1, <2>3, Zenon
    <2> QED
      BY <2>4, <2>5
  <1> QED
    BY <1>1 DEF ProofTime, Rfc3339Nano, Text

(* A sketch with a UTC timestamp is never refused.                         *)
THEOREM UtcAccepted == Spec => []UtcIsAccepted
  <1>1. ASSUME IInv PROVE UtcIsAccepted
    <2> SUFFICES ASSUME NEW c \in Commits, state[c] = "refused",
                        sketch[c].timestamp.zone = 0
                 PROVE  FALSE
      BY DEF UtcIsAccepted
    <2>1. WellFormed(sketch[c]) /\ ProofHash(sketch[c]) # ExchangeProofHash(sketch[c])
      BY <1>1 DEF IInv, CommitInv
    <2>2. sketch[c].timestamp \in AllTimes
      BY <2>1 DEF WellFormed
    <2>3. ProofTime(sketch[c].timestamp) = Rfc3339Nano(sketch[c].timestamp)
      BY <2>2, TimesAgreeInUtc
    <2> QED
      BY <2>1, <2>3 DEF ProofHash, ProofFields, ExchangeProofHash
  <1> QED
    BY <1>1, Invariance, PTL

-----------------------------------------------------------------------------
(* The items of a bounded sequence are of its set.                         *)
LEMMA ItemsOfSequence ==
  ASSUME NEW S, NEW n, NEW list \in BoundedSeq(S, n), NEW i \in DOMAIN list
  PROVE  list[i] \in S
  <1>1. PICK m \in 0..n : list \in [1..m -> S]
    BY Zenon DEF BoundedSeq, SeqOf
  <1> QED
    BY <1>1

(* Two evaluations with the same canonical form say the same: a member of  *)
(* one object is the member of that name of the other.                     *)
LEMMA EvalInjective ==
  ASSUME NEW e \in Evaluations(AllTimes), NEW f \in Evaluations(AllTimes),
         EvalCanonical(e) = EvalCanonical(f)
  PROVE  SameEval(e, f)
  <1> DEFINE T(x) == Rfc3339Nano(x.evaluated_at)
  <1>1. ASSUME NEW x, NEW k, NEW v
        PROVE  <<k, v>> \in EvalCanonical(x) <=>
                 \/ k = "evaluated_at" /\ v = T(x)
                 \/ x.policy # None /\ k = "evaluation_policy" /\ v = x.policy
    BY DEF EvalCanonical, EvalMembers
  <1> HIDE DEF T
  <1>2. T(e) = T(f)
    <2>1. <<"evaluated_at", T(e)>> \in EvalCanonical(f)
      BY <1>1
    <2> QED
      BY <1>1, <2>1
  <1>3. e.evaluated_at.instant = f.evaluated_at.instant
    BY <1>2 DEF T, Rfc3339Nano, Text
  <1>4. e.policy = f.policy
    <2>1. ASSUME e.policy # None PROVE e.policy = f.policy
      <3>1. <<"evaluation_policy", e.policy>> \in EvalCanonical(f)
        BY <1>1, <2>1
      <3> QED
        BY <1>1, <3>1
    <2>2. ASSUME f.policy # None PROVE e.policy = f.policy
      <3>1. <<"evaluation_policy", f.policy>> \in EvalCanonical(e)
        BY <1>1, <2>2
      <3> QED
        BY <1>1, <3>1
    <2> QED
      BY <2>1, <2>2
  <1> QED
    BY <1>3, <1>4 DEF SameEval

(* The same of dependencies, whose evaluations may be left out.            *)
LEMMA DepInjective ==
  ASSUME NEW d \in Dependencies(AllTimes), NEW e \in Dependencies(AllTimes),
         DepCanonical(d) = DepCanonical(e)
  PROVE  SameDep(d, e)
  <1> DEFINE D == Mapped(EvalCanonical, d.evaluations)
             E == Mapped(EvalCanonical, e.evaluations)
  <1>1. DepMembers(d, D) = DepMembers(e, E)
    BY DEF DepCanonical
  <1> HIDE DEF D, E
  <1>0. ASSUME NEW x, NEW X, NEW k, NEW v
        PROVE  <<k, v>> \in DepMembers(x, X) <=>
                 \/ k = "task_id" /\ v = x.task
                 \/ x.evaluations # <<>> /\ k = "evaluations" /\ v = X
    BY DEF DepMembers
  <1>2. d.task = e.task
    <2>1. <<"task_id", d.task>> \in DepMembers(e, E)
      BY <1>0, <1>1
    <2> QED
      BY <1>0, <2>1
  <1>3. ASSUME d.evaluations # <<>> \/ e.evaluations # <<>>
        PROVE  d.evaluations # <<>> /\ e.evaluations # <<>> /\ D = E
    <2>1. ASSUME d.evaluations # <<>> PROVE e.evaluations # <<>> /\ D = E
      <3>1. <<"evaluations", D>> \in DepMembers(e, E)
        BY <1>0, <1>1, <2>1
      <3> QED
        BY <1>0, <3>1
    <2>2. ASSUME e.evaluations # <<>> PROVE d.evaluations # <<>> /\ D = E
      <3>1. <<"evaluations", E>> \in DepMembers(d, D)
        BY <1>0, <1>1, <2>2
      <3> QED
        BY <1>0, <3>1
    <2> QED
      BY <1>3, <2>1, <2>2
  <1>4. CASE d.evaluations = <<>>
    BY <1>2, <1>3, <1>4 DEF SameDep, SameEval
  <1>5. CASE d.evaluations # <<>>
    <2>1. D = E
      BY <1>3, <1>5
    <2>2. DOMAIN d.evaluations = DOMAIN e.evaluations
      BY <2>1 DEF D, E, Mapped
    <2>3. ASSUME NEW i \in DOMAIN d.evaluations
          PROVE  SameEval(d.evaluations[i], e.evaluations[i])
      <3>1. EvalCanonical(d.evaluations[i]) = EvalCanonical(e.evaluations[i])
        BY <2>1, <2>2 DEF D, E, Mapped
      <3>2. d.evaluations[i] \in Evaluations(AllTimes) /\ e.evaluations[i] \in Evaluations(AllTimes)
        <4>1. /\ d.evaluations \in BoundedSeq(Evaluations(AllTimes), MaxEvals)
              /\ e.evaluations \in BoundedSeq(Evaluations(AllTimes), MaxEvals)
          BY DEF Dependencies
        <4> QED
          BY <2>2, <4>1, ItemsOfSequence
      <3> QED
        BY <3>1, <3>2, EvalInjective
    <2> QED
      BY <1>2, <2>2, <2>3 DEF SameDep
  <1> QED
    BY <1>4, <1>5

(* Equal dependency hashes: the lists say the same, item by item.          *)
LEMMA ListInjective ==
  ASSUME NEW k \in BoundedSeq(Dependencies(AllTimes), MaxDeps),
         NEW l \in BoundedSeq(Dependencies(AllTimes), MaxDeps),
         DependenciesHash(k) = DependenciesHash(l)
  PROVE  SameList(k, l)
  <1>1. Mapped(DepCanonical, k) = Mapped(DepCanonical, l)
    BY DEF DependenciesHash, HashOfJson, Digest, JsonText
  <1>2. DOMAIN k = DOMAIN l
    BY <1>1 DEF Mapped
  <1>3. ASSUME NEW i \in DOMAIN k PROVE SameDep(k[i], l[i])
    <2>1. DepCanonical(k[i]) = DepCanonical(l[i])
      BY <1>1, <1>2 DEF Mapped
    <2>2. k[i] \in Dependencies(AllTimes) /\ l[i] \in Dependencies(AllTimes)
      BY <1>2, ItemsOfSequence
    <2> QED
      BY <2>1, <2>2, DepInjective
  <1> QED
    BY <1>2, <1>3 DEF SameList

(* The proof hash of a catalogued commit tells what was committed.         *)
THEOREM HashTells == Spec => []HashIdentifies
  <1>1. ASSUME IInv PROVE HashIdentifies
    <2> SUFFICES ASSUME NEW c \in Catalogued, NEW d \in Catalogued, sent[c] = sent[d]
                 PROVE  /\ sketch[c].task = sketch[d].task
                        /\ sketch[c].content = sketch[d].content
                        /\ sketch[c].timestamp.instant = sketch[d].timestamp.instant
                        /\ \/ /\ sketch[c].dependencies_hash = None
                              /\ sketch[d].dependencies_hash = None
                           \/ SameList(sketch[c].dependencies, sketch[d].dependencies)
      BY DEF HashIdentifies
    <2> DEFINE s == sketch[c]
               r == sketch[d]
    <2>1. WellFormed(s) /\ WellFormed(r) /\ ExchangeProofHash(s) = ExchangeProofHash(r)
      BY <1>1 DEF IInv, CommitInv, Catalogued
    <2> HIDE DEF s, r
    <2>2. /\ s.task = r.task /\ s.content = r.content
          /\ Rfc3339Nano(s.timestamp) = Rfc3339Nano(r.timestamp)
          /\ s.dependencies_hash = None <=> r.dependencies_hash = None
          /\ s.dependencies_hash # None => s.dependencies_hash = r.dependencies_hash
      BY <2>1 DEF ExchangeProofHash, Digest
    <2>3. s.timestamp.instant = r.timestamp.instant
      BY <2>2 DEF Rfc3339Nano, Text
    <2>4. ASSUME s.dependencies_hash # None PROVE SameList(s.dependencies, r.dependencies)
      <3>1. /\ s.dependencies \in BoundedSeq(Dependencies(AllTimes), MaxDeps)
            /\ s.dependencies_hash = DependenciesHash(s.dependencies)
        BY <2>1, <2>4 DEF WellFormed
      <3>2. /\ r.dependencies \in BoundedSeq(Dependencies(AllTimes), MaxDeps)
            /\ r.dependencies_hash = DependenciesHash(r.dependencies)
        BY <2>1, <2>2, <2>4 DEF WellFormed
      <3> QED
        BY <2>2, <2>4, <3>1, <3>2, ListInjective
    <2> QED
      BY <2>2, <2>3, <2>4 DEF s, r
  <1> QED
    BY <1>1, Invariance, PTL

-----------------------------------------------------------------------------
(* Bringing the times of a dependency to UTC leaves its canonical form.    *)
LEMMA UtcKeepsTime ==
  ASSUME NEW time \in AllTimes
  PROVE  /\ Rfc3339Nano(Utc(time)) = Rfc3339Nano(time)
         /\ ProofTime(Utc(time)) = Rfc3339Nano(time)
  <1>1. Instants \subseteq Nat
    BY OfflineAssumption, Zenon
  <1>2. time.instant \in Instants
    BY DEF Times, AllTimes
  <1>3. time.instant \in Nat
    BY <1>1, <1>2, Zenon
  <1>4. Utc(time).instant = time.instant /\ Utc(time).zone = 0
    BY DEF Utc, Times, AllTimes
  <1>5. Utc(time).instant + Utc(time).zone = time.instant
    BY <1>3, <1>4
  <1> QED
    BY <1>4, <1>5 DEF Rfc3339Nano, ProofTime

LEMMA UtcKeepsEval ==
  ASSUME NEW e \in Evaluations(AllTimes)
  PROVE  EvalCanonical(UtcEval(e)) = EvalCanonical(e)
  <1>1. UtcEval(e).policy = e.policy /\ UtcEval(e).evaluated_at = Utc(e.evaluated_at)
    BY DEF UtcEval, Evaluations
  <1>2. e.evaluated_at \in AllTimes
    BY DEF Evaluations
  <1> QED
    BY <1>1, <1>2, UtcKeepsTime DEF EvalCanonical, EvalMembers

LEMMA UtcKeepsDep ==
  ASSUME NEW d \in Dependencies(AllTimes)
  PROVE  DepCanonical(UtcDep(d)) = DepCanonical(d)
  <1>1. /\ UtcDep(d).task = d.task
        /\ UtcDep(d).evaluations = Mapped(UtcEval, d.evaluations)
    BY DEF UtcDep, Dependencies
  <1>2. d.evaluations \in BoundedSeq(Evaluations(AllTimes), MaxEvals)
    BY DEF Dependencies
  <1>3. Mapped(EvalCanonical, UtcDep(d).evaluations) = Mapped(EvalCanonical, d.evaluations)
    <2>1. ASSUME NEW i \in DOMAIN d.evaluations
          PROVE  EvalCanonical(UtcEval(d.evaluations[i])) = EvalCanonical(d.evaluations[i])
      BY <1>2, ItemsOfSequence, UtcKeepsEval
    <2> QED
      BY <1>1, <2>1 DEF Mapped
  <1>4. UtcDep(d).evaluations = <<>> <=> d.evaluations = <<>>
    <2>1. PICK m \in 0..MaxEvals : d.evaluations \in [1..m -> Evaluations(AllTimes)]
      BY <1>2, Zenon DEF BoundedSeq, SeqOf
    <2>2. DOMAIN UtcDep(d).evaluations = 1..m /\ DOMAIN d.evaluations = 1..m
      BY <1>1, <2>1 DEF Mapped
    <2>3. /\ UtcDep(d).evaluations \in Seq({UtcEval(e) : e \in Evaluations(AllTimes)})
          /\ d.evaluations \in Seq(Evaluations(AllTimes))
      BY <1>1, <2>1 DEF Mapped
    <2> QED
      BY <2>1, <2>2, <2>3
  <1> QED
    BY <1>1, <1>3, <1>4 DEF DepCanonical, DepMembers

(* Both hashes of a catalogued commit can be recomputed from its record.   *)
THEOREM HashesReproduce == Spec => []HashesAreReproducible
  <1>1. ASSUME IInv PROVE HashesAreReproducible
    <2> SUFFICES ASSUME NEW c \in Catalogued, NEW record \in Fetched(c)
                 PROVE  /\ ProofHash(record) = ExchangeProofHash(sketch[c])
                        /\ record.dependencies_hash # None =>
                             DependenciesHash(record.dependencies) = record.dependencies_hash
      BY DEF HashesAreReproducible
    <2> DEFINE s == sketch[c]
    <2>1. WellFormed(s) /\ ProofHash(s) = ExchangeProofHash(s)
      BY <1>1 DEF IInv, CommitInv, Catalogued
    <2>2. /\ s.timestamp \in AllTimes
          /\ s.dependencies \in BoundedSeq(Dependencies(AllTimes), MaxDeps)
          /\ s.dependencies_hash # None => s.dependencies_hash = DependenciesHash(s.dependencies)
      BY <2>1 DEF WellFormed
    <2>3. CASE record = s
      BY <2>1, <2>2, <2>3
    <2>4. ASSUME record = [s EXCEPT !.timestamp = Utc(@), !.dependencies = Mapped(UtcDep, @)]
          PROVE  /\ ProofHash(record) = ExchangeProofHash(s)
                 /\ record.dependencies_hash # None =>
                      DependenciesHash(record.dependencies) = record.dependencies_hash
      <3>1. /\ record.task = s.task /\ record.content = s.content
            /\ record.dependencies_hash = s.dependencies_hash
            /\ record.timestamp = Utc(s.timestamp)
            /\ record.dependencies = Mapped(UtcDep, s.dependencies)
        BY <2>1, <2>4 DEF WellFormed
      <3>2. ProofTime(record.timestamp) = Rfc3339Nano(s.timestamp)
        BY <2>2, <3>1, UtcKeepsTime
      <3>3. Mapped(DepCanonical, record.dependencies) = Mapped(DepCanonical, s.dependencies)
        <4>1. ASSUME NEW i \in DOMAIN s.dependencies
              PROVE  DepCanonical(UtcDep(s.dependencies[i])) = DepCanonical(s.dependencies[i])
          BY <2>2, ItemsOfSequence, UtcKeepsDep
        <4> QED
          BY <3>1, <4>1 DEF Mapped
      <3> QED
        BY <2>2, <3>1, <3>2, <3>3 DEF ProofHash, ProofFields, ExchangeProofHash, DependenciesHash
    <2> QED
      BY <2>3, <2>4 DEF Fetched
  <1> QED
    BY <1>1, Invariance, PTL

-----------------------------------------------------------------------------
(* Rows are written with an instant that clock and TTL allow.              *)
LEMMA ExpiryTypeInv == ExpirySpec => []ExpiryTypeOK
<1>1. ExpiryInit => ExpiryTypeOK
  BY ExpiryAssumption DEF ExpiryInit, ExpiryTypeOK
<1>2. ExpiryTypeOK /\ [ExpiryNext]_expiryVars => ExpiryTypeOK'
  <2> SUFFICES ASSUME ExpiryTypeOK, [ExpiryNext]_expiryVars PROVE ExpiryTypeOK'
    OBVIOUS
  <2> USE DEF ExpiryTypeOK
  <2>1. ASSUME NEW t \in Rows, NEW zone \in Offsets, Save(t, zone) PROVE ExpiryTypeOK'
    <3>1. now + TTL \in 0..MaxTime + TTL
      BY ExpiryAssumption
    <3>2. Expiry(zone) \in Times(0..MaxTime + TTL, Offsets)
      BY <3>1 DEF Expiry, Times
    <3> QED
      BY <2>1, <3>2 DEF Save
  <2>2. ASSUME NEW t \in Rows, Get(t) PROVE ExpiryTypeOK'
    BY <2>2 DEF Get
  <2>3. CASE Collect
    BY <2>3 DEF Collect
  <2>4. CASE Tick
    BY <2>4, ExpiryAssumption DEF Tick
  <2>5. CASE UNCHANGED expiryVars
    BY <2>5 DEF expiryVars
  <2> QED
    BY <2>1, <2>2, <2>3, <2>4, <2>5 DEF ExpiryNext
<1> QED
  BY <1>1, <1>2, PTL DEF ExpirySpec

(* Of the rows whose expires_at is UTC SQL deletes those get() refuses and *)
(* names none of them, whatever zones other rows have.                     *)
THEOREM SqlComparesTimes == ExpirySpec => []TextOrderIsTimeOrder
<1>1. ExpiryTypeOK => TextOrderIsTimeOrder
  <2> SUFFICES ASSUME ExpiryTypeOK, NEW t \in Rows, Held(t), row[t].zone = 0
               PROVE  (Due(t) <=> Refused(t)) /\ (t \in Listed => ~Refused(t))
    BY DEF TextOrderIsTimeOrder
  <2>1. row[t].instant \in Int /\ now \in Int
    BY ExpiryAssumption DEF ExpiryTypeOK, Held, Times
  <2>2. /\ TextBefore(row[t], Now) <=> row[t].instant < now
        /\ TextBefore(Now, row[t]) <=> now < row[t].instant
    BY <2>1 DEF TextBefore, EndingBefore, Now
  <2> QED
    BY <2>1, <2>2 DEF Due, Refused, Listed
<1> QED
  BY <1>1, ExpiryTypeInv, PTL

-----------------------------------------------------------------------------
(* The record that the run explores: in each of its parts the commits and  *)
(* the table behave as they do alone, so what is proved of them holds.     *)
LEMMA LongerSequences ==
  ASSUME NEW S, NEW T, S \subseteq T, NEW n
  PROVE  BoundedSeq(S, n) \subseteq BoundedSeq(T, n)
<1> SUFFICES ASSUME NEW s \in BoundedSeq(S, n) PROVE s \in BoundedSeq(T, n)
  OBVIOUS
<1>1. PICK m \in 0..n : s \in [1..m -> S]
  BY DEF BoundedSeq, SeqOf
<1>2. s \in [1..m -> T]
  BY <1>1
<1> QED
  BY <1>2 DEF BoundedSeq, SeqOf

LEMMA MoreTimesMoreSketches ==
  ASSUME NEW S, NEW T, S \subseteq T
  PROVE  Sketches(S) \subseteq Sketches(T)
<1>1. BoundedSeq(Evaluations(S), MaxEvals) \subseteq BoundedSeq(Evaluations(T), MaxEvals)
  <2>1. Evaluations(S) \subseteq Evaluations(T)
    BY DEF Evaluations
  <2> QED
    BY <2>1, LongerSequences
<1>2. Dependencies(S) \subseteq Dependencies(T)
  BY <1>1 DEF Dependencies
<1>3. BoundedSeq(Dependencies(S), MaxDeps) \subseteq BoundedSeq(Dependencies(T), MaxDeps)
  BY <1>2, LongerSequences
<1> SUFFICES ASSUME NEW s \in Sketches(S) PROVE s \in Sketches(T)
  OBVIOUS
<1>4. PICK task \in Tasks, content \in Contents, time \in S,
           list \in BoundedSeq(Dependencies(S), MaxDeps), old \in BOOLEAN :
        s = [task |-> task, content |-> content, dependencies |-> list,
             dependencies_hash |-> IF old THEN None ELSE DependenciesHash(list),
             timestamp |-> time]
  BY DEF Sketches
<1>5. time \in T /\ list \in BoundedSeq(Dependencies(T), MaxDeps)
  BY <1>3
<1> QED
  BY <1>4, <1>5 DEF Sketches

LEMMA SimpleSketchesAreSketches ==
  ASSUME {100, 110} \subseteq Instants
  PROVE  SimpleSketches \subseteq Sketches(AllTimes)
<1>1. Times({100, 110}, {0}) \subseteq Times(Instants, Zones)
  BY OfflineAssumption DEF Times
<1> QED
  BY <1>1, MoreTimesMoreSketches DEF SimpleSketches, SimpleTimes, AllTimes

(* The three parts of the run are behaviours of the two modules.           *)
THEOREM AllParts ==
  ASSUME {100, 110} \subseteq Instants
  PROVE  RecordsSpec => Spec /\ ExpirySpec
<1>1. RecordsInit => Init /\ ExpiryInit
  BY DEF RecordsInit
<1>2. ASSUME [RecordsNext]_<<part, vars, expiryVars>>
      PROVE  [Next]_vars /\ [ExpiryNext]_expiryVars
  <2>1. CASE UNCHANGED <<part, vars, expiryVars>>
    BY <2>1
  <2>2. ASSUME NEW c \in Commits, NEW s \in AllSketches, Build(c, s) PROVE Next
    BY <2>2 DEF Next, AllSketches
  <2>3. ASSUME NEW c \in Commits, NEW s \in SimpleSketches, Build(c, s) PROVE Next
    BY <2>3, SimpleSketchesAreSketches DEF Next
  <2>4. ASSUME NEW c \in Commits, CreateCommit(c) \/ Receive(c) PROVE Next
    BY <2>4 DEF Next
  <2>5. Terminated => Next
    BY DEF Next
  <2> QED
    BY <1>2, <2>1, <2>2, <2>3, <2>4, <2>5 DEF RecordsNext
<1> QED
  BY <1>1, <1>2, PTL DEF RecordsSpec, Spec, ExpirySpec

(* Commits keep their types: a sketch its task and its time, and only what *)
(* the Exchange has catalogued a time of cataloguing, in UTC.              *)
LEMMA CommitsTyped == Spec => []TypeOK
<1>1. ASSUME IInv PROVE TypeOK
  <2>1. ASSUME NEW c \in Commits, state[c] # "new"
        PROVE  sketch[c].task \in Tasks /\ sketch[c].timestamp \in Times(Instants, Zones)
    BY <1>1, <2>1 DEF IInv, CommitInv, WellFormed, AllTimes
  <2>2. ASSUME NEW c \in Commits, state[c] \notin {"new", "built"}
        PROVE  sent[c][1] = "digest"
    BY <1>1, <2>2 DEF IInv, CommitInv, ProofHash, Digest
  <2>3. \A c \in Catalogued : cataloged[c] \in Times(Instants, {0})
    BY <1>1 DEF IInv, CommitInv, Catalogued
  <2> QED
    BY <1>1, <2>1, <2>2, <2>3 DEF IInv, TypeOK
<1> QED
  BY <1>1, Invariance, PTL

(* Every variable of the commits and of the table has its type.            *)
THEOREM RecordsTyped ==
  ASSUME {100, 110} \subseteq Instants
  PROVE  RecordsSpec => []RecordsTypeOK
<1>1. TypeOK /\ ExpiryTypeOK => RecordsTypeOK
  BY DEF RecordsTypeOK
<1> QED
  BY <1>1, AllParts, CommitsTyped, ExpiryTypeInv, PTL

-----------------------------------------------------------------------------
(* verify_signature never accepts a commit: the Exchange gives its time of *)
(* cataloguing in UTC and signs a Z, and isoformat() writes an offset.     *)
THEOREM NothingVerifies ==
  Spec => [](\A c \in Catalogued, class \in {"Commit", "CommitResponse"} :
               \A record \in Fetched(c), key \in {None, "key"} :
                 VerifySignature(c, record, class, key) # "True")
<1>1. ASSUME NEW c \in Commits, NEW record, NEW key, NEW class \in {"Commit", "CommitResponse"}
      PROVE  VerifySignature(c, record, class, key) # "True"
  <2>1. <<"offset", cataloged[c].zone>> # <<"Z">>
    OBVIOUS
  <2>2. IsoFormat(cataloged[c]) # Rfc3339Nano(cataloged[c])
    BY <2>1, Zenon DEF IsoFormat, Rfc3339Nano, Text
  <2>3. <<c, ProofHash(record), IsoFormat(cataloged[c])>> # SignedMessage(c)
    BY <2>2 DEF SignedMessage
  <2> QED
    BY <2>3 DEF VerifySignature
<1>2. \A c \in Catalogued, class \in {"Commit", "CommitResponse"} :
        \A record \in Fetched(c), key \in {None, "key"} :
          VerifySignature(c, record, class, key) # "True"
  BY <1>1 DEF Catalogued
<1> QED
  BY <1>2, PTL
=============================================================================
