------------------------- MODULE RegistrationProofs -------------------------
(* The session's identity and what is committed in its name, for any       *)
(* number of names, registrations, tasks and challenges.                   *)
EXTENDS Registration, TLAPS

(* A name is cached together with its authoritative address, and only once *)
(* the Exchange has accepted it.                                           *)
CacheInv == /\ \A r \in Registrations : post[r] = "created" => declared[r] \in received
            /\ CacheIsTrue
            /\ \A n \in Known : uris[n] = Authoritative(n)
            /\ adapter # None => adapter.uri.system = adapter.name /\ adapter.name \in Known

(* What a task has built and posted so far agrees.                         *)
Agrees(w) ==
  /\ work[w] = "idle" => proof[w] = None
  /\ work[w] \in {"idle", "saving"} => sketch[w] = None
  /\ work[w] = "saving" => WorkKind[w] = "context" /\ proof[w] # None
  /\ proof[w] # None => proof[w].uri.system = proof[w].name /\ proof[w].name \in Known
  /\ proof[w] # None /\ sketch[w] # None => sketch[w].name = proof[w].name
  /\ WorkKind[w] # "direct" /\ sketch[w] # None =>
       sketch[w].uri = Authoritative(sketch[w].name)

(* The identity a challenge was begun with is still the identity.          *)
Steady(c) ==
  /\ challenge[c] = "idle" => assessor[c] = None
  /\ challenge[c] = "asking" => /\ registered # <<>>
                                /\ challenger[c] = Identity
                                /\ assessor[c] = None
  /\ assessor[c] # None => assessor[c] = challenger[c]

RegistrationInv == /\ RegistrationTypeOK
                   /\ CacheInv
                   /\ \A w \in Works : Agrees(w)
                   /\ \A c \in Challenges : Steady(c)

-----------------------------------------------------------------------------
(* Remembering a name adds it and nothing else, and the first name of a    *)
(* dictionary stays the first.                                             *)
LEMMA RememberFacts ==
  ASSUME RegistrationTypeOK, NEW n \in Names, registered' = Remember(n)
  PROVE  /\ registered' \in Seq(Names)
         /\ \A i, j \in DOMAIN registered' : registered'[i] = registered'[j] => i = j
         /\ Known' = Known \cup {n}
         /\ registered # <<>> => registered' # <<>> /\ Head(registered') = Head(registered)
<1>1. CASE n \in Known
  BY <1>1 DEF RegistrationTypeOK, Remember, Known
<1>2. CASE n \notin Known
  <2>1. registered \in Seq(Names) /\ registered' = Append(registered, n)
    BY <1>2 DEF RegistrationTypeOK, Remember
  <2>2. /\ DOMAIN registered' = 1..(Len(registered) + 1)
        /\ DOMAIN registered = 1..Len(registered)
        /\ Len(registered) \in Nat
        /\ registered'[Len(registered) + 1] = n
        /\ \A i \in 1..Len(registered) : registered'[i] = registered[i]
    BY <2>1
  <2>3. Known' = Known \cup {n}
    BY <2>2 DEF Known
  <2>4. ASSUME NEW i \in DOMAIN registered', NEW j \in DOMAIN registered',
               registered'[i] = registered'[j]
        PROVE  i = j
    <3>1. \A k \in 1..Len(registered) : registered[k] # n
      BY <1>2, <2>2 DEF Known
    <3>2. \A k, l \in 1..Len(registered) : registered[k] = registered[l] => k = l
      BY <2>2 DEF RegistrationTypeOK
    <3> QED
      BY <2>2, <2>4, <3>1, <3>2
  <2>5. registered # <<>> => registered' # <<>> /\ Head(registered') = Head(registered)
    BY <2>1
  <2> QED
    BY <2>1, <2>3, <2>4, <2>5
<1> QED
  BY <1>1, <1>2

LEMMA IdentityFacts ==
  ASSUME RegistrationTypeOK, registered # <<>>
  PROVE  Identity \in Names /\ Identity \in Known
<1>1. /\ registered \in Seq(Names) /\ 1 \in DOMAIN registered
      /\ Head(registered) = registered[1] /\ registered[1] \in Names
  BY DEF RegistrationTypeOK
<1> QED
  BY <1>1 DEF Identity, Known

LEMMA AnswerFacts ==
  ASSUME NEW n \in Names
  PROVE  /\ [name |-> n, uri |-> Constructed(n)] \in Answers
         /\ [name |-> n, uri |-> Authoritative(n)] \in Answers
         /\ Constructed(n).system = n /\ Authoritative(n).system = n
         /\ Authoritative(n) # None
BY NoneAssumption DEF Answers, Uris, Constructed, Authoritative

(* create_commit names the system it is given; an address that the session *)
(* has is the one it uses.                                                 *)
LEMMA SketchFacts ==
  ASSUME RegistrationTypeOK, NEW n \in Names
  PROVE  /\ SketchOf(n) \in Answers
         /\ SketchOf(n).name = n
         /\ uris[n] = Authoritative(n) => SketchOf(n).uri = Authoritative(n)
<1>1. uris[n] \in Uris \cup {None}
  BY DEF RegistrationTypeOK
<1>2. Constructed(n) \in Uris
  BY DEF Uris
<1> QED
  BY <1>1, <1>2, AnswerFacts DEF SketchOf, Answers

LEMMA NameFacts ==
  ASSUME RegistrationTypeOK, NEW r \in Registrations
  PROVE  NameOf(r) \in Names /\ declared[r] \in Declarations /\ NameOf(r) = declared[r].name
BY DEF RegistrationTypeOK, NameOf, Declarations

-----------------------------------------------------------------------------
LEMMA InitTypes == RegistrationInit => RegistrationTypeOK
BY DEF RegistrationInit, RegistrationTypeOK, Ids

LEMMA StepTypes ==
  ASSUME RegistrationInv, [RegistrationNext]_registrationVars
  PROVE  RegistrationTypeOK'
<1> RegistrationTypeOK
  BY DEF RegistrationInv
<1> USE DEF RegistrationTypeOK
<1>1. ASSUME NEW r \in Registrations, Register(r) PROVE RegistrationTypeOK'
  <2>1. [name |-> NameOf(r), uri |-> Constructed(NameOf(r))] \in Answers
    BY NameFacts, AnswerFacts
  <2> QED
    BY <1>1, <2>1 DEF Register, AnswerFromCache, Returns, sessionVars, workVars, challengeVars
<1>2. ASSUME NEW r \in Registrations, RegisterArrives(r) PROVE RegistrationTypeOK'
  BY <1>2 DEF RegisterArrives, sessionVars, workVars, challengeVars
<1>3. ASSUME NEW r \in Registrations, RegisterReply(r) PROVE RegistrationTypeOK'
  <2>1. [name |-> NameOf(r), uri |-> Authoritative(NameOf(r))] \in Answers
    BY NameFacts, AnswerFacts
  <2>2. Authoritative(NameOf(r)) \in Uris
    BY NameFacts DEF Uris
  <2>3. /\ registered' \in Seq(Names)
        /\ \A i, j \in DOMAIN registered' : registered'[i] = registered'[j] => i = j
    BY <1>3, NameFacts, RememberFacts DEF RegisterReply
  <2> QED
    BY <1>3, <2>1, <2>2, <2>3 DEF RegisterReply, Returns, workVars, challengeVars
<1>4. ASSUME NEW r \in Registrations, RegisterFails(r) PROVE RegistrationTypeOK'
  BY <1>4 DEF RegisterFails, sessionVars, workVars, challengeVars
<1>5. ASSUME NEW w \in Works, BuildProof(w) PROVE RegistrationTypeOK'
  <2>1. registered # <<>> => [name |-> Identity, uri |-> Constructed(Identity)] \in Answers
    BY IdentityFacts, AnswerFacts
  <2> QED
    BY <1>5, <2>1 DEF BuildProof, WorkGoes, sessionVars, callVars, challengeVars
<1>6. ASSUME NEW w \in Works, PostSketch(w) PROVE RegistrationTypeOK'
  <2>1. proof[w] \in Answers
    BY <1>6 DEF RegistrationInv, Agrees, PostSketch
  <2>2. Committer(w) \in Names
    BY <2>1 DEF Committer, Answers
  <2>3. SketchOf(Committer(w)) \in Answers
    BY <2>2, SketchFacts
  <2> QED
    BY <1>6, <2>3 DEF PostSketch, WorkGoes, sessionVars, callVars, challengeVars
<1>7. ASSUME NEW w \in Works, AdapterCompletes(w) PROVE RegistrationTypeOK'
  <2>1. adapter # None => adapter \in Answers /\ SketchOf(adapter.name) \in Answers
    BY SketchFacts DEF Answers
  <2> QED
    BY <1>7, <2>1 DEF AdapterCompletes, WorkGoes, sessionVars, callVars, challengeVars
<1>8. ASSUME NEW w \in Works, CommitDirectly(w) PROVE RegistrationTypeOK'
  <2>1. PICK n \in Names : sketch' = [sketch EXCEPT ![w] = SketchOf(n)]
    BY <1>8 DEF CommitDirectly
  <2>2. SketchOf(n) \in Answers
    BY SketchFacts
  <2> QED
    BY <1>8, <2>1, <2>2 DEF CommitDirectly, WorkGoes, sessionVars, callVars, challengeVars
<1>9. ASSUME NEW c \in Challenges, Ask(c) PROVE RegistrationTypeOK'
  <2>1. registered # <<>> => Identity \in Ids
    BY IdentityFacts DEF Ids
  <2> QED
    BY <1>9, <2>1 DEF Ask, sessionVars, callVars, workVars
<1>10. ASSUME NEW c \in Challenges, Report(c) PROVE RegistrationTypeOK'
  <2>1. Identity \in Ids
    BY <1>10, IdentityFacts DEF RegistrationInv, Steady, Report, Ids
  <2> QED
    BY <1>10, <2>1 DEF Report, sessionVars, callVars, workVars
<1>11. CASE UNCHANGED registrationVars
  BY <1>11 DEF registrationVars, sessionVars, callVars, workVars, challengeVars
<1> QED
  BY <1>1, <1>2, <1>3, <1>4, <1>5, <1>6, <1>7, <1>8, <1>9, <1>10, <1>11
  DEF RegistrationNext, AllCallsOver

(* Only a reply changes the cache, and it only adds to it.                 *)
LEMMA CacheGrows ==
  ASSUME RegistrationTypeOK, [RegistrationNext]_registrationVars
  PROVE  \/ UNCHANGED sessionVars
         \/ \E r \in Registrations : RegisterReply(r)
BY DEF RegistrationNext, AllCallsOver, registrationVars, Register, AnswerFromCache, RegisterArrives, RegisterFails,
       BuildProof, PostSketch, AdapterCompletes, CommitDirectly, Ask, Report

LEMMA KnownStays ==
  ASSUME RegistrationTypeOK, [RegistrationNext]_registrationVars
  PROVE  /\ Known \subseteq Known'
         /\ registered # <<>> => registered' # <<>> /\ Identity' = Identity
<1>1. CASE UNCHANGED sessionVars
  BY <1>1 DEF sessionVars, Known, Identity
<1>2. ASSUME NEW r \in Registrations, RegisterReply(r)
      PROVE  /\ Known \subseteq Known'
             /\ registered # <<>> => registered' # <<>> /\ Identity' = Identity
  BY <1>2, NameFacts, RememberFacts DEF RegisterReply, Identity
<1> QED
  BY <1>1, <1>2, CacheGrows

LEMMA StepCache ==
  ASSUME RegistrationInv, [RegistrationNext]_registrationVars
  PROVE  CacheInv'
<1> RegistrationTypeOK /\ CacheInv
  BY DEF RegistrationInv
<1>1. ASSUME NEW r \in Registrations, Register(r) PROVE CacheInv'
  <2>1. UNCHANGED <<sessionVars, received, declared>>
    BY <1>1 DEF Register, AnswerFromCache
  <2>2. post'[r] = "created" => post[r] = "created"
    BY <1>1 DEF Register, RegistrationTypeOK
  <2>3. \A q \in Registrations : post'[q] = "created" => post[q] = "created"
    BY <1>1, <2>2 DEF Register, RegistrationTypeOK
  <2>4. adapter' # None => adapter'.uri.system = adapter'.name /\ adapter'.name \in Known
    <3>1. adapter' = adapter \/ (/\ adapter' = [name |-> NameOf(r), uri |-> Constructed(NameOf(r))]
                                 /\ NameOf(r) \in Known)
      BY <1>1 DEF Register, AnswerFromCache, Returns
    <3>2. CASE adapter' = adapter
      <4>1. Known' = Known
        BY <2>1 DEF Known, sessionVars
      <4> QED
        BY <3>2, <4>1 DEF CacheInv
    <3>3. CASE adapter' = [name |-> NameOf(r), uri |-> Constructed(NameOf(r))]
      <4>1. NameOf(r) \in Names /\ Known' = Known
        BY <2>1, NameFacts DEF Known, sessionVars
      <4>2. adapter' = adapter \/ NameOf(r) \in Known
        BY <3>1
      <4>3. adapter'.uri = Constructed(NameOf(r)) /\ adapter'.name = NameOf(r)
        BY <3>3
      <4>4. Constructed(NameOf(r)).system = NameOf(r)
        BY <4>1, AnswerFacts
      <4> QED
        BY <3>2, <4>1, <4>2, <4>3, <4>4 DEF CacheInv
    <3> QED
      BY <3>1, <3>2, <3>3
  <2> QED
    BY <2>1, <2>3, <2>4 DEF CacheInv, CacheIsTrue, Known, sessionVars
<1>2. ASSUME NEW r \in Registrations, RegisterArrives(r) PROVE CacheInv'
  <2>1. UNCHANGED <<sessionVars, declared, adapter>> /\ received \subseteq received'
    BY <1>2 DEF RegisterArrives
  <2>2. \A q \in Registrations : post'[q] = "created" => declared[q] \in received'
    BY <1>2 DEF RegisterArrives, CacheInv, RegistrationTypeOK
  <2> QED
    BY <2>1, <2>2 DEF CacheInv, CacheIsTrue, Known, sessionVars
<1>3. ASSUME NEW r \in Registrations, RegisterReply(r) PROVE CacheInv'
  <2>1. UNCHANGED <<declared, post, received>> /\ Known' = Known \cup {NameOf(r)}
    BY <1>3, NameFacts, RememberFacts DEF RegisterReply
  <2>2. declared[r] \in received /\ declared[r].name = NameOf(r)
    BY <1>3, NameFacts DEF RegisterReply, CacheInv
  <2>3. \A n \in Known' : uris'[n] = Authoritative(n)
    <3>1. Known' \subseteq Names
      <4>1. Known \subseteq Names
        BY DEF RegistrationTypeOK, Known
      <4>2. NameOf(r) \in Names
        BY NameFacts
      <4> QED
        BY <2>1, <4>1, <4>2
    <3> QED
      BY <1>3, <2>1, <3>1 DEF RegisterReply, CacheInv, RegistrationTypeOK
  <2>4. \/ adapter' = adapter
        \/ adapter' = [name |-> NameOf(r), uri |-> Authoritative(NameOf(r))]
    BY <1>3 DEF RegisterReply, Returns
  <2>5. adapter' # None => adapter'.uri.system = adapter'.name /\ adapter'.name \in Known'
    <3>1. CASE adapter' = adapter
      BY <2>1, <3>1 DEF CacheInv
    <3>2. CASE adapter' = [name |-> NameOf(r), uri |-> Authoritative(NameOf(r))]
      <4>1. NameOf(r) \in Names
        BY NameFacts
      <4>2. Authoritative(NameOf(r)).system = NameOf(r)
        BY <4>1, AnswerFacts
      <4>3. adapter'.uri = Authoritative(NameOf(r)) /\ adapter'.name = NameOf(r)
        BY <3>2
      <4> QED
        BY <2>1, <4>2, <4>3
    <3> QED
      BY <2>4, <3>1, <3>2
  <2> QED
    BY <2>1, <2>2, <2>3, <2>5 DEF CacheInv, CacheIsTrue
<1>4. ASSUME UNCHANGED <<sessionVars, callVars>> PROVE CacheInv'
  BY <1>4 DEF sessionVars, callVars, CacheInv, CacheIsTrue, Known
<1>5. ASSUME NEW r \in Registrations, RegisterFails(r) PROVE CacheInv'
  BY <1>5 DEF RegisterFails, sessionVars, CacheInv, CacheIsTrue, Known
<1> QED
  BY <1>1, <1>2, <1>3, <1>4, <1>5
  DEF RegistrationNext, AllCallsOver, registrationVars, BuildProof, PostSketch, AdapterCompletes, CommitDirectly, Ask, Report

(* A task that does not move keeps what it has, since the cache only grows.*)
LEMMA OthersAgree ==
  ASSUME RegistrationInv, [RegistrationNext]_registrationVars, NEW w \in Works,
         work'[w] = work[w], proof'[w] = proof[w], sketch'[w] = sketch[w]
  PROVE  Agrees(w)'
BY KnownStays DEF RegistrationInv, Agrees

LEMMA StepWork ==
  ASSUME RegistrationInv, [RegistrationNext]_registrationVars, NEW w \in Works
  PROVE  Agrees(w)'
<1> RegistrationTypeOK /\ CacheInv /\ Agrees(w)
  BY DEF RegistrationInv
<1>1. CASE UNCHANGED workVars
  BY <1>1, OthersAgree DEF workVars
<1>2. ASSUME NEW v \in Works, BuildProof(v) PROVE Agrees(w)'
  <2>1. CASE v # w
    BY <1>2, <2>1, OthersAgree DEF BuildProof, WorkGoes, RegistrationTypeOK
  <2>2. CASE v = w
    <3>1. registered # <<>> => Identity \in Known /\ Constructed(Identity).system = Identity
      BY IdentityFacts, AnswerFacts
    <3>2. Known' = Known
      BY <1>2 DEF BuildProof, sessionVars, Known
    <3>3. /\ work'[w] \in {"failed", "saving"} /\ sketch'[w] = None
          /\ work'[w] = "failed" => proof'[w] = None
          /\ work'[w] = "saving" =>
               /\ registered # <<>>
               /\ proof'[w] = [name |-> Identity, uri |-> Constructed(Identity)]
      BY <1>2, <2>2 DEF BuildProof, WorkGoes, RegistrationTypeOK, Agrees
    <3>4. [name |-> Identity, uri |-> Constructed(Identity)] # None \/ registered = <<>>
      BY IdentityFacts, AnswerFacts, NoneAssumption
    <3> QED
      BY <1>2, <2>2, <3>1, <3>2, <3>3, <3>4 DEF BuildProof, Agrees
  <2> QED
    BY <2>1, <2>2
<1>3. ASSUME NEW v \in Works, PostSketch(v) PROVE Agrees(w)'
  <2>1. CASE v # w
    BY <1>3, <2>1, OthersAgree DEF PostSketch, WorkGoes, RegistrationTypeOK
  <2>2. CASE v = w
    <3>1. proof[w] # None /\ proof[w].name \in Known /\ proof[w].name \in Names
      BY <1>3, <2>2 DEF PostSketch, Agrees, RegistrationTypeOK, Known
    <3>2. SketchOf(proof[w].name).name = proof[w].name
          /\ SketchOf(proof[w].name).uri = Authoritative(proof[w].name)
      BY <3>1, SketchFacts DEF CacheInv
    <3>3. /\ work'[w] \in {"posted", "failed"} /\ proof'[w] = proof[w]
          /\ sketch'[w] = SketchOf(proof[w].name) \/ sketch'[w] = None
      BY <1>3, <2>2 DEF PostSketch, WorkGoes, Committer, RegistrationTypeOK, Agrees
    <3>4. Known' = Known
      BY <1>3 DEF PostSketch, sessionVars, Known
    <3> QED
      BY <3>1, <3>2, <3>3, <3>4 DEF Agrees
  <2> QED
    BY <2>1, <2>2
<1>4. ASSUME NEW v \in Works, AdapterCompletes(v) PROVE Agrees(w)'
  <2>1. CASE v # w
    BY <1>4, <2>1, OthersAgree DEF AdapterCompletes, WorkGoes, RegistrationTypeOK
  <2>2. CASE v = w
    <3>1. adapter # None => adapter.name \in Names /\ adapter.name \in Known
                            /\ adapter.uri.system = adapter.name
      BY DEF CacheInv, RegistrationTypeOK, Answers
    <3>2. adapter # None => /\ SketchOf(adapter.name).name = adapter.name
                            /\ SketchOf(adapter.name).uri = Authoritative(adapter.name)
      BY <3>1, SketchFacts DEF CacheInv
    <3>3. \/ work'[w] = "failed" /\ proof'[w] = None /\ sketch'[w] = None
          \/ /\ adapter # None /\ work'[w] = "posted" /\ proof'[w] = adapter
             /\ sketch'[w] = SketchOf(adapter.name)
      BY <1>4, <2>2 DEF AdapterCompletes, WorkGoes, RegistrationTypeOK, Agrees
    <3>4. Known' = Known
      BY <1>4 DEF AdapterCompletes, sessionVars, Known
    <3> QED
      BY <3>1, <3>2, <3>3, <3>4 DEF Agrees
  <2> QED
    BY <2>1, <2>2
<1>5. ASSUME NEW v \in Works, CommitDirectly(v) PROVE Agrees(w)'
  <2>1. CASE v # w
    BY <1>5, <2>1, OthersAgree DEF CommitDirectly, WorkGoes, RegistrationTypeOK
  <2>2. CASE v = w
    BY <1>5, <2>2 DEF CommitDirectly, WorkGoes, RegistrationTypeOK, Agrees
  <2> QED
    BY <2>1, <2>2
<1> QED
  BY <1>1, <1>2, <1>3, <1>4, <1>5
  DEF RegistrationNext, AllCallsOver, registrationVars, Register, RegisterArrives, RegisterReply, RegisterFails, Ask, Report

LEMMA StepChallenge ==
  ASSUME RegistrationInv, [RegistrationNext]_registrationVars, NEW c \in Challenges
  PROVE  Steady(c)'
<1> RegistrationTypeOK /\ Steady(c)
  BY DEF RegistrationInv
<1>1. CASE UNCHANGED challengeVars
  BY <1>1, KnownStays DEF challengeVars, Steady
<1>2. ASSUME NEW d \in Challenges, Ask(d) PROVE Steady(c)'
  <2>1. registered' = registered /\ Identity' = Identity /\ assessor' = assessor
    BY <1>2 DEF Ask, sessionVars, Identity
  <2> QED
    BY <1>2, <2>1 DEF Ask, Steady, RegistrationTypeOK
<1>3. ASSUME NEW d \in Challenges, Report(d) PROVE Steady(c)'
  <2>1. registered' = registered /\ Identity' = Identity /\ challenger' = challenger
    BY <1>3 DEF Report, sessionVars, Identity
  <2> QED
    BY <1>3, <2>1 DEF Report, Steady, RegistrationTypeOK
<1> QED
  BY <1>1, <1>2, <1>3
  DEF RegistrationNext, AllCallsOver, registrationVars, Register, RegisterArrives, RegisterReply, RegisterFails,
      BuildProof, PostSketch, AdapterCompletes, CommitDirectly

LEMMA RegistrationInitInv == RegistrationInit => RegistrationInv
<1> SUFFICES ASSUME RegistrationInit PROVE RegistrationInv
  OBVIOUS
<1>1. Known = {}
  BY DEF RegistrationInit, Known
<1>2. CacheInv
  BY <1>1 DEF RegistrationInit, CacheInv, CacheIsTrue
<1>3. (\A w \in Works : Agrees(w)) /\ \A c \in Challenges : Steady(c)
  BY DEF RegistrationInit, Agrees, Steady
<1> QED
  BY <1>2, <1>3, InitTypes DEF RegistrationInv

(* The inductive invariant of the session and its calls.                   *)
THEOREM RegistrationInvariance == RegistrationSpec => []RegistrationInv
<1>1. ASSUME RegistrationInv, [RegistrationNext]_registrationVars PROVE RegistrationInv'
  BY <1>1, StepTypes, StepCache, StepWork, StepChallenge DEF RegistrationInv
<1> QED
  BY RegistrationInitInv, <1>1, PTL DEF RegistrationSpec

-----------------------------------------------------------------------------
(* The dictionaries keep their types, and a name is in the cache once.     *)
THEOREM RegistrationTyped == RegistrationSpec => []RegistrationTypeOK
BY RegistrationInvariance, PTL DEF RegistrationInv

(* The Exchange knows every system of the cache, whatever reply is lost.   *)
THEOREM CacheIsRight == RegistrationSpec => []CacheIsTrue
<1>1. RegistrationInv => CacheIsTrue
  BY DEF RegistrationInv, CacheInv
<1> QED
  BY <1>1, RegistrationInvariance, PTL

(* Who asks for a proof is who reports the verdict.                        *)
THEOREM AssessorAsked == RegistrationSpec => []AssessorIsChallenger
<1>1. RegistrationInv => AssessorIsChallenger
  BY DEF RegistrationInv, Steady, AssessorIsChallenger
<1> QED
  BY <1>1, RegistrationInvariance, PTL

(* What atp_task and the adapter commit carries the authoritative address. *)
THEOREM SketchesAreAuthoritative == RegistrationSpec => []SketchIsAuthoritative
<1>1. RegistrationInv => SketchIsAuthoritative
  BY DEF RegistrationInv, Agrees, SketchIsAuthoritative
<1> QED
  BY <1>1, RegistrationInvariance, PTL

(* A stored proof leads a verifier to the commit that was made with it.    *)
THEOREM ProofsFindCommits == RegistrationSpec => []ProofFindsCommit
<1>1. RegistrationInv => ProofFindsCommit
  BY DEF RegistrationInv, Agrees, ProofFindsCommit
<1> QED
  BY <1>1, RegistrationInvariance, PTL
-----------------------------------------------------------------------------
(* All that is done in the name of the session is done in one name: the    *)
(* proofs atp_task stores, the challenges and their verdicts.              *)
OneVoice ==
  /\ \A w \in Works : WorkKind[w] = "context" /\ proof[w] # None =>
                        registered # <<>> /\ proof[w].name = Identity
  /\ \A c \in Challenges :
       /\ challenger[c] # None => registered # <<>> /\ challenger[c] = Identity
       /\ assessor[c] # None => assessor[c] = Identity

LEMMA StepOneVoice ==
  ASSUME RegistrationInv, OneVoice, [RegistrationNext]_registrationVars
  PROVE  OneVoice'
<1> RegistrationTypeOK
  BY DEF RegistrationInv
<1>1. ASSUME NEW v \in Works, BuildProof(v) PROVE OneVoice'
  BY <1>1 DEF BuildProof, OneVoice, RegistrationTypeOK, sessionVars, challengeVars, Identity
<1>2. ASSUME NEW v \in Works, AdapterCompletes(v) PROVE OneVoice'
  BY <1>2 DEF AdapterCompletes, OneVoice, RegistrationTypeOK, sessionVars, challengeVars,
     Identity
<1>3. ASSUME NEW c \in Challenges, Ask(c) PROVE OneVoice'
  <2>1. /\ registered' = registered /\ proof' = proof /\ assessor' = assessor
        /\ Identity' = Identity
    BY <1>3 DEF Ask, sessionVars, workVars, Identity
  <2>2. \A d \in Challenges : \/ challenger'[d] = challenger[d]
                              \/ registered # <<>> /\ challenger'[d] = Identity
    BY <1>3 DEF Ask, RegistrationTypeOK
  <2> QED
    BY <2>1, <2>2 DEF OneVoice
<1>4. ASSUME NEW c \in Challenges, Report(c) PROVE OneVoice'
  BY <1>4 DEF Report, OneVoice, RegistrationTypeOK, sessionVars, workVars, Identity
<1>5. CASE UNCHANGED <<proof, challenger, assessor>>
  <2>1. registered # <<>> => registered' # <<>> /\ Identity' = Identity
    BY KnownStays
  <2>2. \A c \in Challenges : assessor[c] # None => assessor[c] = challenger[c]
    BY DEF RegistrationInv, Steady
  <2> QED
    BY <1>5, <2>1, <2>2 DEF OneVoice
<1> QED
  BY <1>1, <1>2, <1>3, <1>4, <1>5
  DEF RegistrationNext, AllCallsOver, registrationVars, workVars, challengeVars, Register,
      RegisterArrives, RegisterReply, RegisterFails, PostSketch, CommitDirectly

(* Two lookups of the identity never disagree, however far apart they are  *)
(* and whatever is registered in between.                                  *)
THEOREM SessionHasOneVoice == RegistrationSpec => []OneVoice
<1>1. RegistrationInit => OneVoice
  BY DEF RegistrationInit, OneVoice
<1> QED
  BY <1>1, StepOneVoice, RegistrationInvariance, PTL DEF RegistrationSpec

(* The first system registered is the identity of the session for good,    *)
(* and the address the backend gave for a system is never replaced.        *)
IdentityStays ==
  /\ registered # <<>> => registered' # <<>> /\ Identity' = Identity
  /\ \A n \in Known : n \in Known' /\ uris'[n] = uris[n]

(* No registration, repeated, answered from the cache or answered twice,   *)
(* changes who the session is or where a system of it is found.            *)
THEOREM SessionIsFixed == RegistrationSpec => [][IdentityStays]_registrationVars
<1>1. ASSUME RegistrationInv, RegistrationInv', [RegistrationNext]_registrationVars
      PROVE  IdentityStays
  BY <1>1, KnownStays DEF RegistrationInv, CacheInv, IdentityStays
<1> HIDE DEF IdentityStays
<1> QED
  BY <1>1, RegistrationInvariance, PTL DEF RegistrationSpec
=============================================================================
