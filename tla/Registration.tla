---------------------------- MODULE Registration ----------------------------
(* One ATPClient and what it remembers of the systems it registers         *)
(* (core/client.py): _registered_systems, a dictionary in the order of its *)
(* insertions whose first entry is the identity of the session, and        *)
(* _system_uris, the authoritative address of each.  Coroutines register   *)
(* names, commit tasks (core/utils.py, adapters/base.py) and challenge     *)
(* others, all in the name of what is in these dictionaries.               *)
EXTENDS Integers, Sequences

CONSTANTS Names,         \* system names; the Exchange has one system_id for each
          Details,       \* capabilities and url declared for a system
          Registrations, \* calls of register_system
          AdapterCalls,  \* those made by MinimalAdapter.register
          Works,         \* tasks to commit
          WorkKind,      \* WorkKind[w]: who commits w
          Challenges,    \* calls of challenge or challenge_and_verify
          None

ASSUME RegistrationAssumption ==
  /\ AdapterCalls \subseteq Registrations
  /\ WorkKind \in [Works -> {"context", "adapter", "direct"}]

VARIABLES registered, \* _registered_systems, as the sequence of its names
          uris,       \* _system_uris
          call,       \* call[r]: how far registration r is
          declared,   \* declared[r]: its arguments
          post,       \* post[r]: where its POST /register is
          answer,     \* answer[r]: the SystemRegistration it returned
          received,   \* the registrations the Exchange has accepted
          adapter,    \* system_id and _system_uri of the MinimalAdapter
          work,       \* work[w]: how far the commit of w is
          proof,      \* proof[w]: the system its stored proof names
          sketch,     \* sketch[w]: the system its POST /commit names
          challenge,  \* challenge[c]: how far challenge c is
          challenger, \* challenger[c]: the system the agent is told asks
          assessor    \* assessor[c]: the system that reports the verdict

sessionVars == <<registered, uris>>
callVars == <<call, declared, post, answer, received, adapter>>
workVars == <<work, proof, sketch>>
challengeVars == <<challenge, challenger, assessor>>
registrationVars == <<sessionVars, callVars, workVars, challengeVars>>

(* The backend builds the address of a system from its own base URL; the   *)
(* client can only build one from exchange_url.  Both end in the system_id.*)
Authoritative(n) == [base |-> "EXCHANGE_BASE_URL", system |-> n]
Constructed(n) == [base |-> "exchange_url", system |-> n]

Uris == {Authoritative(n) : n \in Names} \cup {Constructed(n) : n \in Names}
Declarations == [name : Names, details : Details]
Answers == [name : Names, uri : Uris]
Ids == Names \cup {None}

ASSUME NoneAssumption == None \notin Names \cup Uris \cup Answers

RegistrationTypeOK ==
  /\ registered \in Seq(Names)
  /\ \A i, j \in DOMAIN registered : registered[i] = registered[j] => i = j
  /\ uris \in [Names -> Uris \cup {None}]
  /\ call \in [Registrations -> {"idle", "posting", "done", "failed"}]
  /\ declared \in [Registrations -> Declarations]
  /\ post \in [Registrations -> {"none", "wire", "created", "refused", "lost"}]
  /\ answer \in [Registrations -> Answers \cup {None}]
  /\ received \subseteq Declarations
  /\ adapter \in Answers \cup {None}
  /\ work \in [Works -> {"idle", "saving", "posted", "failed"}]
  /\ proof \in [Works -> Answers \cup {None}]
  /\ sketch \in [Works -> Answers \cup {None}]
  /\ challenge \in [Challenges -> {"idle", "asking", "done"}]
  /\ challenger \in [Challenges -> Ids]
  /\ assessor \in [Challenges -> Ids]

RegistrationInit ==
  /\ registered = <<>>
  /\ uris = [n \in Names |-> None]
  /\ call = [r \in Registrations |-> "idle"]
  /\ declared \in [Registrations -> Declarations]
  /\ post = [r \in Registrations |-> "none"]
  /\ answer = [r \in Registrations |-> None]
  /\ received = {}
  /\ adapter = None
  /\ work = [w \in Works |-> "idle"]
  /\ proof = [w \in Works |-> None]
  /\ sketch = [w \in Works |-> None]
  /\ challenge = [c \in Challenges |-> "idle"]
  /\ challenger = [c \in Challenges |-> None]
  /\ assessor = [c \in Challenges |-> None]

NameOf(r) == declared[r].name
Known == {registered[i] : i \in DOMAIN registered}

(* list(_registered_systems.values())[0]                                   *)
Identity == Head(registered)

-----------------------------------------------------------------------------
(* register_system returns; MinimalAdapter keeps what it returned.         *)
Returns(r, uri) ==
  LET registration == [name |-> NameOf(r), uri |-> uri]
  IN /\ call' = [call EXCEPT ![r] = "done"]
     /\ answer' = [answer EXCEPT ![r] = registration]
     /\ adapter' = IF r \in AdapterCalls THEN registration ELSE adapter

(* Bug: what the cache answers is written to _system_uris as well.         *)
AnswerFromCacheStoring(r) ==
  /\ Returns(r, Constructed(NameOf(r)))
  /\ uris' = [uris EXCEPT ![NameOf(r)] = Constructed(NameOf(r))]
  /\ UNCHANGED registered

(* A name of this session is not sent again: the answer is made up from    *)
(* the arguments, with an address built from exchange_url.                 *)
AnswerFromCache(r) ==
  Returns(r, Constructed(NameOf(r))) /\ UNCHANGED sessionVars

Register(r) ==
  /\ call[r] = "idle"
  /\ \/ /\ NameOf(r) \in Known
        /\ AnswerFromCache(r)
        /\ UNCHANGED post
     \/ /\ NameOf(r) \notin Known
        /\ call' = [call EXCEPT ![r] = "posting"]
        /\ post' = [post EXCEPT ![r] = "wire"]
        /\ UNCHANGED <<sessionVars, answer, adapter>>
  /\ UNCHANGED <<declared, received, workVars, challengeVars>>

(* POST /api/v1/register reaches the Exchange, perhaps after its client    *)
(* gave up, and is accepted or refused (401, another status); or is lost.  *)
RegisterArrives(r) ==
  /\ post[r] = "wire"
  /\ \/ /\ post' = [post EXCEPT ![r] = "created"]
        /\ received' = received \cup {declared[r]}
     \/ /\ \E end \in {"refused", "lost"} : post' = [post EXCEPT ![r] = end]
        /\ UNCHANGED received
  /\ UNCHANGED <<sessionVars, call, declared, answer, adapter, workVars, challengeVars>>

(* Bug: a list instead of a dictionary.                                    *)
RememberTwice(n) == Append(registered, n)

(* Bug: the latest registration becomes the identity of the session.       *)
RememberFirst(n) == IF n \in Known THEN registered ELSE <<n>> \o registered

(* Writing a key that is there leaves it at its place in a dictionary.     *)
Remember(n) == IF n \in Known THEN registered ELSE Append(registered, n)

(* 200 or 201: the name, the address and the type are cached.              *)
RegisterReply(r) ==
  /\ call[r] = "posting"
  /\ post[r] = "created"
  /\ registered' = Remember(NameOf(r))
  /\ uris' = [uris EXCEPT ![NameOf(r)] = Authoritative(NameOf(r))]
  /\ Returns(r, Authoritative(NameOf(r)))
  /\ UNCHANGED <<declared, post, received, workVars, challengeVars>>

(* Bug: the name is cached although the call raises.                       *)
RegisterFailsCached(r) ==
  /\ call[r] = "posting"
  /\ call' = [call EXCEPT ![r] = "failed"]
  /\ registered' = Remember(NameOf(r))
  /\ UNCHANGED <<uris, declared, post, answer, received, adapter, workVars,
                 challengeVars>>

(* Another status, a timeout, a lost or an unparsable reply: it raises and *)
(* caches nothing.                                                         *)
RegisterFails(r) ==
  /\ call[r] = "posting"
  /\ call' = [call EXCEPT ![r] = "failed"]
  /\ UNCHANGED <<sessionVars, declared, post, answer, received, adapter, workVars,
                 challengeVars>>

-----------------------------------------------------------------------------
(* create_commit: the address the backend gave, or one built when this     *)
(* session has none.                                                       *)
SketchOf(n) == [name |-> n, uri |-> IF uris[n] # None THEN uris[n] ELSE Constructed(n)]

WorkGoes(w, state) == work' = [work EXCEPT ![w] = state]

(* ATPTaskContext._commit: the identity is looked up, the proof is built   *)
(* with an address made from exchange_url, and its save is awaited.        *)
BuildProof(w) ==
  /\ WorkKind[w] = "context"
  /\ work[w] = "idle"
  /\ \/ /\ registered = <<>>
        /\ WorkGoes(w, "failed")
        /\ UNCHANGED proof
     \/ /\ registered # <<>>
        /\ WorkGoes(w, "saving")
        /\ proof' = [proof EXCEPT ![w] = [name |-> Identity, uri |-> Constructed(Identity)]]
  /\ UNCHANGED <<sessionVars, callVars, sketch, challengeVars>>

(* Bug: the commit is made for the system registered last.                 *)
CommitterLatest(w) == registered[Len(registered)]

(* The system_id looked up before the save is used after it.               *)
Committer(w) == proof[w].name

(* The save has ended, and create_commit posts the sketch; or it failed.   *)
PostSketch(w) ==
  /\ work[w] = "saving"
  /\ \/ /\ WorkGoes(w, "posted")
        /\ sketch' = [sketch EXCEPT ![w] = SketchOf(Committer(w))]
     \/ /\ WorkGoes(w, "failed")
        /\ UNCHANGED sketch
  /\ UNCHANGED <<sessionVars, callVars, proof, challengeVars>>

(* MinimalAdapter.on_task_complete: its store never suspends, so all of it *)
(* up to the POST is one step.                                             *)
AdapterCompletes(w) ==
  /\ WorkKind[w] = "adapter"
  /\ work[w] = "idle"
  /\ \/ /\ adapter = None
        /\ WorkGoes(w, "failed")
        /\ UNCHANGED <<proof, sketch>>
     \/ /\ adapter # None
        /\ WorkGoes(w, "posted")
        /\ proof' = [proof EXCEPT ![w] = adapter]
        /\ sketch' = [sketch EXCEPT ![w] = SketchOf(adapter.name)]
  /\ UNCHANGED <<sessionVars, callVars, challengeVars>>

(* create_commit called with a system_id of the caller's choice.           *)
CommitDirectly(w) ==
  /\ WorkKind[w] = "direct"
  /\ work[w] = "idle"
  /\ WorkGoes(w, "posted")
  /\ \E n \in Names : sketch' = [sketch EXCEPT ![w] = SketchOf(n)]
  /\ UNCHANGED <<sessionVars, callVars, proof, challengeVars>>

(* challenge, challenge_and_verify: the identity is shown to the agent ... *)
Ask(c) ==
  /\ challenge[c] = "idle"
  /\ \/ /\ registered = <<>>
        /\ challenge' = [challenge EXCEPT ![c] = "done"]
        /\ UNCHANGED challenger
     \/ /\ registered # <<>>
        /\ challenge' = [challenge EXCEPT ![c] = "asking"]
        /\ challenger' = [challenger EXCEPT ![c] = Identity]
  /\ UNCHANGED <<sessionVars, callVars, workVars, assessor>>

(* ... and looked up again when report_assessment sends the verdict, if    *)
(* the verification comes to one.                                          *)
Report(c) ==
  /\ challenge[c] = "asking"
  /\ challenge' = [challenge EXCEPT ![c] = "done"]
  /\ assessor' = [assessor EXCEPT ![c] = Identity] \/ UNCHANGED assessor
  /\ UNCHANGED <<sessionVars, callVars, workVars, challenger>>

AllCallsOver ==
  /\ \A r \in Registrations : call[r] \in {"done", "failed"} /\ post[r] # "wire"
  /\ \A w \in Works : work[w] \in {"posted", "failed"}
  /\ \A c \in Challenges : challenge[c] = "done"
  /\ UNCHANGED registrationVars

RegistrationNext ==
  \/ \E r \in Registrations : \/ Register(r) \/ RegisterArrives(r)
                              \/ RegisterReply(r) \/ RegisterFails(r)
  \/ \E w \in Works : \/ BuildProof(w) \/ PostSketch(w)
                      \/ AdapterCompletes(w) \/ CommitDirectly(w)
  \/ \E c \in Challenges : Ask(c) \/ Report(c)
  \/ AllCallsOver

RegistrationSpec == RegistrationInit /\ [][RegistrationNext]_registrationVars

-----------------------------------------------------------------------------
(* Every name in the session's cache is registered with the Exchange, so   *)
(* the identity is never one the Exchange does not know, whatever reply is *)
(* lost and however often and concurrently the name is registered.         *)
CacheIsTrue == \A n \in Known : \E q \in received : q.name = n

(* The verdict of a challenge is reported by the system that the agent was *)
(* told asks for its proof, although the two are looked up at different    *)
(* times and other systems are registered in between.                      *)
AssessorIsChallenger ==
  \A c \in Challenges : assessor[c] # None => assessor[c] = challenger[c]

(* A sketch posted by atp_task or an adapter carries the authoritative     *)
(* address, from which the Exchange recomputes proof_hash, also when the   *)
(* registration was repeated and answered with another address.            *)
SketchIsAuthoritative ==
  \A w \in Works :
    WorkKind[w] # "direct" /\ sketch[w] # None =>
      sketch[w].uri = Authoritative(sketch[w].name)

(* The last segment of the address in a stored proof, which a verifier     *)
(* takes for the system_id, is the system the commit was made for.         *)
ProofFindsCommit ==
  \A w \in Works :
    proof[w] # None /\ sketch[w] # None =>
      proof[w].uri.system = sketch[w].name
=============================================================================
