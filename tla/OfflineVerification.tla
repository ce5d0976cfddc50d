------------------------- MODULE OfflineVerification ------------------------
(* What a commit is hashed from (core/hashing.py), and what a client can   *)
(* check without the agent (core/client.py): that the Exchange signed it.  *)
(* Sketches are built, sent with their proof_hash, and catalogued by an    *)
(* Exchange that recomputes it; the record that is queried later has been  *)
(* through JSON.                                                           *)
EXTENDS Timestamps, Sequences, SequencesExt

CONSTANTS Commits,
          Tasks,
          Contents,  \* the responses a task may have
          Instants,  \* of completions, evaluations and cataloguings
          Zones,     \* the zones agents take their times in
          MaxDeps,   \* dependencies of a sketch
          MaxEvals,  \* evaluations of a dependency
          None

ASSUME OfflineAssumption ==
  /\ Instants \subseteq Nat /\ Zones \subseteq Int /\ 0 \in Zones
  /\ MaxDeps \in Nat /\ MaxEvals \in Nat
  /\ \A z \in Zones : z % Second = 0

VARIABLES state,     \* state[c]: how far commit c is
          sketch,    \* sketch[c]: its ProofSketch
          sent,      \* sent[c]: the proof_hash create_commit computed
          cataloged  \* cataloged[c]: the Exchange's cataloged_at

vars == <<state, sketch, sent, cataloged>>

-----------------------------------------------------------------------------
(* Hashes.  SHA-256 is injective here; a JSON object with sorted keys is   *)
(* the set of its members, a JSON array a sequence, text the rest.         *)
Digest(text) == <<"digest", text>>
JsonText(value) == <<"json", value>>

(* hash_with_prefix of a dictionary or list.                               *)
HashOfJson(value) == <<"sha256:", Digest(JsonText(value))>>

(* A policy stands for what else an evaluation says, its type and result.  *)
Evaluations(times) == [policy : {None, "strict"}, evaluated_at : times]
Dependencies(times) == [task : Tasks, challenge_url : {None, "url"},
                        evaluations : BoundedSeq(Evaluations(times), MaxEvals)]

(* _dep_eval_to_canonical                                                  *)
EvalMembers(e, evaluated_at) ==
  {<<"evaluated_at", evaluated_at>>}
    \cup (IF e.policy = None THEN {} ELSE {<<"evaluation_policy", e.policy>>})

(* Bug: the time is not brought to UTC.                                    *)
EvalCanonicalLocal(e) == EvalMembers(e, ProofTime(e.evaluated_at))

EvalCanonical(e) == EvalMembers(e, Rfc3339Nano(e.evaluated_at))

Mapped(Op(_), list) == [i \in DOMAIN list |-> Op(list[i])]

(* Bug: the evaluations are left out.                                      *)
DepMembersBare(d, evaluations) == {<<"task_id", d.task>>}

(* _dep_to_canonical: an empty list is left out, and challenge_url always. *)
DepMembers(d, evaluations) ==
  {<<"task_id", d.task>>}
    \cup (IF d.evaluations = <<>> THEN {} ELSE {<<"evaluations", evaluations>>})
DepCanonical(d) == DepMembers(d, Mapped(EvalCanonical, d.evaluations))

DependenciesHash(list) == HashOfJson(Mapped(DepCanonical, list))

(* Bug: five fields, also when the sketch is older than dependencies_hash. *)
ProofFieldsFive(s) == <<s.task, s.content, s.dependencies_hash, ProofTime(s.timestamp)>>

(* The fields of _compute_proof_hash_parts; a sketch from before           *)
(* dependencies_hash has one less.  task stands for system_uri and         *)
(* task_id, content for both content hashes.                               *)
ProofFields(s) ==
  IF s.dependencies_hash = None
  THEN <<s.task, s.content, ProofTime(s.timestamp)>>
  ELSE <<s.task, s.content, s.dependencies_hash, ProofTime(s.timestamp)>>

ProofHash(s) == Digest(ProofFields(s))

(* External: the Exchange, for which a timestamp is UTC text with a Z.     *)
ExchangeProofHash(s) ==
  Digest(IF s.dependencies_hash = None
         THEN <<s.task, s.content, Rfc3339Nano(s.timestamp)>>
         ELSE <<s.task, s.content, s.dependencies_hash, Rfc3339Nano(s.timestamp)>>)

-----------------------------------------------------------------------------
NoSketch == [task |-> None]
Init == /\ state = [c \in Commits |-> "new"]
        /\ sketch = [c \in Commits |-> NoSketch]
        /\ sent = [c \in Commits |-> None]
        /\ cataloged = [c \in Commits |-> None]

(* What an agent builds; SDKs before dependencies_hash left it None.       *)
Sketches(times) ==
  {[task |-> task, content |-> content, dependencies |-> list,
    dependencies_hash |-> IF old THEN None ELSE DependenciesHash(list),
    timestamp |-> time] :
     task \in Tasks, content \in Contents, time \in times,
     list \in BoundedSeq(Dependencies(times), MaxDeps), old \in BOOLEAN}

Build(c, s) == /\ state[c] = "new"
               /\ state' = [state EXCEPT ![c] = "built"]
               /\ sketch' = [sketch EXCEPT ![c] = s]
               /\ UNCHANGED <<sent, cataloged>>

CreateCommit(c) == /\ state[c] = "built"
                   /\ state' = [state EXCEPT ![c] = "sent"]
                   /\ sent' = [sent EXCEPT ![c] = ProofHash(sketch[c])]
                   /\ UNCHANGED <<sketch, cataloged>>

(* External: POST /commit validates the proof_hash, and signs or refuses.  *)
Receive(c) ==
  /\ state[c] = "sent"
  /\ \/ /\ sent[c] = ExchangeProofHash(sketch[c])
        /\ state' = [state EXCEPT ![c] = "catalogued"]
        /\ \E t \in Instants :
             cataloged' = [cataloged EXCEPT ![c] = [instant |-> t, zone |-> 0]]
     \/ /\ sent[c] # ExchangeProofHash(sketch[c])
        /\ state' = [state EXCEPT ![c] = "refused"]
        /\ UNCHANGED cataloged
  /\ UNCHANGED <<sketch, sent>>

Terminated == /\ \A c \in Commits : state[c] \in {"new", "catalogued", "refused"}
              /\ UNCHANGED vars

AllTimes == Times(Instants, Zones)

Next == \/ \E c \in Commits : \/ \E s \in Sketches(AllTimes) : Build(c, s)
                              \/ CreateCommit(c) \/ Receive(c)
        \/ Terminated

Spec == Init /\ [][Next]_vars

-----------------------------------------------------------------------------
(* Commit.from_api_response: the record of a commit, its times as they     *)
(* were sent or in UTC, whichever the Exchange kept.                       *)
Utc(time) == [time EXCEPT !.zone = 0]
UtcEval(e) == [e EXCEPT !.evaluated_at = Utc(@)]
UtcDep(d) == [d EXCEPT !.evaluations = Mapped(UtcEval, @)]
Fetched(c) == {sketch[c],
               [sketch[c] EXCEPT !.timestamp = Utc(@), !.dependencies = Mapped(UtcDep, @)]}

(* External: signCommit in the backend; cataloged_at is RFC3339Nano.       *)
SignedMessage(c) == <<c, ExchangeProofHash(sketch[c]), Rfc3339Nano(cataloged[c])>>

(* verify_signature, with what get_commit or create_commit returned, and   *)
(* with a key or without.                                                  *)
VerifySignature(c, record, class, key) ==
  CASE class = "CommitResponse" -> "ValueError"
    [] class = "Commit" /\ key = None -> "False"
    [] OTHER -> IF <<c, ProofHash(record), IsoFormat(cataloged[c])>> = SignedMessage(c)
                THEN "True" ELSE "False"

Catalogued == {c \in Commits : state[c] = "catalogued"}

TypeOK ==
  /\ state \in [Commits -> {"new", "built", "sent", "catalogued", "refused"}]
  /\ \A c \in Commits : state[c] # "new" =>
       sketch[c].task \in Tasks /\ sketch[c].timestamp \in Times(Instants, Zones)
  /\ \A c \in Commits : state[c] \notin {"new", "built"} => sent[c][1] = "digest"
  /\ \A c \in Catalogued : cataloged[c] \in Times(Instants, {0})

(* A sketch whose timestamp is UTC is never refused, whatever fraction it  *)
(* has and with or without a dependencies_hash.                            *)
UtcIsAccepted ==
  \A c \in Commits : state[c] = "refused" => sketch[c].timestamp.zone # 0

(* Two evaluations, dependencies or lists that say the same.               *)
SameEval(e, f) == /\ e.policy = f.policy
                  /\ e.evaluated_at.instant = f.evaluated_at.instant
SameDep(d, e) == /\ d.task = e.task
                 /\ DOMAIN d.evaluations = DOMAIN e.evaluations
                 /\ \A i \in DOMAIN d.evaluations : SameEval(d.evaluations[i], e.evaluations[i])
SameList(k, l) == DOMAIN k = DOMAIN l /\ \A i \in DOMAIN k : SameDep(k[i], l[i])

(* Equal proof hashes of two catalogued commits mean that they say the     *)
(* same: of which task, with what content, when, and, unless both are      *)
(* older than dependencies_hash, from which evaluated dependencies.        *)
HashIdentifies ==
  \A c, d \in Catalogued : sent[c] = sent[d] =>
    /\ sketch[c].task = sketch[d].task
    /\ sketch[c].content = sketch[d].content
    /\ sketch[c].timestamp.instant = sketch[d].timestamp.instant
    /\ \/ sketch[c].dependencies_hash = None /\ sketch[d].dependencies_hash = None
       \/ SameList(sketch[c].dependencies, sketch[d].dependencies)

(* Whoever queries a commit can recompute both hashes from the record,     *)
(* in whatever zone the Exchange gives back its times, old commits too.    *)
HashesAreReproducible ==
  \A c \in Catalogued : \A record \in Fetched(c) :
    /\ ProofHash(record) = ExchangeProofHash(sketch[c])
    /\ record.dependencies_hash # None =>
         DependenciesHash(record.dependencies) = record.dependencies_hash

(* The comment in verify_signature: the message must match signCommit().   *)
GenuineVerifies ==
  \A c \in Catalogued : \A record \in Fetched(c) : VerifySignature(c, record, "Commit", "key") = "True"
=============================================================================
