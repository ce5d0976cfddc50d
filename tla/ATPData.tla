------------------------------ MODULE ATPData ------------------------------
(* The values the parts of the SDK exchange, abstracted to what the        *)
(* properties tell apart.  A task is its task_id.  A content stands for    *)
(* the pair (invocation, outcome) of one execution: the two dictionaries   *)
(* are always built, hashed, stored and compared together.                 *)
EXTENDS Integers

CONSTANTS Tasks,      \* task_ids
          Contents,   \* (invocation, outcome) pairs
          NoProof,    \* the None a store returns for an unknown task_id
          Durable     \* the tasks whose agent keeps its proofs in SQLite

ASSUME DataAssumption == /\ Durable \subseteq Tasks
                         /\ Contents # {}

(* hash_with_prefix: "sha256:" and the digest of the canonical text.       *)
(* SHA-256 is taken to be collision free, so a hash names one content.     *)
Hash(content) == <<"sha256", content>>
Hashes == {Hash(content) : content \in Contents}

(* What a store keeps for one task: the full content, the hash declared    *)
(* for it when the proof was built, and the end of its time to live.       *)
StoredProofs == [content : Contents, hash : Hashes, expires_at : Nat]

ASSUME NoProofAssumption == NoProof \notin StoredProofs

(* The proof that is built for a content at time made.                     *)
NewProof(content, made, ttl) ==
  [content |-> content, hash |-> Hash(content), expires_at |-> made + ttl]
=============================================================================
