------------------------------ MODULE ContextMC -----------------------------
(* A small instance of the two ways in which an agent comes to its         *)
(* dependencies: tool calls add them to the active context, and            *)
(* pre_challenge_dependencies collects them from a request.  The lists are *)
(* different ones, so a behaviour moves one part and leaves the other as   *)
(* it begins: all interleavings would show nothing more.                   *)
EXTENDS TaskContext, PreChallenge, TLC

CONSTANTS p1, p2, p3

VARIABLE part  \* the one that moves

ContextInit ==
  /\ part \in {"context", "prechallenge"}
  /\ Init
  /\ PreChallengeInit
  /\ IF part = "context" THEN \A r \in Requests : items[r] = <<>>
                         ELSE \A a \in Adds : given[a] = "other"

ContextNext ==
  /\ UNCHANGED part
  /\ \/ part = "context" /\ Next /\ UNCHANGED preChallengeVars
     \/ part = "prechallenge" /\ PreChallengeNext /\ UNCHANGED vars

ContextSpec == ContextInit /\ [][ContextNext]_<<part, vars, preChallengeVars>>

(* Every variable of the two parts has its type.                           *)
ContextTypeOK == TypeOK /\ PreChallengeTypeOK

Symmetry == UNION {Permutations(S) : S \in {Tasks \ {Root}, Contexts, Adds, Requests}}
=============================================================================
