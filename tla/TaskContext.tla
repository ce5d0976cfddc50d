----------------------------- MODULE TaskContext ----------------------------
(* The active ATPTaskContext (core/utils.py), a ContextVar: every asyncio  *)
(* task has its own value and a task that is created starts with a copy of *)
(* its creator's.  Tool calls add their proofs to the context they find    *)
(* there; on leaving, the context builds a sketch from them and commits.   *)
EXTENDS Naturals, Sequences, SequencesExt

CONSTANTS Tasks,    \* asyncio tasks
          Root,     \* the one that runs first
          Contexts, \* uses of `async with atp_task(...)`
          Adds,     \* calls of add_dependent_proof on the active context
          None

ASSUME TaskContextAssumption == Root \in Tasks /\ None \notin Tasks \cup Contexts

VARIABLES task,      \* task[p]: whether p has been created, runs, has ended
          current,   \* current[p]: _current_atp_task as p sees it
          inherited, \* inherited[p]: its value when p was created
          state,     \* state[c]: how far context c is
          owner,     \* owner[c]: the task that entered it
          token,     \* token[c]: _task_ctx_token, the value before
          responded, \* the contexts whose response is set
          given,     \* given[a]: what is added: a dependency reference made
                     \* for a proof or for a request, a StoredProof, or neither
          adder,     \* adder[a]: the task that made the call
          target,    \* target[a]: the context it found
          late,      \* the calls made after their context was left
          deps,      \* deps[c]: _dependencies, a list of Adds
          sketch,    \* sketch[c]: the dependencies in its ProofSketch
          hash,      \* hash[c]: those that dependencies_hash was made from
          published  \* published[c]: the sketch the Exchange has received

taskVars == <<task, current, inherited>>
contextVars == <<state, owner, token, responded>>
addVars == <<given, adder, target, late>>
sketchVars == <<sketch, hash, published>>
vars == <<taskVars, contextVars, addVars, deps, sketchVars>>

Kinds == {"Dependency", "RequestDependency", "StoredProof", "other"}
Built == {"saving", "committing", "committed", "failed"}

TypeOK ==
  /\ task \in [Tasks -> {"unborn", "running", "ended"}]
  /\ current \in [Tasks -> Contexts \cup {None}]
  /\ inherited \in [Tasks -> Contexts \cup {None}]
  /\ state \in [Contexts -> {"new", "active", "ended"} \cup Built]
  /\ owner \in [Contexts -> Tasks \cup {None}]
  /\ token \in [Contexts -> Contexts \cup {None}]
  /\ responded \subseteq Contexts
  /\ given \in [Adds -> Kinds]
  /\ adder \in [Adds -> Tasks \cup {None}]
  /\ target \in [Adds -> Contexts \cup {None}]
  /\ late \subseteq Adds
  /\ deps \in [Contexts -> Seq(Adds)]
  /\ sketch \in [Contexts -> Seq(Adds)]
  /\ hash \in [Contexts -> Seq(Adds)]
  /\ published \in [Contexts -> Seq(Adds)]

Init == /\ task = [p \in Tasks |-> IF p = Root THEN "running" ELSE "unborn"]
        /\ current = [p \in Tasks |-> None]
        /\ inherited = [p \in Tasks |-> None]
        /\ state = [c \in Contexts |-> "new"]
        /\ owner = [c \in Contexts |-> None]
        /\ token = [c \in Contexts |-> None]
        /\ responded = {}
        /\ given \in [Adds -> Kinds]
        /\ adder = [a \in Adds |-> None]
        /\ target = [a \in Adds |-> None]
        /\ late = {}
        /\ deps = [c \in Contexts |-> <<>>]
        /\ sketch = [c \in Contexts |-> <<>>]
        /\ hash = [c \in Contexts |-> <<>>]
        /\ published = [c \in Contexts |-> <<>>]

-----------------------------------------------------------------------------
(* p runs and is not inside the _commit of one of its contexts.            *)
Free(p) == /\ task[p] = "running"
           /\ \A c \in Contexts : owner[c] = p => state[c] \notin {"saving", "committing"}

Open(p) == {c \in Contexts : owner[c] = p /\ state[c] = "active"}

(* c is the innermost `async with` that p is in.                           *)
Innermost(p, c) == c \in Open(p) /\ \A d \in Open(p) : token[d] # c

(* asyncio.create_task copies the creator's context variables.             *)
Spawn(p, q) ==
  /\ Free(p)
  /\ task[q] = "unborn"
  /\ task' = [task EXCEPT ![q] = "running"]
  /\ current' = [current EXCEPT ![q] = current[p]]
  /\ inherited' = [inherited EXCEPT ![q] = current[p]]
  /\ UNCHANGED <<contextVars, addVars, deps, sketchVars>>

End(p) ==
  /\ Free(p)
  /\ Open(p) = {}
  /\ task' = [task EXCEPT ![p] = "ended"]
  /\ UNCHANGED <<current, inherited, contextVars, addVars, deps, sketchVars>>

(* Bug: a module variable in the place of the ContextVar.                  *)
SetEverywhere(p, c) == current' = [q \in Tasks |-> c]

SetCurrent(p, c) == current' = [current EXCEPT ![p] = c]

(* __aenter__                                                              *)
Enter(p, c) ==
  /\ Free(p)
  /\ state[c] = "new"
  /\ state' = [state EXCEPT ![c] = "active"]
  /\ owner' = [owner EXCEPT ![c] = p]
  /\ token' = [token EXCEPT ![c] = current[p]]
  /\ SetCurrent(p, c)
  /\ UNCHANGED <<task, inherited, responded, addVars, deps, sketchVars>>

SetResponse(c) ==
  /\ state[c] = "active"
  /\ responded' = responded \cup {c}
  /\ UNCHANGED <<taskVars, state, owner, token, addVars, deps, sketchVars>>

(* Bug: the sketch shares the list of the context instead of a copy.       *)
AppendShared(c, a) ==
  /\ deps' = [deps EXCEPT ![c] = Append(@, a)]
  /\ sketch' = [sketch EXCEPT ![c] = IF state[c] \in Built THEN Append(@, a) ELSE @]

AppendTo(c, a) == deps' = [deps EXCEPT ![c] = Append(@, a)] /\ UNCHANGED sketch

(* A tool call of p adds its proof to what it finds in the ContextVar;     *)
(* anything but a Dependency or a StoredProof is a TypeError.              *)
Add(p, a) ==
  /\ Free(p)
  /\ adder[a] = None
  /\ current[p] # None
  /\ adder' = [adder EXCEPT ![a] = p]
  /\ \/ /\ given[a] # "other"
        /\ AppendTo(current[p], a)
        /\ target' = [target EXCEPT ![a] = current[p]]
        /\ late' = IF state[current[p]] = "active" THEN late ELSE late \cup {a}
     \/ /\ given[a] = "other"
        /\ UNCHANGED <<deps, sketch, target, late>>
  /\ UNCHANGED <<taskVars, contextVars, given, hash, published>>

(* Bug: the value before is forgotten.                                     *)
ResetToNone(p, c) == current' = [current EXCEPT ![p] = None]

(* _current_atp_task.reset(token)                                          *)
ResetCurrent(p, c) == current' = [current EXCEPT ![p] = token[c]]

(* __aexit__ and _commit up to the save: the body raised, or gave no       *)
(* response; no system is registered; or the sketch, its hash and the      *)
(* proof are built from the dependencies so far.                           *)
Exit(p, c) ==
  /\ Free(p)
  /\ Innermost(p, c)
  /\ ResetCurrent(p, c)
  /\ \/ /\ state' = [state EXCEPT ![c] = "ended"]
        /\ UNCHANGED <<sketch, hash>>
     \/ /\ c \in responded
        /\ state' = [state EXCEPT ![c] = "saving"]
        /\ sketch' = [sketch EXCEPT ![c] = deps[c]]
        /\ hash' = [hash EXCEPT ![c] = deps[c]]
  /\ UNCHANGED <<task, inherited, owner, token, responded, addVars, deps, published>>

Goes(c, from, to) == state[c] = from /\ state' = [state EXCEPT ![c] = to]

(* The save ends, and create_commit sends the sketch; or it fails.         *)
Saved(c) ==
  /\ \/ Goes(c, "saving", "committing") /\ published' = [published EXCEPT ![c] = sketch[c]]
     \/ Goes(c, "saving", "failed") /\ UNCHANGED published
  /\ UNCHANGED <<taskVars, owner, token, responded, addVars, deps, sketch, hash>>

Committed(c) ==
  /\ Goes(c, "committing", "committed") \/ Goes(c, "committing", "failed")
  /\ UNCHANGED <<taskVars, owner, token, responded, addVars, deps, sketchVars>>

Terminated == (\A p \in Tasks : task[p] # "running") /\ UNCHANGED vars

Next == \/ \E p, q \in Tasks : Spawn(p, q)
        \/ \E p \in Tasks : \/ End(p)
                            \/ \E c \in Contexts : Enter(p, c) \/ Exit(p, c)
                            \/ \E a \in Adds : Add(p, a)
        \/ \E c \in Contexts : SetResponse(c) \/ Saved(c) \/ Committed(c)
        \/ Terminated

Spec == Init /\ [][Next]_vars

-----------------------------------------------------------------------------
(* Whatever other tasks enter and leave, a task sees the innermost context *)
(* it is in, and outside all of them the one it was created with.          *)
CurrentIsInnermost ==
  \A p \in Tasks : task[p] = "running" =>
    \/ Open(p) = {} /\ current[p] = inherited[p]
    \/ Innermost(p, current[p])

(* A dependency ends up in a context of the task that added it, or in the  *)
(* one that task was created in: concurrent requests never mix.            *)
TasksDoNotMix ==
  \A c \in Contexts : \A a \in ToSet(deps[c]) :
    owner[c] = adder[a] \/ inherited[adder[a]] = c

(* What is committed are exactly the dependencies added to the context     *)
(* until it was left, and they are those its dependencies_hash covers,     *)
(* although the list they come from may grow while the proof is saved.     *)
CommitsItsDependencies ==
  \A c \in Contexts : state[c] \in {"committing", "committed"} =>
    /\ ToSet(published[c]) = {a \in Adds : target[a] = c /\ a \notin late}
    /\ published[c] = hash[c]
=============================================================================
