------------------------- MODULE TaskContextProofs --------------------------
(* For any number of asyncio tasks, contexts and tool calls: what a task   *)
(* sees as its context, and what ends up in the sketch that is committed.  *)
EXTENDS TaskContext, TLAPS

(* What appending does to the set of the items of a list.                  *)
LEMMA AppendAddsOne ==
  ASSUME NEW S, NEW list \in Seq(S), NEW a \in S
  PROVE  /\ Append(list, a) \in Seq(S)
         /\ ToSet(Append(list, a)) = ToSet(list) \cup {a}
  <1>1. /\ DOMAIN Append(list, a) = DOMAIN list \cup {Len(list) + 1}
        /\ Append(list, a)[Len(list) + 1] = a
        /\ \A i \in DOMAIN list : Append(list, a)[i] = list[i]
    OBVIOUS
  <1> QED
    BY <1>1 DEF ToSet

LEMMA EmptyHasNone == ToSet(<<>>) = {}
  BY DEF ToSet

-----------------------------------------------------------------------------
(* The types.                                                              *)
LEMMA InitTyped == Init => TypeOK
  BY TaskContextAssumption DEF Init, TypeOK

LEMMA NextTyped == TypeOK /\ [Next]_vars => TypeOK'
  <1> SUFFICES ASSUME TypeOK, [Next]_vars PROVE TypeOK'
    OBVIOUS
  <1> USE DEF TypeOK, taskVars, contextVars, addVars, sketchVars
  <1>1. ASSUME NEW p \in Tasks, NEW q \in Tasks, Spawn(p, q) PROVE TypeOK'
    BY <1>1 DEF Spawn
  <1>2. ASSUME NEW p \in Tasks, End(p) PROVE TypeOK'
    BY <1>2 DEF End
  <1>3. ASSUME NEW p \in Tasks, NEW c \in Contexts, Enter(p, c) PROVE TypeOK'
    BY <1>3 DEF Enter, SetCurrent
  <1>4. ASSUME NEW p \in Tasks, NEW c \in Contexts, Exit(p, c) PROVE TypeOK'
    <2>1. /\ state'[c] \in {"ended", "saving"} /\ state' = [state EXCEPT ![c] = state'[c]]
          /\ current' = [current EXCEPT ![p] = token[c]]
          /\ UNCHANGED <<task, inherited, owner, token, responded, addVars, deps, published>>
      BY <1>4 DEF Exit, ResetCurrent
    <2>2. sketch' \in [Contexts -> Seq(Adds)] /\ hash' \in [Contexts -> Seq(Adds)]
      BY <1>4 DEF Exit
    <2>3. state' \in [Contexts -> {"new", "active", "ended"} \cup Built]
      BY <2>1 DEF Built
    <2> QED
      BY <2>1, <2>2, <2>3
  <1>5. ASSUME NEW p \in Tasks, NEW a \in Adds, Add(p, a) PROVE TypeOK'
    <2>1. current[p] \in Contexts
      BY <1>5 DEF Add
    <2>2. Append(deps[current[p]], a) \in Seq(Adds)
      BY <2>1, AppendAddsOne
    <2> QED
      BY <1>5, <2>1, <2>2 DEF Add, AppendTo
  <1>6. ASSUME NEW c \in Contexts, SetResponse(c) PROVE TypeOK'
    BY <1>6 DEF SetResponse
  <1>7. ASSUME NEW c \in Contexts, Saved(c) PROVE TypeOK'
    <2>1. published' \in [Contexts -> Seq(Adds)]
      BY <1>7 DEF Saved
    <2>2. state' \in [Contexts -> {"new", "active", "ended"} \cup Built]
      BY <1>7 DEF Saved, Goes, Built
    <2> QED
      BY <1>7, <2>1, <2>2 DEF Saved
  <1>8. ASSUME NEW c \in Contexts, Committed(c) PROVE TypeOK'
    BY <1>8 DEF Committed, Goes, Built
  <1>9. CASE UNCHANGED vars
    BY <1>9 DEF vars
  <1> QED
    BY <1>1, <1>2, <1>3, <1>4, <1>5, <1>6, <1>7, <1>8, <1>9 DEF Next, Terminated

(* Every variable of the context keeps its type.                           *)
THEOREM TypeCorrect == Spec => []TypeOK
  BY InitTyped, NextTyped, PTL DEF Spec

-----------------------------------------------------------------------------
(* The contexts a task is in form a stack: f lists them from the outermost *)
(* to the innermost, each with the one before as its token, and the task   *)
(* sees the last.                                                          *)
IsStack(p, n, f) ==
  /\ Open(p) = {f[i] : i \in 1..n}
  /\ \A i, j \in 1..n : f[i] = f[j] => i = j
  /\ \A i \in 1..n : token[f[i]] = IF i = 1 THEN inherited[p] ELSE f[i - 1]
  /\ current[p] = IF n = 0 THEN inherited[p] ELSE f[n]

Stacked(p) ==
  /\ \E n \in Nat : \E f \in [1..n -> Contexts] : IsStack(p, n, f)
  /\ inherited[p] \notin Open(p)

(* Nobody sees or remembers a context before it is entered, and a task     *)
(* owns and adds nothing before it is created.                             *)
Known ==
  /\ \A p \in Tasks : /\ current[p] # None => state[current[p]] # "new"
                      /\ inherited[p] # None => state[inherited[p]] # "new"
  /\ \A c \in Contexts : /\ token[c] # None => state[token[c]] # "new"
                         /\ state[c] = "new" => owner[c] = None
                         /\ owner[c] # None => task[owner[c]] # "unborn"
  /\ \A a \in Adds : adder[a] # None => task[adder[a]] # "unborn"

StackInv == Known /\ \A p \in Tasks : Stacked(p)

LEMMA InitStack == TypeOK /\ Init => StackInv
  <1> SUFFICES ASSUME TypeOK, Init PROVE StackInv
    OBVIOUS
  <1>1. Known
    BY DEF Init, Known
  <1>2. ASSUME NEW p \in Tasks PROVE Stacked(p)
    <2>1. Open(p) = {}
      BY DEF Init, Open
    <2> DEFINE f == [i \in 1..0 |-> None]
    <2>2. f \in [1..0 -> Contexts] /\ IsStack(p, 0, f)
      BY <2>1 DEF Init, IsStack
    <2> QED
      BY <2>1, <2>2 DEF Stacked
  <1> QED
    BY <1>1, <1>2 DEF StackInv

LEMMA KnownKept == TypeOK /\ Known /\ [Next]_vars => Known'
  <1> SUFFICES ASSUME TypeOK, Known, [Next]_vars PROVE Known'
    OBVIOUS
  <1> USE TaskContextAssumption
          DEF TypeOK, Known, taskVars, contextVars, addVars, sketchVars
  <1>1. ASSUME NEW p \in Tasks, NEW q \in Tasks, Spawn(p, q) PROVE Known'
    BY <1>1 DEF Spawn, Free
  <1>2. ASSUME NEW p \in Tasks, End(p) PROVE Known'
    BY <1>2 DEF End
  <1>3. ASSUME NEW p \in Tasks, NEW c \in Contexts, Enter(p, c) PROVE Known'
    BY <1>3 DEF Enter, SetCurrent, Free
  <1>4. ASSUME NEW p \in Tasks, NEW c \in Contexts, Exit(p, c) PROVE Known'
    BY <1>4 DEF Exit, ResetCurrent
  <1>5. ASSUME NEW p \in Tasks, NEW a \in Adds, Add(p, a) PROVE Known'
    BY <1>5 DEF Add, Free
  <1>6. ASSUME NEW c \in Contexts, SetResponse(c) PROVE Known'
    BY <1>6 DEF SetResponse
  <1>7. ASSUME NEW c \in Contexts, Saved(c) PROVE Known'
    BY <1>7 DEF Saved, Goes
  <1>8. ASSUME NEW c \in Contexts, Committed(c) PROVE Known'
    BY <1>8 DEF Committed, Goes
  <1>9. CASE UNCHANGED vars
    BY <1>9 DEF vars
  <1> QED
    BY <1>1, <1>2, <1>3, <1>4, <1>5, <1>6, <1>7, <1>8, <1>9 DEF Next, Terminated

(* A task whose contexts and view stay as they are keeps its stack.        *)
LEMMA FrameStacked ==
  ASSUME NEW p \in Tasks, Stacked(p), Open(p)' = Open(p),
         current'[p] = current[p], inherited'[p] = inherited[p],
         \A c \in Open(p) : token'[c] = token[c]
  PROVE  Stacked(p)'
  <1>0. PICK n \in Nat : \E f \in [1..n -> Contexts] : IsStack(p, n, f)
    BY Zenon DEF Stacked
  <1>1. PICK f \in [1..n -> Contexts] : IsStack(p, n, f)
    BY Zenon, <1>0
  <1>2. IsStack(p, n, f)'
    BY <1>1 DEF IsStack
  <1> QED
    BY <1>1, <1>2 DEF Stacked

(* Entering puts a context on top of the stack.                            *)
LEMMA EnterStacks ==
  ASSUME TypeOK, Known, NEW p \in Tasks, NEW c \in Contexts, Stacked(p), Enter(p, c)
  PROVE  Stacked(p)'
  <1>0. PICK n \in Nat : \E f \in [1..n -> Contexts] : IsStack(p, n, f)
    BY Zenon DEF Stacked
  <1>1. PICK f \in [1..n -> Contexts] : IsStack(p, n, f)
    BY Zenon, <1>0
  <1> DEFINE g == [i \in 1..(n + 1) |-> IF i = n + 1 THEN c ELSE f[i]]
  <1>2. /\ c \notin Open(p)
        /\ Open(p)' = Open(p) \cup {c}
        /\ token' = [token EXCEPT ![c] = current[p]]
        /\ current'[p] = c
        /\ inherited' = inherited
    BY DEF TypeOK, Open, Enter, SetCurrent
  <1>3. inherited[p] # c
    BY TaskContextAssumption DEF Known, Enter
  <1>4. /\ \A i \in 1..n : f[i] # c /\ g[i] = f[i]
        /\ g[n + 1] = c
        /\ g \in [1..(n + 1) -> Contexts]
    BY <1>1, <1>2 DEF IsStack
  <1> HIDE DEF g
  <1>5. Open(p)' = {g[i] : i \in 1..(n + 1)}
    <2>1. Open(p)' = {f[i] : i \in 1..n} \cup {c}
      BY <1>1, <1>2 DEF IsStack
    <2>2. \A i \in 1..(n + 1) : i \in 1..n \/ i = n + 1
      OBVIOUS
    <2>3. n + 1 \in 1..(n + 1) /\ \A i \in 1..n : i \in 1..(n + 1)
      OBVIOUS
    <2> QED
      BY <1>4, <2>1, <2>2, <2>3
  <1>6. \A i, j \in 1..(n + 1) : g[i] = g[j] => i = j
    BY <1>1, <1>4 DEF IsStack
  <1>7. ASSUME NEW i \in 1..(n + 1)
        PROVE  token'[g[i]] = IF i = 1 THEN inherited[p] ELSE g[i - 1]
    <2>1. CASE i = n + 1
      BY <2>1, <1>1, <1>2, <1>4 DEF IsStack, TypeOK
    <2>2. CASE i \in 1..n
      <3>1. g[i] = f[i] /\ f[i] \in Contexts /\ token'[f[i]] = token[f[i]]
        BY <2>2, <1>2, <1>4 DEF TypeOK
      <3>2. token[f[i]] = IF i = 1 THEN inherited[p] ELSE f[i - 1]
        BY <2>2, <1>1 DEF IsStack
      <3>3. i # 1 => g[i - 1] = f[i - 1]
        BY <2>2, <1>4
      <3> QED
        BY <3>1, <3>2, <3>3
    <2> QED
      BY <2>1, <2>2
  <1>8. IsStack(p, n + 1, g)'
    BY <1>2, <1>4, <1>5, <1>6, <1>7 DEF IsStack
  <1> QED
    BY <1>2, <1>3, <1>4, <1>8 DEF Stacked

(* Leaving takes the innermost context, which is the last of the stack.    *)
LEMMA ExitUnstacks ==
  ASSUME TypeOK, NEW p \in Tasks, NEW c \in Contexts, Stacked(p), Exit(p, c)
  PROVE  Stacked(p)'
  <1>0. PICK n \in Nat : \E f \in [1..n -> Contexts] : IsStack(p, n, f)
    BY Zenon DEF Stacked
  <1>1. PICK f \in [1..n -> Contexts] : IsStack(p, n, f)
    BY Zenon, <1>0
  <1>2. c \in Open(p) /\ \A d \in Open(p) : token[d] # c
    BY DEF Exit, Innermost
  <1>3. PICK k \in 1..n : c = f[k]
    BY <1>1, <1>2 DEF IsStack
  <1>4. k = n
    <2>1. ASSUME k < n PROVE FALSE
      <3>1. k + 1 \in 1..n /\ k + 1 # 1 /\ (k + 1) - 1 = k
        BY <2>1
      <3>2. token[f[k + 1]] = c /\ f[k + 1] \in Open(p)
        BY <3>1, <1>1, <1>3 DEF IsStack
      <3> QED
        BY <3>2, <1>2
    <2> QED
      BY <2>1
  <1> DEFINE g == [i \in 1..(n - 1) |-> f[i]]
  <1>5. /\ Open(p)' = Open(p) \ {c}
        /\ token' = token /\ inherited' = inherited
        /\ current'[p] = token[c]
    BY DEF TypeOK, Open, Exit, ResetCurrent
  <1>6. n - 1 \in Nat /\ g \in [1..(n - 1) -> Contexts] /\ \A i \in 1..(n - 1) : g[i] = f[i] /\ i \in 1..n
    BY <1>3
  <1>7. Open(p)' = {g[i] : i \in 1..(n - 1)}
    BY <1>1, <1>3, <1>4, <1>5, <1>6 DEF IsStack
  <1>8. \A i, j \in 1..(n - 1) : g[i] = g[j] => i = j
    BY <1>1, <1>6 DEF IsStack
  <1>9. \A i \in 1..(n - 1) : token'[g[i]] = IF i = 1 THEN inherited[p] ELSE g[i - 1]
    BY <1>1, <1>5, <1>6 DEF IsStack
  <1>10. current'[p] = IF n - 1 = 0 THEN inherited[p] ELSE g[n - 1]
    BY <1>1, <1>3, <1>4, <1>5, <1>6 DEF IsStack
  <1>11. IsStack(p, n - 1, g)'
    BY <1>5, <1>7, <1>8, <1>9, <1>10 DEF IsStack
  <1> QED
    BY <1>5, <1>6, <1>11 DEF Stacked

LEMMA StackKept == TypeOK /\ StackInv /\ [Next]_vars => StackInv'
  <1> SUFFICES ASSUME TypeOK, StackInv, [Next]_vars, NEW r \in Tasks PROVE Stacked(r)'
    BY KnownKept DEF StackInv
  <1> USE DEF TypeOK, taskVars, contextVars, addVars, sketchVars
  <1>0. Stacked(r) /\ Known
    BY DEF StackInv
  <1>f. ASSUME Open(r)' = Open(r), current'[r] = current[r], inherited'[r] = inherited[r],
               \A c \in Open(r) : token'[c] = token[c]
        PROVE  Stacked(r)'
    BY <1>f, <1>0, FrameStacked
  <1>1. ASSUME NEW p \in Tasks, NEW q \in Tasks, Spawn(p, q) PROVE Stacked(r)'
    <2>1. CASE r = q
      <3>0. /\ task[r] = "unborn" /\ UNCHANGED <<state, owner>>
            /\ current' = [current EXCEPT ![r] = current[p]]
            /\ inherited' = [inherited EXCEPT ![r] = current[p]]
        BY <1>1, <2>1 DEF Spawn
      <3>1. Open(r)' = {} /\ current'[r] = inherited'[r]
        BY <1>0, <3>0, TaskContextAssumption DEF Open, Known
      <3> DEFINE f == [i \in 1..0 |-> None]
      <3>2. f \in [1..0 -> Contexts] /\ IsStack(r, 0, f)'
        BY <3>1 DEF IsStack
      <3> QED
        BY <3>1, <3>2 DEF Stacked
    <2>2. CASE r # q
      BY <1>1, <1>f, <2>2 DEF Spawn, Open
    <2> QED
      BY <2>1, <2>2
  <1>2. ASSUME NEW p \in Tasks, End(p) PROVE Stacked(r)'
    BY <1>2, <1>f DEF End, Open
  <1>3. ASSUME NEW p \in Tasks, NEW c \in Contexts, Enter(p, c) PROVE Stacked(r)'
    <2>1. CASE r = p
      BY <1>3, <1>0, <2>1, EnterStacks
    <2>2. CASE r # p
      BY <1>3, <1>f, <2>2 DEF Enter, SetCurrent, Open
    <2> QED
      BY <2>1, <2>2
  <1>4. ASSUME NEW p \in Tasks, NEW c \in Contexts, Exit(p, c) PROVE Stacked(r)'
    <2>1. CASE r = p
      BY <1>4, <1>0, <2>1, ExitUnstacks
    <2>2. CASE r # p
      <3>1. owner[c] = p
        BY <1>4 DEF Exit, Innermost, Open
      <3>2. UNCHANGED <<owner, token, inherited>> /\ current'[r] = current[r]
        BY <1>4, <2>2 DEF Exit, ResetCurrent
      <3>3. Open(r)' = Open(r)
        BY <1>4, <2>2, <3>1, <3>2 DEF Exit, Open
      <3> QED
        BY <1>f, <3>2, <3>3
    <2> QED
      BY <2>1, <2>2
  <1>5. ASSUME NEW p \in Tasks, NEW a \in Adds, Add(p, a) PROVE Stacked(r)'
    BY <1>5, <1>f DEF Add, Open
  <1>6. ASSUME NEW c \in Contexts, SetResponse(c) PROVE Stacked(r)'
    BY <1>6, <1>f DEF SetResponse, Open
  <1>7. ASSUME NEW c \in Contexts, Saved(c) PROVE Stacked(r)'
    BY <1>7, <1>f DEF Saved, Goes, Open
  <1>8. ASSUME NEW c \in Contexts, Committed(c) PROVE Stacked(r)'
    BY <1>8, <1>f DEF Committed, Goes, Open
  <1>9. CASE UNCHANGED vars
    BY <1>9, <1>f DEF vars, Open
  <1> QED
    BY <1>1, <1>2, <1>3, <1>4, <1>5, <1>6, <1>7, <1>8, <1>9 DEF Next, Terminated

LEMMA StackShows == StackInv => CurrentIsInnermost
  <1> SUFFICES ASSUME StackInv, NEW p \in Tasks
               PROVE  \/ Open(p) = {} /\ current[p] = inherited[p]
                      \/ Innermost(p, current[p])
    BY DEF CurrentIsInnermost
  <1>0. PICK n \in Nat : \E f \in [1..n -> Contexts] : IsStack(p, n, f)
    BY Zenon DEF StackInv, Stacked
  <1>1. PICK f \in [1..n -> Contexts] : IsStack(p, n, f)
    BY Zenon, <1>0
  <1>2. CASE n = 0
    BY <1>1, <1>2 DEF IsStack
  <1>3. CASE n # 0
    <2>1. current[p] = f[n] /\ f[n] \in Open(p)
      BY <1>1, <1>3 DEF IsStack
    <2>2. ASSUME NEW d \in Open(p) PROVE token[d] # f[n]
      <3>1. PICK i \in 1..n : d = f[i]
        BY <1>1 DEF IsStack
      <3>2. CASE i = 1
        BY <1>1, <2>1, <3>1, <3>2 DEF IsStack, StackInv, Stacked
      <3>3. CASE i # 1
        BY <1>1, <1>3, <3>1, <3>3 DEF IsStack
      <3> QED
        BY <3>2, <3>3
    <2> QED
      BY <2>1, <2>2 DEF Innermost
  <1> QED
    BY <1>2, <1>3

(* Whatever the other tasks do, a task sees the innermost context it is in *)
(* and outside all of them the one it was created with: the tokens of the  *)
(* contexts it is in link them into a stack.                               *)
THEOREM SeesTheInnermost == Spec => []CurrentIsInnermost
  BY InitTyped, NextTyped, InitStack, StackKept, StackShows, PTL DEF Spec

-----------------------------------------------------------------------------
(* A context that p sees, or restores on leaving, is its own or the one it *)
(* was created with; what it then adds is listed, or late, under it.       *)
Sees(p, c) == c = None \/ owner[c] = p \/ inherited[p] = c

OnTime(c) == {a \in Adds : target[a] = c /\ a \notin late}

SeesOwn == /\ \A p \in Tasks : Sees(p, current[p])
           /\ \A c \in Contexts : owner[c] # None => Sees(owner[c], token[c])

ListsOwn ==
  \A c \in Contexts :
    /\ \A a \in ToSet(deps[c]) : adder[a] # None /\ Sees(adder[a], c)
    /\ state[c] = "new" => deps[c] = <<>>

Lists ==
  /\ \A a \in Adds : adder[a] = None => target[a] = None /\ a \notin late
  /\ \A c \in Contexts :
       /\ state[c] \in {"new", "active"} => /\ ToSet(deps[c]) = OnTime(c)
                                            /\ \A a \in late : target[a] # c
       /\ state[c] \in {"saving", "committing", "committed"} => ToSet(sketch[c]) = OnTime(c)
       /\ state[c] \in {"committing", "committed"} => published[c] = sketch[c]

(* The sketch holds what its dependencies_hash was made from.              *)
SketchMatchesHash == \A c \in Contexts : sketch[c] = hash[c]

LEMMA InitAdds == TypeOK /\ Init => SeesOwn /\ ListsOwn /\ Lists /\ SketchMatchesHash
  BY EmptyHasNone, TaskContextAssumption
     DEF Init, SeesOwn, ListsOwn, Lists, SketchMatchesHash, Sees, OnTime

LEMMA SeesKept == TypeOK /\ Known /\ SeesOwn /\ [Next]_vars => SeesOwn'
  <1> SUFFICES ASSUME TypeOK, Known, SeesOwn, [Next]_vars PROVE SeesOwn'
    OBVIOUS
  <1> USE TaskContextAssumption
          DEF TypeOK, Known, SeesOwn, Sees, taskVars, contextVars, addVars, sketchVars
  <1>1. ASSUME NEW p \in Tasks, NEW q \in Tasks, Spawn(p, q) PROVE SeesOwn'
    BY <1>1 DEF Spawn
  <1>2. ASSUME NEW p \in Tasks, End(p) PROVE SeesOwn'
    BY <1>2 DEF End
  <1>3. ASSUME NEW p \in Tasks, NEW c \in Contexts, Enter(p, c) PROVE SeesOwn'
    BY <1>3 DEF Enter, SetCurrent
  <1>4. ASSUME NEW p \in Tasks, NEW c \in Contexts, Exit(p, c) PROVE SeesOwn'
    BY <1>4 DEF Exit, ResetCurrent, Innermost, Open
  <1>5. ASSUME NEW p \in Tasks, NEW a \in Adds, Add(p, a) PROVE SeesOwn'
    BY <1>5 DEF Add
  <1>6. ASSUME NEW c \in Contexts, SetResponse(c) PROVE SeesOwn'
    BY <1>6 DEF SetResponse
  <1>7. ASSUME NEW c \in Contexts, Saved(c) PROVE SeesOwn'
    BY <1>7 DEF Saved
  <1>8. ASSUME NEW c \in Contexts, Committed(c) PROVE SeesOwn'
    BY <1>8 DEF Committed
  <1>9. CASE UNCHANGED vars
    BY <1>9 DEF vars
  <1> QED
    BY <1>1, <1>2, <1>3, <1>4, <1>5, <1>6, <1>7, <1>8, <1>9 DEF Next, Terminated

(* What appending a does to the list of c, and to any other.               *)
Added(c, a, here) ==
  /\ here => ToSet(deps'[c]) = ToSet(deps[c]) \cup {a}
  /\ ~here => ToSet(deps'[c]) = ToSet(deps[c])

(* What Add makes of the lists, for the two lemmas after it.               *)
LEMMA AddLists ==
  ASSUME TypeOK, Known, NEW p \in Tasks, NEW a \in Adds, Add(p, a)
  PROVE  /\ current[p] \in Contexts /\ state[current[p]] # "new"
         /\ adder[a] = None /\ adder' = [adder EXCEPT ![a] = p]
         /\ UNCHANGED <<state, owner, inherited, sketch, hash, published>>
         /\ \/ UNCHANGED <<deps, target, late>>
            \/ /\ \A c \in Contexts : Added(c, a, c = current[p])
               /\ \A c \in Contexts : state[c] = "new" => deps'[c] = deps[c]
               /\ target' = [target EXCEPT ![a] = current[p]]
               /\ late' = IF state[current[p]] = "active" THEN late ELSE late \cup {a}
  <1>1. current[p] \in Contexts /\ state[current[p]] # "new"
    BY DEF Add, Known, TypeOK
  <1>2. ToSet(Append(deps[current[p]], a)) = ToSet(deps[current[p]]) \cup {a}
    BY <1>1, AppendAddsOne DEF TypeOK
  <1>3. ASSUME AppendTo(current[p], a)
        PROVE  \A c \in Contexts :
                 /\ c = current[p] => deps'[c] = Append(deps[c], a)
                 /\ c # current[p] => deps'[c] = deps[c]
    BY <1>3 DEF AppendTo, TypeOK
  <1>4. ASSUME AppendTo(current[p], a)
        PROVE  /\ \A c \in Contexts : Added(c, a, c = current[p])
               /\ \A c \in Contexts : state[c] = "new" => deps'[c] = deps[c]
    BY <1>1, <1>2, <1>3, <1>4 DEF Added
  <1> QED
    BY <1>1, <1>4 DEF Add, AppendTo, contextVars, taskVars

LEMMA ListsOwnKept == TypeOK /\ Known /\ SeesOwn /\ ListsOwn /\ [Next]_vars => ListsOwn'
  <1> SUFFICES ASSUME TypeOK, Known, SeesOwn, ListsOwn, [Next]_vars PROVE ListsOwn'
    OBVIOUS
  <1> USE TaskContextAssumption, EmptyHasNone
          DEF TypeOK, Known, ListsOwn, Sees, taskVars, contextVars, addVars, sketchVars
  <1>a. ASSUME NEW c \in Contexts, NEW a \in ToSet(deps[c]) PROVE a \in Adds
    BY <1>a DEF ToSet
  <1>1. ASSUME NEW p \in Tasks, NEW q \in Tasks, Spawn(p, q) PROVE ListsOwn'
    BY <1>1, <1>a DEF Spawn
  <1>2. ASSUME NEW p \in Tasks, End(p) PROVE ListsOwn'
    BY <1>2 DEF End
  <1>3. ASSUME NEW p \in Tasks, NEW c \in Contexts, Enter(p, c) PROVE ListsOwn'
    BY <1>3 DEF Enter
  <1>4. ASSUME NEW p \in Tasks, NEW c \in Contexts, Exit(p, c) PROVE ListsOwn'
    BY <1>4 DEF Exit, Innermost, Open
  <1>5. ASSUME NEW p \in Tasks, NEW a \in Adds, Add(p, a) PROVE ListsOwn'
    <2>1. CASE UNCHANGED <<deps, target, late>>
      BY <1>5, <1>a, <2>1, AddLists
    <2>2. CASE \A c \in Contexts :
                 /\ Added(c, a, c = current[p])
                 /\ state[c] = "new" => deps'[c] = deps[c]
      <3>1. /\ current[p] \in Contexts /\ Sees(p, current[p]) /\ p # None
            /\ adder' = [adder EXCEPT ![a] = p] /\ adder[a] = None
            /\ UNCHANGED <<state, owner, inherited>>
        BY <1>5, AddLists DEF SeesOwn
      <3>2. ASSUME NEW c \in Contexts, NEW b \in ToSet(deps'[c])
            PROVE  adder'[b] # None /\ Sees(adder[b], c)'
        <4>1. CASE b \in ToSet(deps[c])
          BY <1>a, <3>1, <4>1
        <4>2. CASE b = a /\ c = current[p]
          BY <3>1, <4>2
        <4> QED
          BY <2>2, <3>2, <4>1, <4>2 DEF Added
      <3> QED
        BY <2>2, <3>1, <3>2
    <2> QED
      BY <1>5, <2>1, <2>2, AddLists
  <1>6. ASSUME NEW c \in Contexts, SetResponse(c) PROVE ListsOwn'
    BY <1>6 DEF SetResponse
  <1>7. ASSUME NEW c \in Contexts, Saved(c) PROVE ListsOwn'
    BY <1>7 DEF Saved, Goes
  <1>8. ASSUME NEW c \in Contexts, Committed(c) PROVE ListsOwn'
    BY <1>8 DEF Committed, Goes
  <1>9. CASE UNCHANGED vars
    BY <1>9 DEF vars
  <1> QED
    BY <1>1, <1>2, <1>3, <1>4, <1>5, <1>6, <1>7, <1>8, <1>9 DEF Next, Terminated

LEMMA ListsKept ==
  TypeOK /\ Known /\ Lists /\ SketchMatchesHash /\ [Next]_vars
    => Lists' /\ SketchMatchesHash'
  <1> SUFFICES ASSUME TypeOK, Known, Lists, SketchMatchesHash, [Next]_vars
               PROVE  Lists' /\ SketchMatchesHash'
    OBVIOUS
  <1> USE TaskContextAssumption
          DEF TypeOK, Lists, SketchMatchesHash, OnTime,
              taskVars, contextVars, addVars, sketchVars
  <1>1. ASSUME NEW p \in Tasks, NEW q \in Tasks, Spawn(p, q) PROVE Lists' /\ SketchMatchesHash'
    BY <1>1 DEF Spawn
  <1>2. ASSUME NEW p \in Tasks, End(p) PROVE Lists' /\ SketchMatchesHash'
    BY <1>2 DEF End
  <1>3. ASSUME NEW p \in Tasks, NEW c \in Contexts, Enter(p, c)
        PROVE  Lists' /\ SketchMatchesHash'
    BY <1>3 DEF Enter
  <1>4. ASSUME NEW p \in Tasks, NEW c \in Contexts, Exit(p, c)
        PROVE  Lists' /\ SketchMatchesHash'
    <2>1. state[c] = "active" /\ UNCHANGED <<adder, target, late, deps, published>>
      BY <1>4 DEF Exit, Innermost, Open
    <2>2. CASE state' = [state EXCEPT ![c] = "ended"] /\ UNCHANGED <<sketch, hash>>
      BY <2>1, <2>2
    <2>3. CASE /\ state' = [state EXCEPT ![c] = "saving"]
               /\ sketch' = [sketch EXCEPT ![c] = deps[c]]
               /\ hash' = [hash EXCEPT ![c] = deps[c]]
      BY <2>1, <2>3
    <2> QED
      BY <1>4, <2>2, <2>3 DEF Exit
  <1>5. ASSUME NEW p \in Tasks, NEW a \in Adds, Add(p, a) PROVE Lists' /\ SketchMatchesHash'
    <2>1. SketchMatchesHash'
      BY <1>5, AddLists
    <2>2. /\ current[p] \in Contexts /\ state[current[p]] # "new" /\ p # None
          /\ target[a] = None /\ a \notin late
          /\ adder' = [adder EXCEPT ![a] = p]
          /\ UNCHANGED <<state, sketch, published>>
      BY <1>5, AddLists
    <2>3. CASE UNCHANGED <<deps, target, late>>
      BY <2>1, <2>2, <2>3
    <2>4. CASE /\ \A c \in Contexts : Added(c, a, c = current[p])
               /\ target' = [target EXCEPT ![a] = current[p]]
               /\ late' = IF state[current[p]] = "active" THEN late ELSE late \cup {a}
      <3>1. \A c \in Contexts : c # current[p] => OnTime(c)' = OnTime(c)
        BY <2>2, <2>4
      <3>2. \A c \in Contexts : c = current[p] =>
              OnTime(c)' = IF state[c] = "active" THEN OnTime(c) \cup {a} ELSE OnTime(c)
        BY <2>2, <2>4
      <3>3. \A b \in Adds : adder'[b] = None => target'[b] = None /\ b \notin late'
        BY <2>2, <2>4
      <3>4. \A c \in Contexts : state[c] \in {"new", "active"} => \A b \in late' : target'[b] # c
        BY <2>2, <2>4
      <3> HIDE DEF OnTime, SketchMatchesHash
      <3>5. ASSUME NEW c \in Contexts
            PROVE  /\ state[c] \in {"new", "active"} => ToSet(deps'[c]) = OnTime(c)'
                   /\ state[c] \in {"saving", "committing", "committed"} => OnTime(c)' = OnTime(c)
        <4>1. CASE c = current[p]
          BY <2>2, <2>4, <3>2, <4>1 DEF Added
        <4>2. CASE c # current[p]
          BY <2>4, <3>1, <4>2 DEF Added
        <4> QED
          BY <4>1, <4>2
      <3>6. Lists'
        BY <2>2, <3>3, <3>4, <3>5
      <3> QED
        BY <2>1, <3>6
    <2> QED
      BY <1>5, <2>3, <2>4, AddLists
  <1>6. ASSUME NEW c \in Contexts, SetResponse(c) PROVE Lists' /\ SketchMatchesHash'
    BY <1>6 DEF SetResponse
  <1>7. ASSUME NEW c \in Contexts, Saved(c) PROVE Lists' /\ SketchMatchesHash'
    BY <1>7 DEF Saved, Goes
  <1>8. ASSUME NEW c \in Contexts, Committed(c) PROVE Lists' /\ SketchMatchesHash'
    BY <1>8 DEF Committed, Goes
  <1>9. CASE UNCHANGED vars
    BY <1>9 DEF vars
  <1> QED
    BY <1>1, <1>2, <1>3, <1>4, <1>5, <1>6, <1>7, <1>8, <1>9 DEF Next, Terminated

(* Concurrent requests never mix: what ends up in a context was added by   *)
(* its owner or by a task created inside it.                               *)
THEOREM RequestsStayApart == Spec => []TasksDoNotMix
  <1>1. TypeOK /\ ListsOwn => TasksDoNotMix
    <2> SUFFICES ASSUME TypeOK, ListsOwn, NEW c \in Contexts, NEW a \in ToSet(deps[c])
                 PROVE  owner[c] = adder[a] \/ inherited[adder[a]] = c
      BY DEF TasksDoNotMix
    <2> QED
      BY TaskContextAssumption DEF ListsOwn, Sees
  <1> QED
    BY <1>1, InitTyped, NextTyped, InitStack, KnownKept, InitAdds, SeesKept, ListsOwnKept,
       PTL DEF Spec, StackInv

(* The sketch the Exchange receives holds exactly what was added to the    *)
(* context before it was left, nothing that came later, and what its       *)
(* dependencies_hash was made from.                                        *)
THEOREM CommitsWhatWasAdded == Spec => []CommitsItsDependencies
  <1>1. Lists /\ SketchMatchesHash => CommitsItsDependencies
    BY DEF Lists, OnTime, CommitsItsDependencies, SketchMatchesHash
  <1> QED
    BY <1>1, InitTyped, NextTyped, InitStack, KnownKept, InitAdds, ListsKept,
       PTL DEF Spec, StackInv
=============================================================================
