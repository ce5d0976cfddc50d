------------------------- MODULE PreChallengeProofs -------------------------
(* For any number of overlapping requests of any length: the dependencies  *)
(* of a request are listed in their order, and none that can be challenged *)
(* is left out.                                                            *)
EXTENDS ContextMC, TaskContextProofs, TLAPS

(* What pre_challenge_dependencies is given is a sequence.                 *)
LEMMA ItemsAreSequences ==
  ASSUME NEW s \in BoundedSeq(ItemKinds, MaxItems)
  PROVE  s \in Seq(ItemKinds) /\ Len(s) \in 0..MaxItems
<1>1. PICK m \in 0..MaxItems : s \in [1..m -> ItemKinds]
  BY DEF BoundedSeq, SeqOf
<1>2. m \in Nat
  BY PreChallengeAssumption
<1> QED
  BY <1>1, <1>2

(* Where the loop of r is, and that it has judged exactly what it passed   *)
(* and could challenge.                                                    *)
Judged(r) ==
  /\ progress[r] = "challenging" => next[r] <= Len(items[r]) /\ Item(r) = "challengeable"
  /\ progress[r] = "done" => next[r] > Len(items[r])
  /\ progress[r] = "raised" => next[r] <= Len(items[r]) /\ Item(r) = "malformed"
  /\ \A i \in DOMAIN items[r] :
       verdict[r][i] # "none" <=> i < next[r] /\ items[r][i] = "challengeable"

(* What is listed of a request, its loop has passed.                       *)
Passed == \A j \in DOMAIN list : list[j][2] < next[list[j][1]]

PreChallengeInv == /\ PreChallengeTypeOK
                   /\ \A r \in Requests : Judged(r)
                   /\ Passed
                   /\ ListedInOrder

LEMMA PreChallengeInitInv == PreChallengeInit => PreChallengeInv
<1> SUFFICES ASSUME PreChallengeInit PROVE PreChallengeInv
  OBVIOUS
<1>1. 1 \in 1..MaxItems + 1
  BY PreChallengeAssumption
<1>2. PreChallengeTypeOK
  BY <1>1 DEF PreChallengeInit, PreChallengeTypeOK, Verdicts
<1>3. ASSUME NEW r \in Requests PROVE Judged(r)
  <2>1. items[r] \in Seq(ItemKinds) /\ Len(items[r]) \in 0..MaxItems
    BY ItemsAreSequences DEF PreChallengeInit
  <2>2. \A i \in DOMAIN items[r] : i \in Places /\ ~(i < 1)
    BY <2>1, PreChallengeAssumption DEF Places
  <2> QED
    BY <2>2 DEF PreChallengeInit, Judged
<1>4. Passed /\ ListedInOrder
  BY DEF PreChallengeInit, Passed, ListedInOrder
<1> QED
  BY <1>2, <1>3, <1>4 DEF PreChallengeInv

(* Places and lengths, for the steps.                                      *)
LEMMA PlaceFacts ==
  ASSUME PreChallengeTypeOK, NEW r \in Requests
  PROVE  /\ items[r] \in Seq(ItemKinds)
         /\ DOMAIN items[r] = 1..Len(items[r]) /\ DOMAIN items[r] \subseteq Places
         /\ Len(items[r]) \in Nat /\ next[r] \in Nat /\ MaxItems \in Nat
         /\ next[r] <= Len(items[r]) =>
              next[r] \in Places /\ next[r] + 1 \in 1..MaxItems + 1
BY ItemsAreSequences, PreChallengeAssumption DEF PreChallengeTypeOK, Places

(* A step of another request leaves r alone.                               *)
LEMMA OthersStay ==
  ASSUME NEW r \in Requests, Judged(r), items'[r] = items[r], next'[r] = next[r],
         progress'[r] = progress[r], verdict'[r] = verdict[r]
  PROVE  Judged(r)'
BY DEF Judged, Item

(* The steps that judge nothing.                                           *)
LEMMA QuietStep ==
  ASSUME PreChallengeInv, NEW r \in Requests, Malformed(r) \/ Skip(r) \/ Challenge(r) \/ Finish(r)
  PROVE  PreChallengeInv'
<1> USE DEF PreChallengeInv
<1>1. /\ UNCHANGED <<items, verdict, list>>
      /\ progress[r] = "loop"
      /\ \A q \in Requests : q # r => next'[q] = next[q] /\ progress'[q] = progress[q]
      /\ \/ next' = next
         \/ /\ next' = [next EXCEPT ![r] = @ + 1] /\ progress' = progress
            /\ next[r] <= Len(items[r]) /\ Item(r) # "challengeable"
  BY DEF Malformed, Skip, Challenge, Finish, LoopGoes, Advance, PreChallengeTypeOK
<1>2. PreChallengeTypeOK'
  <2>1. progress' \in [Requests -> {"loop", "challenging", "done", "raised"}]
    BY DEF Malformed, Skip, Challenge, Finish, LoopGoes, PreChallengeTypeOK
  <2>2. next' \in [Requests -> 1..MaxItems + 1]
    BY <1>1, PlaceFacts DEF PreChallengeTypeOK
  <2> QED
    BY <1>1, <2>1, <2>2 DEF PreChallengeTypeOK
<1>3. \A q \in Requests : next'[q] >= next[q] /\ next'[q] \in Nat /\ next[q] \in Nat
  BY <1>1, PlaceFacts DEF PreChallengeTypeOK
<1>4. Judged(r)'
  <2>1. CASE Malformed(r)
    BY <2>1, <1>1 DEF Malformed, LoopGoes, Judged, Item, PreChallengeTypeOK
  <2>2. CASE Challenge(r)
    BY <2>2, <1>1 DEF Challenge, LoopGoes, Judged, Item, PreChallengeTypeOK
  <2>3. CASE Finish(r)
    BY <2>3, <1>1 DEF Finish, LoopGoes, Judged, Item, PreChallengeTypeOK
  <2>4. CASE Skip(r)
    <3>1. /\ next'[r] = next[r] + 1 /\ progress'[r] = "loop"
          /\ Item(r) # "challengeable"
      BY <2>4, <1>1 DEF Skip, Advance, PreChallengeTypeOK
    <3>2. \A i \in DOMAIN items[r] : i < next[r] + 1 <=> i < next[r] \/ i = next[r]
      BY PlaceFacts
    <3> QED
      BY <1>1, <3>1, <3>2 DEF Judged, Item
  <2> QED
    BY <2>1, <2>2, <2>3, <2>4
<1>5. ASSUME NEW q \in Requests, q # r PROVE Judged(q)'
  BY <1>1, <1>5, OthersStay
<1>6. Passed' /\ ListedInOrder'
  <2>1. ASSUME NEW j \in DOMAIN list PROVE list[j][2] < next'[list[j][1]]
    <3>1. list[j] \in Requests \X Places
      BY DEF PreChallengeTypeOK, Pairs
    <3>2. list[j][1] \in Requests /\ list[j][2] \in Nat /\ list[j][2] < next[list[j][1]]
      BY <3>1 DEF Passed, Places
    <3> QED
      BY <1>3, <3>2
  <2> QED
    BY <1>1, <2>1 DEF Passed, ListedInOrder
<1> QED
  BY <1>2, <1>4, <1>5, <1>6

(* A challenge that was verified comes after what was listed before.       *)
LEMMA AnsweredStep ==
  ASSUME PreChallengeInv, NEW r \in Requests, Answered(r)
  PROVE  PreChallengeInv'
<1> USE DEF PreChallengeInv
<1> DEFINE n == next[r]
<1>1. progress[r] = "challenging" /\ n <= Len(items[r]) /\ items[r][n] = "challengeable"
  BY DEF Answered, Judged, Item
<1>2. /\ items' = items
      /\ next' = [next EXCEPT ![r] = n + 1]
      /\ progress' = [progress EXCEPT ![r] = "loop"]
  BY DEF Answered, GoOn, LoopGoes, Advance
<1>3. PICK v \in Verdicts \ {"none"} : verdict' = [verdict EXCEPT ![r][n] = v]
  BY DEF Answered, AppendVerified, NotVerified, Judge, Verdicts
<1>4. list' = Append(list, <<r, n>>) \/ list' = list
  BY DEF Answered, AppendVerified, NotVerified
<1>5. n \in Places /\ n \in Nat /\ n + 1 \in 1..MaxItems + 1
  BY <1>1, PlaceFacts
<1>6. PreChallengeTypeOK'
  <2>1. <<r, n>> \in Pairs
    BY <1>5 DEF Pairs
  <2>2. list' \in Seq(Pairs)
    <3>1. list \in Seq(Pairs)
      BY DEF PreChallengeTypeOK
    <3>2. Append(list, <<r, n>>) \in Seq(Pairs)
      BY <2>1, <3>1
    <3> QED
      BY <1>4, <3>1, <3>2
  <2>3. verdict' \in [Requests -> [Places -> Verdicts]]
    BY <1>3 DEF PreChallengeTypeOK
  <2>4. next' \in [Requests -> 1..MaxItems + 1]
    BY <1>2, <1>5 DEF PreChallengeTypeOK
  <2> QED
    BY <1>2, <2>2, <2>3, <2>4 DEF PreChallengeTypeOK
<1>7. Judged(r)'
  <2>1. \A i \in DOMAIN items[r] : i < n + 1 <=> i < n \/ i = n
    BY PlaceFacts
  <2>2. next'[r] = n + 1 /\ progress'[r] = "loop" /\ items'[r] = items[r]
    BY <1>2 DEF PreChallengeTypeOK
  <2>3. \A i \in Places : verdict'[r][i] = IF i = n THEN v ELSE verdict[r][i]
    BY <1>3 DEF PreChallengeTypeOK
  <2>4. DOMAIN items[r] \subseteq Places
    BY PlaceFacts
  <2>5. ASSUME NEW i \in DOMAIN items[r]
        PROVE  verdict'[r][i] # "none" <=> i < n + 1 /\ items[r][i] = "challengeable"
    <3>1. CASE i = n
      BY <1>1, <1>5, <2>3, <3>1
    <3>2. CASE i # n
      BY <2>1, <2>3, <2>4, <3>2 DEF Judged
    <3> QED
      BY <3>1, <3>2
  <2> QED
    BY <2>2, <2>5 DEF Judged
<1>8. ASSUME NEW q \in Requests, q # r PROVE Judged(q)'
  <2>1. /\ next'[q] = next[q] /\ progress'[q] = progress[q] /\ verdict'[q] = verdict[q]
        /\ items'[q] = items[q]
    BY <1>2, <1>3, <1>8 DEF PreChallengeTypeOK
  <2> QED
    BY <2>1, OthersStay
<1>9. ASSUME NEW j \in DOMAIN list
      PROVE  /\ list[j][1] \in Requests /\ list[j][2] \in Nat
             /\ list[j][2] < next[list[j][1]] /\ list[j][2] < next'[list[j][1]]
  <2>1. list[j] \in Requests \X Places
    BY DEF PreChallengeTypeOK, Pairs
  <2>2. list[j][1] \in Requests /\ list[j][2] \in Nat /\ list[j][2] < next[list[j][1]]
    BY <2>1 DEF Passed, Places
  <2>3. next'[list[j][1]] \in {next[list[j][1]], next[list[j][1]] + 1} /\ next[list[j][1]] \in Nat
    BY <1>2, <2>2, PlaceFacts DEF PreChallengeTypeOK
  <2> QED
    BY <2>2, <2>3
<1>10. CASE list' = list
  BY <1>6, <1>7, <1>8, <1>9, <1>10 DEF Passed, ListedInOrder
<1>11. CASE list' = Append(list, <<r, n>>)
  <2> DEFINE last == Len(list) + 1
  <2>1. /\ DOMAIN list' = DOMAIN list \cup {last} /\ list'[last] = <<r, n>>
        /\ \A j \in DOMAIN list : list'[j] = list[j] /\ j < last
        /\ DOMAIN list \subseteq Nat /\ last \in Nat
    BY <1>11 DEF PreChallengeTypeOK
  <2>2. Passed'
    BY <1>2, <1>5, <1>9, <2>1 DEF Passed, PreChallengeTypeOK
  <2>3. ASSUME NEW j \in DOMAIN list', NEW k \in DOMAIN list', j < k, list'[j][1] = list'[k][1]
        PROVE  list'[j][2] < list'[k][2]
    <3>1. j \in DOMAIN list
      BY <2>1, <2>3
    <3>2. CASE k \in DOMAIN list
      BY <2>1, <2>3, <3>1, <3>2 DEF ListedInOrder
    <3>3. CASE k = last
      <4>1. list[j][1] = r /\ list'[k][2] = n
        BY <2>1, <2>3, <3>1, <3>3
      <4> QED
        BY <1>9, <2>1, <3>1, <4>1
    <3> QED
      BY <2>1, <3>2, <3>3
  <2>4. ListedInOrder'
    BY <2>3 DEF ListedInOrder
  <2> QED
    BY <1>6, <1>7, <1>8, <2>2, <2>4
<1> QED
  BY <1>4, <1>10, <1>11

(* The inductive invariant of the loop over the dependencies of a request. *)
THEOREM PreChallengeInvariance == PreChallengeSpec => []PreChallengeInv
<1>1. PreChallengeInv /\ [PreChallengeNext]_preChallengeVars => PreChallengeInv'
  <2>1. ASSUME PreChallengeInv, UNCHANGED preChallengeVars PROVE PreChallengeInv'
    BY <2>1 DEF PreChallengeInv, preChallengeVars, PreChallengeTypeOK, Judged, Item, Passed, ListedInOrder
  <2> QED
    BY <2>1, QuietStep, AnsweredStep DEF PreChallengeNext, AllReturned
<1> QED
  BY PreChallengeInitInv, <1>1, PTL DEF PreChallengeSpec

(* However many requests append to the list between each other's awaits,   *)
(* each finds its own dependencies there once and in its order.            *)
THEOREM ListIsOrdered == PreChallengeSpec => []ListedInOrder
<1>1. PreChallengeInv => ListedInOrder
  BY DEF PreChallengeInv
<1> QED
  BY <1>1, PreChallengeInvariance, PTL

(* When the call returns, everything that could be challenged was; when it *)
(* raised, everything before the malformed dependency it raised for.       *)
THEOREM NothingIsSkipped == PreChallengeSpec => []AllAreChallenged
<1>1. PreChallengeInv => AllAreChallenged
  <2> SUFFICES ASSUME PreChallengeInv, NEW r \in Requests, progress[r] \in {"done", "raised"}
               PROVE  /\ \A i \in DOMAIN items[r] :
                           verdict[r][i] # "none" <=> i < next[r] /\ items[r][i] = "challengeable"
                      /\ next[r] <= Len(items[r]) => Item(r) = "malformed"
    BY DEF AllAreChallenged
  <2>1. Judged(r)
    BY DEF PreChallengeInv
  <2>2. Len(items[r]) \in Nat /\ next[r] \in Nat
    BY PlaceFacts DEF PreChallengeInv
  <2> QED
    BY <2>1, <2>2 DEF Judged
<1> QED
  BY <1>1, PreChallengeInvariance, PTL

-----------------------------------------------------------------------------
(* The agent that the run explores, whose requests bring dependencies      *)
(* beside those its tool calls add, behaves as each part does alone.       *)
THEOREM BothWays == ContextSpec => Spec /\ PreChallengeSpec
<1>1. ContextInit => Init /\ PreChallengeInit
  BY DEF ContextInit
<1>2. ASSUME [ContextNext]_<<part, vars, preChallengeVars>>
      PROVE  [Next]_vars /\ [PreChallengeNext]_preChallengeVars
  <2>1. CASE UNCHANGED <<part, vars, preChallengeVars>>
    BY <2>1
  <2>2. CASE Next /\ UNCHANGED preChallengeVars
    BY <2>2
  <2>3. CASE PreChallengeNext /\ UNCHANGED vars
    BY <2>3
  <2> QED
    BY <1>2, <2>1, <2>2, <2>3 DEF ContextNext
<1> QED
  BY <1>1, <1>2, PTL DEF ContextSpec, Spec, PreChallengeSpec

(* Every variable of the contexts and of the requests has its type.        *)
THEOREM ContextTyped == ContextSpec => []ContextTypeOK
<1>1. TypeOK /\ PreChallengeInv => ContextTypeOK
  BY DEF ContextTypeOK, PreChallengeInv
<1> QED
  BY <1>1, BothWays, TypeCorrect, PreChallengeInvariance, PTL

(* No dependency is lost, mixed up or out of order, however it comes.      *)
THEOREM DependenciesArrive ==
  ContextSpec => /\ [](CurrentIsInnermost /\ TasksDoNotMix /\ CommitsItsDependencies)
                 /\ [](ListedInOrder /\ AllAreChallenged)
BY BothWays, SeesTheInnermost, RequestsStayApart, CommitsWhatWasAdded, ListIsOrdered,
   NothingIsSkipped, PTL
=============================================================================
