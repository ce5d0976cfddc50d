-------------------------- MODULE HttpClientProofs --------------------------
(* For any number of requests, sessions, calls of close() and event loops: *)
(* requests stay in the event loop of their client, a close() that has     *)
(* returned breaks no later request, a single one leaks no client, and the *)
(* methods raise what they say.  At the end the two halves of ATPClient    *)
(* are put together.                                                       *)
EXTENDS ClientMC, RegistrationProofs, TLAPS

(* The client of _client_loop was made there; loops are never run again.   *)
Owned == /\ client_loop <= loop
         /\ http_client # 0 /\ client_loop = loop => owner[http_client] = loop

SomebodyLeft == \/ \E s \in Sessions : session[s] \in {"leaving", "left"}
                \/ \E k \in Closers : closer[k] \in {"closing", "failed"}

(* A closed client that is still held has somebody to answer for it.       *)
ClosedHasReason == http_client # 0 /\ http_client \notin opened => SomebodyLeft

SentHasClient == \A q \in Requests : request[q] = "sent" => used[q] # 0

IInv == TypeOK /\ Owned /\ OwnLoop /\ SentHasClient /\ ClosedHasReason

-----------------------------------------------------------------------------
(* Reading a reply gives a value or an error of the table.                 *)
LEMMA OutcomeType ==
  ASSUME NEW m \in Methods, NEW r \in Replies
  PROVE  /\ Outcome(m, r) \in Errors \cup {"value"}
         /\ Outcome(m, r) # "RuntimeError"
<1> DEFINE Told == (Errors \ {"RuntimeError"}) \cup {"value"}
<1>1. ErrorOf(m) \in Told
  BY DEF ErrorOf, Errors
<1>2. Raised(m, r) \in {"none", "ValueError", "KeyError", "TypeError"}
  BY DEF Raised
<1>3. Parsed(m, r) \in Told
  BY <1>1, <1>2 DEF Parsed, Caught, Errors
<1>4. Answer(m, r) \in Told
  BY <1>1, <1>3 DEF Answer, Errors
<1> QED
  BY <1>4 DEF Outcome, Errors

(* What a new client changes.                                              *)
LEMMA NewClientFacts ==
  ASSUME TypeOK, NewClient
  PROVE  /\ owner' \in Seq(1..MaxLoop)
         /\ Len(owner') = Len(owner) + 1
         /\ DOMAIN owner' = 1..Len(owner') /\ DOMAIN owner = 1..Len(owner)
         /\ Len(owner) \in Nat
         /\ http_client' = Len(owner')
         /\ owner'[http_client'] = loop
         /\ \A i \in DOMAIN owner : owner'[i] = owner[i]
         /\ opened' \subseteq DOMAIN owner'
         /\ http_client' \in opened'
BY DEF TypeOK, NewClient

-----------------------------------------------------------------------------
LEMMA InitInv == Init => IInv
<1> SUFFICES ASSUME Init PROVE IInv
  OBVIOUS
<1>1. TypeOK
  <2>1. 1 \in 1..MaxLoop /\ 0 \in 0..MaxLoop
    BY HttpClientAssumption
  <2>2. <<>> \in Seq(1..MaxLoop) /\ Len(<<>>) = 0 /\ DOMAIN <<>> = {}
    OBVIOUS
  <2>3. Nothing \in Replies
    BY DEF Replies
  <2> QED
    BY <2>1, <2>2, <2>3 DEF Init, TypeOK
<1> QED
  BY <1>1 DEF Init, IInv, Owned, OwnLoop, SentHasClient, ClosedHasReason

(* _get_client keeps the pool in order and returns a client of this loop.  *)
LEMMA GetClientFacts ==
  ASSUME IInv, GetClient, UNCHANGED loop
  PROVE  /\ owner' \in Seq(1..MaxLoop) /\ DOMAIN owner \subseteq DOMAIN owner'
         /\ DOMAIN owner' = 1..Len(owner') /\ Len(owner') \in Nat
         /\ Len(owner) <= Len(owner') /\ Len(owner) \in Nat
         /\ \A i \in DOMAIN owner : owner'[i] = owner[i]
         /\ opened' \subseteq DOMAIN owner'
         /\ http_client' \in 1..Len(owner') /\ client_loop' = loop
         /\ owner'[http_client'] = loop
         /\ http_client' \notin opened' => SomebodyLeft
<1> USE DEF IInv
<1>1. CASE NoClientHere /\ NewClient
  <2>1. client_loop' = loop
    BY <1>1 DEF GetClient, RememberLoop
  <2>2. opened \subseteq DOMAIN owner
    BY DEF TypeOK
  <2> QED
    BY <1>1, <2>1, <2>2, NewClientFacts
<1>2. CASE ~NoClientHere
  <2>1. UNCHANGED <<owner, opened, http_client, client_loop>>
    BY <1>2 DEF GetClient
  <2>2. http_client # 0 /\ client_loop = loop
    BY <1>2 DEF NoClientHere
  <2>3. DOMAIN owner = 1..Len(owner) /\ Len(owner) \in Nat /\ http_client \in 1..Len(owner)
    BY <2>2 DEF TypeOK
  <2> QED
    BY <2>1, <2>2, <2>3 DEF TypeOK, Owned, ClosedHasReason
<1> QED
  BY <1>1, <1>2 DEF GetClient

LEMMA StepSend ==
  ASSUME IInv, NEW q \in Requests, Send(q)
  PROVE  IInv'
<1>1. GetClient /\ UNCHANGED <<loop, session, closer, method, reply>>
  BY DEF Send, userVars
<1>f. /\ owner' \in Seq(1..MaxLoop) /\ DOMAIN owner \subseteq DOMAIN owner'
      /\ DOMAIN owner' = 1..Len(owner') /\ Len(owner') \in Nat
      /\ Len(owner) <= Len(owner') /\ Len(owner) \in Nat
      /\ \A i \in DOMAIN owner : owner'[i] = owner[i]
      /\ opened' \subseteq DOMAIN owner'
      /\ http_client' \in 1..Len(owner') /\ client_loop' = loop
      /\ owner'[http_client'] = loop
      /\ http_client' \notin opened' => SomebodyLeft
  BY <1>1, GetClientFacts
<1>2. used' = [used EXCEPT ![q] = http_client']
  BY DEF Send
<1>3. /\ request' \in [Requests -> {"idle", "sent", "done"}]
      /\ outcome' \in [Requests -> Errors \cup {"none", "value"}]
  <2>1. /\ request \in [Requests -> {"idle", "sent", "done"}]
        /\ outcome \in [Requests -> Errors \cup {"none", "value"}]
    BY DEF IInv, TypeOK
  <2>2. \/ /\ request' = [request EXCEPT ![q] = "sent"]
           /\ outcome' = outcome
        \/ /\ request' = [request EXCEPT ![q] = "done"]
           /\ outcome' = [outcome EXCEPT ![q] = "RuntimeError"]
    BY DEF Send
  <2> QED
    BY <2>1, <2>2 DEF Errors
<1>4. /\ used' \in [Requests -> 0..Len(owner')]
      /\ used \in [Requests -> 0..Len(owner)]
  BY <1>2, <1>f DEF IInv, TypeOK
<1>5. TypeOK'
  BY <1>1, <1>f, <1>3, <1>4 DEF IInv, TypeOK
<1>6. Owned'
  BY <1>1, <1>f, HttpClientAssumption DEF IInv, TypeOK, Owned
<1>7. ClosedHasReason'
  BY <1>1, <1>f DEF ClosedHasReason, SomebodyLeft
<1>8. ASSUME NEW p \in Requests, request'[p] = "sent"
      PROVE  owner'[used'[p]] = loop'
  <2>1. CASE p = q
    BY <2>1, <1>1, <1>f, <1>2, <1>4 DEF IInv, TypeOK
  <2>2. CASE p # q
    <3>1. request[p] = "sent" /\ used'[p] = used[p]
      BY <2>2, <1>2, <1>4, <1>8 DEF Send, IInv, TypeOK
    <3>2. owner[used[p]] = loop
      BY <3>1 DEF IInv, OwnLoop
    <3>3. used[p] \in DOMAIN owner
      <4>1. used[p] \in 0..Len(owner) /\ used[p] # 0
        BY <3>1, <1>4 DEF IInv, SentHasClient
      <4>2. DOMAIN owner = 1..Len(owner) /\ Len(owner) \in Nat
        BY DEF IInv, TypeOK
      <4> QED
        BY <4>1, <4>2
    <3> QED
      BY <1>1, <1>f, <3>1, <3>2, <3>3
  <2> QED
    BY <2>1, <2>2
<1>9. ASSUME NEW p \in Requests, request'[p] = "sent"
      PROVE  used'[p] # 0
  <2>1. CASE p = q
    BY <2>1, <1>1, <1>f, <1>2, <1>4 DEF IInv, TypeOK
  <2>2. CASE p # q
    <3>1. request[p] = "sent" /\ used'[p] = used[p]
      BY <2>2, <1>2, <1>4, <1>9 DEF Send, IInv, TypeOK
    <3> QED
      BY <3>1 DEF IInv, SentHasClient
  <2> QED
    BY <2>1, <2>2
<1> QED
  BY <1>5, <1>6, <1>7, <1>8, <1>9 DEF IInv, OwnLoop, SentHasClient

(* A request that ends leaves the pool alone.                              *)
LEMMA StepRequestEnds ==
  ASSUME IInv, NEW q \in Requests, Receive(q) \/ Cancel(q)
  PROVE  IInv'
<1>1. /\ UNCHANGED <<loop, owner, opened, http_client, client_loop>>
      /\ UNCHANGED <<session, closer, method, used>>
  BY DEF Receive, Cancel, poolVars, userVars
<1>2. /\ request' = [request EXCEPT ![q] = "done"]
      /\ reply' \in [Requests -> Replies]
      /\ outcome' \in [Requests -> Errors \cup {"none", "value"}]
  <2>1. CASE Cancel(q)
    BY <2>1 DEF Cancel, Ends, IInv, TypeOK, Errors
  <2>2. CASE Receive(q)
    <3>1. PICK r \in Replies : reply' = [reply EXCEPT ![q] = r] /\ Ends(q, Outcome(method[q], r))
      BY <2>2 DEF Receive
    <3>2. method[q] \in Methods
      BY HttpClientAssumption DEF IInv, TypeOK
    <3>3. Outcome(method[q], r) \in Errors \cup {"none", "value"}
      BY <3>2, OutcomeType
    <3> QED
      BY <3>1, <3>3 DEF Ends, IInv, TypeOK
  <2> QED
    BY <2>1, <2>2
<1>3. TypeOK'
  BY <1>1, <1>2 DEF IInv, TypeOK
<1>4. \A p \in Requests : request'[p] = "sent" => request[p] = "sent"
  BY <1>2 DEF IInv, TypeOK
<1> QED
  BY <1>1, <1>3, <1>4 DEF IInv, Owned, OwnLoop, SentHasClient, ClosedHasReason, SomebodyLeft

LEMMA StepEnter ==
  ASSUME IInv, NEW s \in Sessions, Enter(s)
  PROVE  IInv'
<1>1. /\ NewClient
      /\ UNCHANGED <<loop, client_loop, closer, method, request, used>>
      /\ UNCHANGED <<reply, outcome>>
  BY DEF Enter, requestVars
<1>2. session' \in [Sessions -> {"new", "inside", "leaving", "left"}]
  BY DEF Enter, SessionGoes, IInv, TypeOK
<1> USE NewClientFacts
<1>3. TypeOK'
  BY <1>1, <1>2 DEF IInv, TypeOK
<1>4. Owned'
  BY <1>1 DEF IInv, Owned
<1>5. ASSUME NEW p \in Requests, request'[p] = "sent"
      PROVE  owner'[used'[p]] = loop' /\ used'[p] # 0
  <2>1. used'[p] = used[p] /\ used[p] # 0 /\ owner[used[p]] = loop
    BY <1>1, <1>5 DEF IInv, OwnLoop, SentHasClient
  <2>2. used[p] \in DOMAIN owner
    BY <1>1, <2>1 DEF IInv, TypeOK
  <2> QED
    BY <1>1, <2>1, <2>2 DEF IInv
<1>6. ClosedHasReason'
  BY <1>1 DEF IInv, ClosedHasReason
<1> QED
  BY <1>3, <1>4, <1>5, <1>6 DEF IInv, OwnLoop, SentHasClient

(* __aexit__ and close(): clients are only closed or dropped, and who      *)
(* leaves a closed one behind has left, is closing or has failed.          *)
LEMMA StepClose ==
  ASSUME IInv, http_client' \in {http_client, 0}, opened' \subseteq opened,
         UNCHANGED <<loop, owner, client_loop, requestVars>>,
         session' \in [Sessions -> {"new", "inside", "leaving", "left"}],
         closer' \in [Closers -> {"idle", "closing", "closed", "failed"}],
         http_client' # 0 => opened' = opened \/ SomebodyLeft',
         http_client' # 0 /\ SomebodyLeft => SomebodyLeft'
  PROVE  IInv'
<1>1. TypeOK'
  <2>1. Len(owner) \in Nat /\ 0 \in 0..Len(owner)
    BY DEF IInv, TypeOK
  <2> QED
    BY <2>1 DEF IInv, TypeOK, requestVars
<1>2. Owned' /\ OwnLoop' /\ SentHasClient'
  BY DEF IInv, Owned, OwnLoop, SentHasClient, requestVars
<1>3. ClosedHasReason'
  BY DEF IInv, ClosedHasReason
<1> QED
  BY <1>1, <1>2, <1>3 DEF IInv

LEMMA StepLeave ==
  ASSUME IInv, NEW s \in Sessions, Leave(s) \/ Left(s)
  PROVE  IInv'
<1>1. /\ UNCHANGED <<loop, owner, http_client, client_loop, closer, requestVars>>
      /\ opened' \subseteq opened
  BY DEF Leave, Left, Aclose, poolVars
<1>2. /\ session' \in [Sessions -> {"new", "inside", "leaving", "left"}]
      /\ session'[s] \in {"leaving", "left"}
  BY DEF Leave, Left, SessionGoes, IInv, TypeOK
<1>3. SomebodyLeft'
  BY <1>2 DEF SomebodyLeft
<1>4. closer' \in [Closers -> {"idle", "closing", "closed", "failed"}]
  BY <1>1 DEF IInv, TypeOK
<1> QED
  BY <1>1, <1>2, <1>3, <1>4, StepClose

LEMMA StepCloser ==
  ASSUME IInv, NEW k \in Closers, Close(k) \/ CloseEnds(k)
  PROVE  IInv'
<1>1. /\ UNCHANGED <<loop, owner, client_loop, session, requestVars>>
      /\ opened' \subseteq opened
  BY DEF Close, CloseEnds, Aclose
<1>2. /\ closer' \in [Closers -> {"idle", "closing", "closed", "failed"}]
      /\ http_client' = 0 \/ (http_client' = http_client /\ closer'[k] \in {"closing", "failed"})
  BY DEF Close, CloseEnds, Closed, CloserGoes, IInv, TypeOK
<1>3. http_client' # 0 => SomebodyLeft'
  BY <1>2 DEF SomebodyLeft
<1>4. session' \in [Sessions -> {"new", "inside", "leaving", "left"}]
  BY <1>1 DEF IInv, TypeOK
<1> QED
  BY <1>1, <1>2, <1>3, <1>4, StepClose

LEMMA StepLoop ==
  ASSUME IInv, NextLoop
  PROVE  IInv'
<1>1. /\ UNCHANGED <<owner, opened, http_client, client_loop, session, closer>>
      /\ UNCHANGED requestVars /\ loop' = loop + 1 /\ loop < MaxLoop
  BY DEF NextLoop, userVars
<1>2. loop' \in 1..MaxLoop /\ client_loop < loop'
  BY <1>1, HttpClientAssumption DEF IInv, TypeOK, Owned
<1>3. TypeOK' /\ Owned'
  BY <1>1, <1>2, HttpClientAssumption DEF IInv, TypeOK, Owned, requestVars
<1>4. \A q \in Requests : request'[q] # "sent"
  BY <1>1 DEF NextLoop, requestVars
<1> QED
  BY <1>1, <1>3, <1>4 DEF IInv, OwnLoop, SentHasClient, ClosedHasReason, SomebodyLeft

(* The inductive invariant of the pool, the sessions and the requests.     *)
THEOREM Invariance == Spec => []IInv
<1>1. ASSUME IInv, [Next]_vars PROVE IInv'
  <2>1. CASE UNCHANGED vars
    <3>1. /\ UNCHANGED <<loop, owner, opened, http_client, client_loop>>
          /\ UNCHANGED <<session, closer, requestVars>>
      BY <2>1 DEF vars, poolVars, userVars
    <3> QED
      BY <3>1, <1>1 DEF IInv, TypeOK, Owned, OwnLoop, SentHasClient, ClosedHasReason,
                        SomebodyLeft, requestVars
  <2> QED
    BY <1>1, <2>1, StepSend, StepRequestEnds, StepEnter, StepLeave, StepCloser, StepLoop
    DEF Next, Terminated
<1> QED
  BY InitInv, <1>1, PTL DEF Spec

-----------------------------------------------------------------------------
(* The pool and the requests keep their types.                             *)
THEOREM TypeCorrect == Spec => []TypeOK
BY Invariance, PTL DEF IInv

(* No request is on the wire with a client of another event loop.          *)
THEOREM RequestsStayInTheirLoop == Spec => []OwnLoop
<1>1. IInv => OwnLoop
  BY DEF IInv
<1> QED
  BY <1>1, Invariance, PTL

(* Only leaving a session, or a close() in progress or failed, makes a     *)
(* request meet a closed client.                                           *)
THEOREM CloseIsClean == Spec => RefusedOnlyAfterLeaving
<1>1. ASSUME IInv, [Next]_vars, NEW q \in Requests,
             outcome[q] # "RuntimeError", outcome'[q] = "RuntimeError"
      PROVE  SomebodyLeft
  <2>1. ASSUME NEW p \in Requests, Send(p) PROVE SomebodyLeft
    <3>1. GetClient /\ UNCHANGED loop
      BY <2>1 DEF Send
    <3>2. http_client' \notin opened'
      BY <1>1, <2>1 DEF Send
    <3> QED
      BY <3>1, <3>2, <1>1, GetClientFacts
  <2>2. ASSUME NEW p \in Requests, Receive(p) \/ Cancel(p) PROVE FALSE
    <3>1. CASE Cancel(p)
      BY <3>1, <1>1 DEF Cancel, Ends, IInv, TypeOK
    <3>2. CASE Receive(p)
      <4>1. PICK r \in Replies : Ends(p, Outcome(method[p], r))
        BY <3>2 DEF Receive
      <4>2. method[p] \in Methods
        BY <1>1, HttpClientAssumption DEF IInv, TypeOK
      <4>3. Outcome(method[p], r) # "RuntimeError"
        BY <4>2, OutcomeType
      <4> QED
        BY <4>1, <4>3, <1>1 DEF Ends, IInv, TypeOK
    <3> QED
      BY <2>2, <3>1, <3>2
  <2> QED
    BY <1>1, <2>1, <2>2
    DEF Next, Terminated, vars, Enter, Leave, Left, Close, CloseEnds, Aclose, NextLoop,
        requestVars
<1>2. IInv /\ [Next]_vars =>
        [\A q \in Requests : outcome[q] # "RuntimeError" /\ outcome'[q] = "RuntimeError" =>
           \/ \E s \in Sessions : session[s] \in {"leaving", "left"}
           \/ \E k \in Closers : closer[k] \in {"closing", "failed"}]_vars
  BY <1>1 DEF SomebodyLeft
<1> QED
  BY <1>2, Invariance, PTL DEF Spec, RefusedOnlyAfterLeaving

-----------------------------------------------------------------------------
(* What a method makes of a reply is what its docstring promises, or one   *)
(* of the divergences.                                                     *)
LEMMA OutcomeIsPromised ==
  ASSUME NEW m \in Methods, NEW r \in Replies
  PROVE  Outcome(m, r) = Promised(m, r) \/ Diverges(m, r, Outcome(m, r))
<1>1. CASE r = Nothing
  <2>1. Answer(m, r) = "ATPNetworkError" /\ Promised(m, r) = "ATPNetworkError"
    BY <1>1 DEF Answer, Promised
  <2> QED
    BY <1>1, <2>1 DEF Outcome, Diverges
<1>2. CASE r # Nothing
  <2>1. r.body \in {"right", "text", "lacking", "odd"}
    BY <1>2, HttpClientAssumption DEF Replies, BodyKinds
  <2>2. CASE Duplicate(m, r)
    BY <1>2, <2>2 DEF Outcome, Answer, Promised, Duplicate
  <2>3. CASE Unauthorized(m, r) /\ ~Duplicate(m, r)
    BY <1>2, <2>3 DEF Outcome, Answer, Promised, Diverges, Unauthorized, Duplicate, Accepted
  <2>4. CASE Missing(m, r)
    <3>1. Answer(m, r) = "ATPQueryError"
      BY <1>2, <2>4 DEF Answer, Unauthorized, Duplicate, Missing, ErrorOf
    <3>2. CASE m = "verify_response"
      BY <2>4, <3>1, <3>2 DEF Outcome, Diverges, Missing
    <3>3. CASE m # "verify_response"
      <4>1. Promised(m, r) = "ATPQueryError"
        BY <1>2, <2>4, <3>3 DEF Promised, Duplicate, Missing, Accepted, ErrorOf
      <4> QED
        BY <3>1, <3>3, <4>1 DEF Outcome
    <3> QED
      BY <3>2, <3>3
  <2>5. CASE ~Duplicate(m, r) /\ ~Unauthorized(m, r) /\ ~Missing(m, r)
    <3>1. Answer(m, r) = Parsed(m, r)
      BY <1>2, <2>5 DEF Answer
    <3>2. CASE r.body = "odd"
      BY <3>1, <3>2 DEF Parsed, Raised, Caught, Outcome, Diverges
    <3>3. CASE r.body = "right" /\ Accepted(m, r)
      BY <1>2, <2>5, <3>1, <3>3 DEF Outcome, Parsed, Raised, Promised
    <3>4. CASE r.body # "odd" /\ ~(r.body = "right" /\ Accepted(m, r))
      <4>1. CASE Parsed(m, r) = ErrorOf(m)
        <5>1. Promised(m, r) = IF m = "verify_response" THEN "ATPVerificationError" ELSE ErrorOf(m)
          BY <1>2, <2>5, <3>4 DEF Promised, Unauthorized, Missing
        <5> QED
          BY <3>1, <4>1, <5>1 DEF Outcome, ErrorOf
      <4>2. CASE Parsed(m, r) # ErrorOf(m)
        <5>1. /\ m = "report_assessment"
              /\ \/ r.body = "text" /\ Parsed(m, r) = "ValueError"
                 \/ r.body = "lacking" /\ Parsed(m, r) = "KeyError"
          BY <2>1, <3>4, <4>2 DEF Parsed, Raised, Caught
        <5> QED
          BY <3>1, <5>1 DEF Outcome, Diverges
      <4> QED
        BY <4>1, <4>2
    <3> QED
      BY <3>2, <3>3, <3>4
  <2> QED
    BY <2>2, <2>3, <2>4, <2>5
<1> QED
  BY <1>1, <1>2

(* What a request ended with is what its method made of its reply.         *)
Meant == \A q \in Requests :
           \/ outcome[q] \in {"none", "RuntimeError", "CancelledError"}
           \/ reply[q] \in Replies /\ outcome[q] = Outcome(method[q], reply[q])

(* Every method raises what its docstring says, whatever comes back and    *)
(* however it is written, but for the divergences of Diverges.             *)
THEOREM RaisesAreKept == Spec => []ErrorsArePromised
<1>1. Init => Meant
  BY DEF Init, Meant
<1>2. ASSUME TypeOK, Meant, [Next]_vars PROVE Meant'
  <2>1. ASSUME NEW q \in Requests, Send(q) PROVE Meant'
    BY <1>2, <2>1 DEF Send, Meant, TypeOK
  <2>2. ASSUME NEW q \in Requests, Receive(q) PROVE Meant'
    <3>1. PICK r \in Replies : reply' = [reply EXCEPT ![q] = r] /\ Ends(q, Outcome(method[q], r))
      BY <2>2 DEF Receive
    <3> QED
      BY <1>2, <2>2, <3>1 DEF Receive, Ends, Meant, TypeOK
  <2>3. ASSUME NEW q \in Requests, Cancel(q) PROVE Meant'
    BY <1>2, <2>3 DEF Cancel, Ends, Meant, TypeOK
  <2>4. ASSUME UNCHANGED requestVars PROVE Meant'
    BY <1>2, <2>4 DEF requestVars, Meant
  <2>5. ASSUME NEW s \in Sessions, Enter(s) \/ Leave(s) \/ Left(s) PROVE UNCHANGED requestVars
    BY <2>5 DEF Enter, Leave, Left, Aclose
  <2>6. ASSUME NEW k \in Closers, Close(k) \/ CloseEnds(k) PROVE UNCHANGED requestVars
    BY <2>6 DEF Close, CloseEnds, Aclose
  <2>7. CASE NextLoop \/ Terminated \/ UNCHANGED vars
    BY <2>4, <2>7 DEF NextLoop, Terminated, vars
  <2> QED
    BY <1>2, <2>1, <2>2, <2>3, <2>4, <2>5, <2>6, <2>7 DEF Next
<1>3. TypeOK /\ Meant => ErrorsArePromised
  BY OutcomeIsPromised, HttpClientAssumption DEF TypeOK, Meant, ErrorsArePromised
<1> QED
  BY <1>1, <1>2, <1>3, TypeCorrect, PTL DEF Spec

-----------------------------------------------------------------------------
(* One loop, no session, and at most one close() begun.                    *)
Plain == /\ loop = 1
         /\ \A s \in Sessions : session[s] = "new"
         /\ \A j, k \in Closers : closer[j] # "idle" /\ closer[k] # "idle" => j = k

(* Then the client that is held is the only one there is, and while the    *)
(* close() waits there is none.                                            *)
OneClient == Plain => /\ opened \subseteq {http_client}
                      /\ http_client # 0 => client_loop = 1
                      /\ \A k \in Closers : closer[k] = "closing" =>
                                              opened = {} /\ http_client # 0

(* With a client that was made on demand and a single close(), nothing is  *)
(* left open out of reach.                                                 *)
THEOREM CloseLeaksNothing == Spec => []NothingLeaks
<1>1. Init => OneClient
  BY DEF Init, OneClient
<1>2. ASSUME TypeOK, OneClient, [Next]_vars PROVE OneClient'
  <2> USE <1>2 DEF OneClient, Plain, TypeOK
  <2>1. ASSUME NEW q \in Requests, Send(q) PROVE OneClient'
    <3>1. UNCHANGED <<loop, session, closer>> /\ GetClient
      BY <2>1 DEF Send, userVars
    <3>2. CASE ~NoClientHere
      BY <3>1, <3>2 DEF GetClient
    <3>3. CASE NoClientHere /\ Plain
      <4>1. http_client = 0
        BY <3>3 DEF NoClientHere
      <4>2. opened = {} /\ \A k \in Closers : closer[k] # "closing"
        BY <3>3, <4>1
      <4> QED
        BY <3>1, <3>3, <4>1, <4>2 DEF GetClient, NewClient, RememberLoop
    <3>4. CASE ~Plain
      BY <3>1, <3>4
    <3> QED
      BY <3>2, <3>3, <3>4
  <2>2. ASSUME NEW q \in Requests, Receive(q) \/ Cancel(q) PROVE OneClient'
    BY <2>2 DEF Receive, Cancel, poolVars, userVars
  <2>3. ASSUME NEW s \in Sessions, Enter(s) \/ Leave(s) \/ Left(s) PROVE ~Plain'
    BY <2>3 DEF Enter, Leave, Left, SessionGoes
  <2>4. ASSUME NEW k \in Closers, Close(k) PROVE OneClient'
    <3>1. CASE http_client \in opened /\ CloserGoes(k, "idle", "closing") /\ UNCHANGED http_client
      <4>1. opened' = opened \ {http_client} /\ UNCHANGED <<loop, session, client_loop>>
        BY <2>4 DEF Close, Aclose
      <4>2. closer'[k] = "closing" /\ closer[k] = "idle"
            /\ \A j \in Closers : j # k => closer'[j] = closer[j]
        BY <3>1 DEF CloserGoes
      <4>3. Plain' => Plain /\ \A j \in Closers : closer'[j] = "closing" => j = k
        BY <4>1, <4>2
      <4>4. http_client # 0
        BY <3>1
      <4> QED
        BY <3>1, <4>1, <4>3, <4>4
    <3>2. CASE http_client \notin opened /\ CloserGoes(k, "idle", "closed") /\ http_client' = 0
      <4>1. opened' = opened \ {http_client} /\ UNCHANGED <<loop, session, client_loop>>
        BY <2>4 DEF Close, Aclose
      <4>2. closer'[k] = "closed" /\ closer[k] = "idle"
            /\ \A j \in Closers : j # k => closer'[j] = closer[j]
        BY <3>2 DEF CloserGoes
      <4>3. Plain' => Plain /\ \A j \in Closers : closer'[j] # "closing"
        BY <4>1, <4>2
      <4> QED
        BY <3>2, <4>1, <4>3
    <3> QED
      BY <2>4, <3>1, <3>2 DEF Close
  <2>5. ASSUME NEW k \in Closers, CloseEnds(k) PROVE OneClient'
    <3>1. closer[k] = "closing" /\ closer'[k] \in {"closed", "failed"}
          /\ \A j \in Closers : j # k => closer'[j] = closer[j]
      BY <2>5 DEF CloseEnds, Closed, CloserGoes
    <3>2. UNCHANGED <<loop, session, client_loop, opened>>
      BY <2>5 DEF CloseEnds
    <3>3. Plain' => Plain /\ \A j \in Closers : closer'[j] # "closing"
      <4>1. \A j \in Closers : closer[j] # "idle" => closer'[j] # "idle"
        BY <3>1
      <4>2. closer'[k] # "idle" /\ closer'[k] # "closing"
        BY <3>1
      <4> QED
        BY <3>2, <4>1, <4>2
    <3>4. Plain' => opened' = {} /\ client_loop' = 1
      BY <3>1, <3>2, <3>3
    <3> QED
      BY <3>3, <3>4
  <2>6. CASE NextLoop
    BY <2>6 DEF NextLoop, userVars
  <2>7. CASE Terminated \/ UNCHANGED vars
    BY <2>7 DEF Terminated, vars, poolVars, userVars
  <2> QED
    BY <2>1, <2>2, <2>3, <2>4, <2>5, <2>6, <2>7 DEF Next
<1>3. OneClient => NothingLeaks
  BY DEF OneClient, Plain, NothingLeaks
<1> QED
  BY <1>1, <1>2, <1>3, TypeCorrect, PTL DEF Spec

-----------------------------------------------------------------------------
(* The session that the run explores, its systems beside its HTTP clients, *)
(* behaves as each half does alone: what is proved of a half holds of it.  *)
THEOREM BothHalves == ClientSpec => RegistrationSpec /\ Spec
<1>1. ClientInit => RegistrationInit /\ Init
  BY DEF ClientInit
<1>2. ASSUME [ClientNext]_<<part, registrationVars, vars>>
      PROVE  [RegistrationNext]_registrationVars /\ [Next]_vars
  <2>1. CASE UNCHANGED <<part, registrationVars, vars>>
    BY <2>1
  <2>2. CASE RegistrationNext /\ UNCHANGED vars
    BY <2>2
  <2>3. CASE Next /\ UNCHANGED registrationVars
    BY <2>3
  <2> QED
    BY <1>2, <2>1, <2>2, <2>3 DEF ClientNext
<1> QED
  BY <1>1, <1>2, PTL DEF ClientSpec, RegistrationSpec, Spec

(* Every variable of an ATPClient has its type.                            *)
THEOREM ClientTyped == ClientSpec => []ClientTypeOK
<1>1. RegistrationTypeOK /\ TypeOK => ClientTypeOK
  BY DEF ClientTypeOK
<1> QED
  BY <1>1, BothHalves, RegistrationTyped, TypeCorrect, PTL

(* What the session remembers is true and its HTTP clients are used, given *)
(* up and closed right, whatever it registers, commits, asks and closes;   *)
(* and its methods raise what they say, or diverge from it as listed.      *)
THEOREM ClientIsRight ==
  ClientSpec => /\ [](CacheIsTrue /\ AssessorIsChallenger /\ SketchIsAuthoritative)
                /\ [](ProofFindsCommit /\ OwnLoop /\ NothingLeaks)
                /\ []ErrorsArePromised
                /\ RefusedOnlyAfterLeaving
BY BothHalves, CacheIsRight, AssessorAsked, SketchesAreAuthoritative, ProofsFindCommits,
   RequestsStayInTheirLoop, CloseLeaksNothing, CloseIsClean, RaisesAreKept, PTL
=============================================================================
