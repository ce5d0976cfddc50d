----------------------------- MODULE HttpClient -----------------------------
(* The HTTP client inside an ATPClient (core/client.py): who makes it,     *)
(* which event loop owns it, who closes it, and what each request of the   *)
(* Exchange's API turns a reply into.  One event loop runs at a time       *)
(* (asyncio.run after asyncio.run); within it coroutines send requests,    *)
(* enter and leave `async with client`, and call close().                  *)
EXTENDS Naturals, Sequences

CONSTANTS Requests,     \* calls of the client's methods
          Ops,          \* the methods called, a subset of Methods
          Statuses,     \* the HTTP statuses that come back
          Bodies,       \* what a body may be, a subset of BodyKinds
          Sessions,     \* uses of `async with client`
          Closers,      \* calls of close()
          MaxLoop       \* how many event loops are run, one after another

Methods == {"register_system", "create_commit", "get_commit", "get_system_commits",
            "get_commit_by_system_and_task", "get_system", "report_assessment",
            "get_assessments", "get_exchange_public_key", "verify_response"}

(* A body is what the method reads of it and no more: as it should be (an  *)
(* error may also be empty); no JSON, or with a value that does not parse; *)
(* an object that lacks a field; or JSON of a type the method trips over,  *)
(* such as a list for an object, an object for a list, a number for a      *)
(* timestamp.                                                              *)
BodyKinds == {"right", "text", "lacking", "odd"}

ASSUME HttpClientAssumption ==
  /\ Ops \subseteq Methods
  /\ Bodies \subseteq BodyKinds
  /\ MaxLoop \in Nat \ {0}

VARIABLES loop,        \* the running event loop
          owner,       \* owner[i]: the loop that ran when HTTP client i was made
          opened,      \* the HTTP clients that are not closed
          http_client, \* _http_client, 0 for None
          client_loop, \* _client_loop, 0 for None
          session,     \* session[s]: how far an `async with` is
          closer,      \* closer[k]: how far a call of close() is
          method,      \* method[q]: which method request q calls
          request,     \* request[q]: how far it is
          used,        \* used[q]: the client it was sent with
          reply,       \* reply[q]: what came back
          outcome      \* outcome[q]: what the caller gets

poolVars == <<loop, owner, opened, http_client, client_loop>>
userVars == <<session, closer>>
requestVars == <<method, request, used, reply, outcome>>
vars == <<poolVars, userVars, requestVars>>

Nothing == [status |-> 0, body |-> "none"]  \* httpx.RequestError
Replies == [status : Statuses, body : Bodies] \cup {Nothing}
Errors == {"ATPRegistrationError", "ATPCommitError", "ATPQueryError", "ATPNetworkError",
           "ATPAuthError", "ATPVerificationError", "ValueError", "KeyError",
           "TypeError", "RuntimeError", "CancelledError"}

TypeOK ==
  /\ loop \in 1..MaxLoop
  /\ owner \in Seq(1..MaxLoop)
  /\ opened \subseteq DOMAIN owner
  /\ http_client \in 0..Len(owner)
  /\ client_loop \in 0..MaxLoop
  /\ session \in [Sessions -> {"new", "inside", "leaving", "left"}]
  /\ closer \in [Closers -> {"idle", "closing", "closed", "failed"}]
  /\ method \in [Requests -> Ops]
  /\ request \in [Requests -> {"idle", "sent", "done"}]
  /\ used \in [Requests -> 0..Len(owner)]
  /\ reply \in [Requests -> Replies]
  /\ outcome \in [Requests -> Errors \cup {"none", "value"}]

Init == /\ loop = 1
        /\ owner = <<>>
        /\ opened = {}
        /\ http_client = 0
        /\ client_loop = 0
        /\ session = [s \in Sessions |-> "new"]
        /\ closer = [k \in Closers |-> "idle"]
        /\ method \in [Requests -> Ops]
        /\ request = [q \in Requests |-> "idle"]
        /\ used = [q \in Requests |-> 0]
        /\ reply = [q \in Requests |-> Nothing]
        /\ outcome = [q \in Requests |-> "none"]

-----------------------------------------------------------------------------
(* What the methods make of a reply.                                       *)
ErrorOf(m) == CASE m = "register_system" -> "ATPRegistrationError"
                [] m = "create_commit" -> "ATPCommitError"
                [] OTHER -> "ATPQueryError"

Accepted(m, r) ==
  \/ r.status = 200
  \/ r.status = 201 /\ m \in {"register_system", "create_commit", "report_assessment"}

(* What reading the body raises.  Of an error only the key "error" is      *)
(* read, with a default.  AttributeError is caught where TypeError is, and *)
(* counts as one.                                                          *)
Raised(m, r) == CASE r.body = "text" -> "ValueError"
                  [] r.body = "lacking" /\ Accepted(m, r) -> "KeyError"
                  [] r.body = "odd" -> "TypeError"
                  [] OTHER -> "none"

(* Bug: report_assessment's missing except clause, in the others.          *)
CaughtNowhere(m, error) == error

(* except (KeyError, ValueError), which report_assessment does not have.   *)
Caught(m, error) ==
  IF m # "report_assessment" /\ error \in {"KeyError", "ValueError"}
  THEN ErrorOf(m)
  ELSE error

Parsed(m, r) == IF Raised(m, r) # "none" THEN Caught(m, Raised(m, r))
                ELSE IF Accepted(m, r) THEN "value"
                ELSE ErrorOf(m)

Unauthorized(m, r) == r.status = 401 /\ m # "get_exchange_public_key"
Duplicate(m, r) == r.status = 409 /\ m = "report_assessment"
Missing(m, r) == r.status = 404 /\ m \in {"get_commit", "get_commit_by_system_and_task",
                                          "get_system", "verify_response"}

(* The statuses in the order in which the methods test them.               *)
Answer(m, r) ==
  IF r = Nothing THEN "ATPNetworkError"
  ELSE IF Duplicate(m, r) THEN "value"
  ELSE IF Unauthorized(m, r) THEN "ATPAuthError"
  ELSE IF Missing(m, r) THEN ErrorOf(m)
  ELSE Parsed(m, r)

(* verify_response converts two of the errors of get_commit.               *)
Outcome(m, r) ==
  IF m = "verify_response" /\ Answer(m, r) \in {"ATPQueryError", "ATPNetworkError"}
  THEN "ATPVerificationError"
  ELSE Answer(m, r)

-----------------------------------------------------------------------------
(* httpx.AsyncClient(...), made in the running loop.                       *)
NewClient == /\ owner' = Append(owner, loop)
             /\ http_client' = Len(owner) + 1
             /\ opened' = opened \cup {Len(owner) + 1}

(* Bug: the loop that owns the client is not looked at.                    *)
NoClientAtAll == http_client = 0

(* There is no client, or not one known to be of the running loop.         *)
NoClientHere == http_client = 0 \/ client_loop # loop

(* Bug: the owner of a new client is not written down.                     *)
ForgetLoop == UNCHANGED client_loop

RememberLoop == client_loop' = loop

(* _get_client: a client of another loop is discarded, not closed.         *)
GetClient ==
  \/ /\ NoClientHere
     /\ NewClient
     /\ RememberLoop
  \/ /\ ~NoClientHere
     /\ UNCHANGED <<owner, opened, http_client, client_loop>>

(* A method up to its await; httpx refuses to send with a closed client,   *)
(* and no method catches the RuntimeError.                                 *)
Send(q) ==
  /\ request[q] = "idle"
  /\ GetClient
  /\ used' = [used EXCEPT ![q] = http_client']
  /\ \/ /\ http_client' \in opened'
        /\ request' = [request EXCEPT ![q] = "sent"]
        /\ UNCHANGED outcome
     \/ /\ http_client' \notin opened'
        /\ request' = [request EXCEPT ![q] = "done"]
        /\ outcome' = [outcome EXCEPT ![q] = "RuntimeError"]
  /\ UNCHANGED <<loop, userVars, method, reply>>

Ends(q, result) == /\ request' = [request EXCEPT ![q] = "done"]
                   /\ outcome' = [outcome EXCEPT ![q] = result]

(* A reply, or none: also when the client is closed under the request.     *)
Receive(q) ==
  /\ request[q] = "sent"
  /\ \E r \in Replies : /\ r = Nothing \/ used[q] \in opened
                        /\ reply' = [reply EXCEPT ![q] = r]
                        /\ Ends(q, Outcome(method[q], r))
  /\ UNCHANGED <<poolVars, userVars, method, used>>

Cancel(q) ==
  /\ request[q] = "sent"
  /\ Ends(q, "CancelledError")
  /\ UNCHANGED <<poolVars, userVars, method, used, reply>>

SessionGoes(s, from, to) ==
  session[s] = from /\ session' = [session EXCEPT ![s] = to]
CloserGoes(k, from, to) ==
  closer[k] = from /\ closer' = [closer EXCEPT ![k] = to]

(* __aenter__ does not write _client_loop.                                 *)
Enter(s) ==
  /\ SessionGoes(s, "new", "inside")
  /\ NewClient
  /\ UNCHANGED <<loop, client_loop, closer, requestVars>>

(* aclose() marks a client closed before it suspends; it does not suspend  *)
(* when there is nothing to close.                                         *)
Aclose == /\ opened' = opened \ {http_client}
          /\ UNCHANGED <<loop, owner, client_loop, requestVars>>

(* __aexit__: the closed client stays in _http_client.                     *)
Leave(s) ==
  /\ \/ http_client \in opened /\ SessionGoes(s, "inside", "leaving")
     \/ http_client \notin opened /\ SessionGoes(s, "inside", "left")
  /\ Aclose
  /\ UNCHANGED <<http_client, closer>>

Left(s) == SessionGoes(s, "leaving", "left") /\ UNCHANGED <<poolVars, closer, requestVars>>

(* close(): the client is closed, and dropped after the await ...          *)
Close(k) ==
  /\ \/ http_client \in opened /\ CloserGoes(k, "idle", "closing") /\ UNCHANGED http_client
     \/ http_client \notin opened /\ CloserGoes(k, "idle", "closed") /\ http_client' = 0
  /\ Aclose
  /\ UNCHANGED session

(* Bug: the closed client is not dropped.                                  *)
ClosedButKept(k) == CloserGoes(k, "closing", "closed") /\ UNCHANGED http_client

Closed(k) == CloserGoes(k, "closing", "closed") /\ http_client' = 0

(* ... unless it is cancelled there, or aclose() raises (another loop). *)
CloseEnds(k) ==
  /\ \/ Closed(k)
     \/ CloserGoes(k, "closing", "failed") /\ UNCHANGED http_client
  /\ UNCHANGED <<loop, owner, opened, client_loop, session, requestVars>>

(* The next asyncio.run; the one before has waited for its tasks.          *)
NextLoop ==
  /\ loop < MaxLoop
  /\ \A q \in Requests : request[q] # "sent"
  /\ \A s \in Sessions : session[s] \in {"new", "left"}
  /\ \A k \in Closers : closer[k] # "closing"
  /\ loop' = loop + 1
  /\ UNCHANGED <<owner, opened, http_client, client_loop, userVars, requestVars>>

Terminated == /\ loop = MaxLoop
              /\ \A q \in Requests : request[q] = "done"
              /\ \A s \in Sessions : session[s] \in {"new", "left"}
              /\ \A k \in Closers : closer[k] \in {"closed", "failed"}
              /\ UNCHANGED vars

Next == \/ \E q \in Requests : Send(q) \/ Receive(q) \/ Cancel(q)
        \/ \E s \in Sessions : Enter(s) \/ Leave(s) \/ Left(s)
        \/ \E k \in Closers : Close(k) \/ CloseEnds(k)
        \/ NextLoop
        \/ Terminated

Spec == Init /\ [][Next]_vars

-----------------------------------------------------------------------------
(* A request is never on the wire with a client of an event loop that is   *)
(* not the running one, however loops, sessions and close() alternate.     *)
OwnLoop == \A q \in Requests : request[q] = "sent" => owner[used[q]] = loop

(* In the first event loop, where nobody uses `async with` and close() is  *)
(* called once, the only client left open is the one the ATPClient holds,  *)
(* also when the close() and requests overlap: nothing is out of reach.    *)
NothingLeaks ==
  /\ loop = 1
  /\ \A s \in Sessions : session[s] = "new"
  /\ \A j, k \in Closers : closer[j] # "idle" /\ closer[k] # "idle" => j = k
  => opened \subseteq {http_client}

(* A request is refused for a closed client only while a close() is under  *)
(* way or has failed, or after an `async with` was left: a close() that    *)
(* has returned never breaks a later request.                              *)
RefusedOnlyAfterLeaving ==
  [][\A q \in Requests : outcome[q] # "RuntimeError" /\ outcome'[q] = "RuntimeError" =>
       \/ \E s \in Sessions : session[s] \in {"leaving", "left"}
       \/ \E k \in Closers : closer[k] \in {"closing", "failed"}]_vars

(* What the Raises sections promise: ATPNetworkError without a reply,      *)
(* ATPAuthError for a rejected API key where the method lists it, the      *)
(* method's own error for every other failure; of verify_response          *)
(* ATPQueryError if the commit is not found, and ATPVerificationError.     *)
Promised(m, r) ==
  IF r = Nothing THEN "ATPNetworkError"
  ELSE IF Duplicate(m, r) \/ (Accepted(m, r) /\ r.body = "right") THEN "value"
  ELSE IF m = "verify_response"
  THEN IF r.status = 404 THEN "ATPQueryError" ELSE "ATPVerificationError"
  ELSE IF r.status = 401 /\ m \notin {"report_assessment", "get_exchange_public_key"}
  THEN "ATPAuthError"
  ELSE ErrorOf(m)

(* Where the code does not keep this, and what it raises instead: of a     *)
(* body of the wrong type in every method; of an unreadable body and of a  *)
(* 401 in report_assessment; in verify_response if the commit is not found *)
(* or there is no reply, and of a 401.                                     *)
Diverges(m, r, result) ==
  \/ r.body = "odd" /\ result = "TypeError"
  \/ /\ m = "report_assessment"
     /\ \/ r.status = 401 /\ result = "ATPAuthError"
        \/ r.body = "text" /\ result = "ValueError"
        \/ r.body = "lacking" /\ result = "KeyError"
  \/ /\ m = "verify_response"
     /\ \/ (r = Nothing \/ r.status = 404) /\ result = "ATPVerificationError"
        \/ r.status = 401 /\ result = "ATPAuthError"

(* Every method raises what its docstring says, whatever comes back and    *)
(* however it is written, but for these divergences and no other.          *)
ErrorsArePromised ==
  \A q \in Requests :
    outcome[q] \notin {"none", "RuntimeError", "CancelledError"} =>
      \/ outcome[q] = Promised(method[q], reply[q])
      \/ Diverges(method[q], reply[q], outcome[q])
=============================================================================
