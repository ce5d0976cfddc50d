------------------------------ MODULE ClientMC ------------------------------
(* A small instance of the two halves of an ATPClient: what it remembers   *)
(* of its systems, and the HTTP clients its requests are sent with.  They  *)
(* have no state in common, so a behaviour moves one half and leaves the   *)
(* other as it begins: all interleavings would show nothing more.  For the *)
(* same reason methods and replies vary only where there is no             *)
(* `async with`, whose effect on a request depends on neither, and then    *)
(* one request at a time calls another method than get_system.             *)
EXTENDS Registration, HttpClient, TLC

CONSTANTS n1, n2, d1, w1, w2, w3

VARIABLE part  \* what moves: "systems", "methods" or "sessions"

OneOfEachKind == w1 :> "context" @@ w2 :> "adapter" @@ w3 :> "direct"

ClientInit ==
  /\ part \in {"systems", "methods", "sessions"}
  /\ RegistrationInit
  /\ Init
  /\ part # "systems" => \A r \in Registrations : NameOf(r) = n1
  /\ \E p \in Requests : \A q \in Requests :
       part # "methods" \/ q # p => method[q] = "get_system"

Plainly == \A q \in Requests :
             reply'[q] \in {Nothing, [status |-> 200, body |-> "right"]}

ClientNext ==
  /\ UNCHANGED part
  /\ \/ part = "systems" /\ RegistrationNext /\ UNCHANGED vars
     \/ part = "methods" /\ Next /\ UNCHANGED <<session, registrationVars>>
     \/ part = "sessions" /\ Next /\ Plainly /\ UNCHANGED registrationVars

ClientSpec == ClientInit /\ [][ClientNext]_<<part, registrationVars, vars>>

(* Every variable of the two halves has its type.                          *)
ClientTypeOK == RegistrationTypeOK /\ TypeOK

CallSymmetry == Permutations(Requests) \cup Permutations(Sessions)
=============================================================================
