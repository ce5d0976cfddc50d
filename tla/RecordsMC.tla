------------------------------ MODULE RecordsMC -----------------------------
(* A small instance of what becomes of times in texts: in the hashes of    *)
(* commits, and in the table of stored proofs.  Of the instants 100 is a   *)
(* whole second, 110 has a fraction that ends in a zero and 111 one that   *)
(* does not.  A behaviour is one of three: a single commit with times in   *)
(* every zone; two commits, of which one can be taken for the other, with  *)
(* times in UTC; the table.                                                *)
EXTENDS OfflineVerification, ExpiryOrder, TLC

VARIABLE part  \* which of them: "zones", "pairs" or "table"

SomeZones == {-100, 0, 100}
SomeOffsets == {-2, 0, 2}

RecordsInit == part \in {"zones", "pairs", "table"} /\ Init /\ ExpiryInit

SimpleTimes == Times({100, 110}, {0})
SimpleSketches == Sketches(SimpleTimes)
AllSketches == Sketches(AllTimes)

RecordsNext ==
  /\ UNCHANGED part
  /\ \/ /\ part = "zones"
        /\ \E c \in Commits : /\ \A d \in Commits \ {c} : state[d] = "new"
                              /\ \/ \E s \in AllSketches : Build(c, s)
                                 \/ CreateCommit(c) \/ Receive(c)
        /\ UNCHANGED expiryVars
     \/ /\ part = "pairs"
        /\ \E c \in Commits : \/ \E s \in SimpleSketches : Build(c, s)
                              \/ CreateCommit(c)
                              \/ Receive(c) /\ cataloged'[c] \in SimpleTimes \cup {None}
        /\ UNCHANGED expiryVars
     \/ /\ part # "table"
        /\ Terminated
        /\ UNCHANGED expiryVars
     \/ /\ part = "table"
        /\ ExpiryNext
        /\ UNCHANGED vars

RecordsSpec == RecordsInit /\ [][RecordsNext]_<<part, vars, expiryVars>>

(* Every variable of the commits and of the table has its type.            *)
RecordsTypeOK == TypeOK /\ ExpiryTypeOK

Symmetry == UNION {Permutations(S) : S \in {Commits, Tasks, Contents}}
=============================================================================
