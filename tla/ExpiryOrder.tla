---------------------------- MODULE ExpiryOrder ----------------------------
(* The expires_at of a row of SQLiteProofStore (core/storage.py) is kept   *)
(* as the text isoformat() makes of it.  get() reads the time back; list() *)
(* and the collector let SQL compare the text with the one of the present. *)
(* SQLiteProofStore.tla takes times as numbers: here is when that is right.*)
EXTENDS Timestamps

CONSTANTS Rows,      \* the tasks a proof is saved for
          Offsets,   \* the zones of the expires_at of the proofs saved
          TTL, MaxTime, NoRow

ASSUME ExpiryAssumption == Offsets \subseteq Int /\ TTL \in Nat /\ MaxTime \in Nat

VARIABLES now, row
expiryVars == <<now, row>>

ExpiryTypeOK ==
  /\ now \in 0..MaxTime
  /\ row \in [Rows -> Times(0..MaxTime + TTL, Offsets) \cup {NoRow}]

ExpiryInit == now = 0 /\ row = [t \in Rows |-> NoRow]

Held(t) == row[t] # NoRow

(* Bug: datetime.now() of a machine that is two hours east of UTC.         *)
NowLocal == [instant |-> now, zone |-> 2]

(* datetime.now(UTC)                                                       *)
Now == [instant |-> now, zone |-> 0]

(* Bug: the expiry of a proof without TTL.                                 *)
ExpiryNone(zone) == [instant |-> now, zone |-> NoRow]

Expiry(zone) == [instant |-> now + TTL, zone |-> zone]

Save(t, zone) == row' = [row EXCEPT ![t] = Expiry(zone)] /\ UNCHANGED now

(* get() refuses a proof when its expires_at < now, as times.              *)
Refused(t) == row[t].instant < now

Get(t) == /\ Held(t) /\ Refused(t)
          /\ row' = [row EXCEPT ![t] = NoRow]
          /\ UNCHANGED now

(* DELETE ... WHERE expires_at < ? and SELECT ... WHERE expires_at > ?     *)
Due(t) == TextBefore(row[t], Now)
Listed == {t \in Rows : Held(t) /\ TextBefore(Now, row[t])}

Collect == /\ row' = [t \in Rows |-> IF Held(t) /\ Due(t) THEN NoRow ELSE row[t]]
           /\ UNCHANGED now

Tick == now < MaxTime /\ now' = now + 1 /\ UNCHANGED row

ExpiryNext ==
  \/ \E t \in Rows : Get(t) \/ \E zone \in Offsets : Save(t, zone)
  \/ Collect \/ Tick

ExpirySpec == ExpiryInit /\ [][ExpiryNext]_expiryVars

-----------------------------------------------------------------------------
(* Of the proofs whose expires_at is UTC the collector removes exactly     *)
(* those get() would refuse, and list() names none of these, whatever      *)
(* zones other rows have: text order is time order.                        *)
TextOrderIsTimeOrder ==
  \A t \in Rows : Held(t) /\ row[t].zone = 0 =>
                    (Due(t) <=> Refused(t)) /\ (t \in Listed => ~Refused(t))
=============================================================================
