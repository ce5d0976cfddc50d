----------------------------- MODULE Timestamps -----------------------------
(* A datetime and the texts the SDK makes of it.  A time is an instant and *)
(* the offset of the zone it was taken in, whole seconds.  A text is what  *)
(* can be read in it: the local time, how its fraction is written and what *)
(* it ends with; equal texts are equal records, and text order is that of  *)
(* the local time, whose digits have fixed places; where one text has no   *)
(* fraction its ending is compared with a point, which comes after a sign. *)
EXTENDS Integers

Second == 100  \* ticks of the clock; the last digit may be a zero
Times(instants, zones) == [instant : instants, zone : zones]

(* The fraction with trailing zeros stripped, or with all its digits.      *)
Stripped(instant) == CASE instant % Second = 0 -> "none"
                       [] instant % Second # 0 /\ instant % 10 = 0 -> "stripped"
                       [] OTHER -> "all digits"
AllDigits(instant) == IF instant % Second = 0 THEN "none" ELSE "all digits"

Text(local, fraction, ending) == [local |-> local, fraction |-> fraction, ending |-> ending]

(* _format_datetime_rfc3339nano: in UTC.                                   *)
Rfc3339Nano(time) == Text(time.instant, Stripped(time.instant), <<"Z">>)

(* The timestamp in compute_proof_hash: the local time, ending in Z.       *)
ProofTime(time) == Text(time.instant + time.zone, Stripped(time.instant), <<"Z">>)

(* datetime.isoformat()                                                    *)
IsoFormat(time) ==
  Text(time.instant + time.zone, AllDigits(time.instant), <<"offset", time.zone>>)

(* "+" comes before "-" in ASCII.                                          *)
EndingBefore(z1, z2) == IF z1 >= 0 /\ z2 >= 0 THEN z1 < z2
                        ELSE IF z1 < 0 /\ z2 < 0 THEN z2 < z1
                        ELSE z1 >= 0 /\ z2 < 0

(* SQL compares two isoformat() texts.                                     *)
TextBefore(t1, t2) ==
  \/ t1.instant + t1.zone < t2.instant + t2.zone
  \/ /\ t1.instant + t1.zone = t2.instant + t2.zone
     /\ EndingBefore(t1.zone, t2.zone)
=============================================================================
