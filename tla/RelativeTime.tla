---------------------------- MODULE RelativeTime ----------------------------
(***************************************************************************)
(* The times of the tables, kept as distances from the present: what the   *)
(* code compares with now.  A time that is past stays at Expired, since    *)
(* nobody asks how long ago it was; Absent is a key that is not in a map.  *)
(***************************************************************************)
EXTENDS Integers

Expired == -1
Absent  == -2

Elapse(t) == IF t > Expired THEN t - 1 ELSE t
=============================================================================
