----------------------------- MODULE MCScalars -----------------------------
(***************************************************************************)
(* TLC instance of Numbers and TimeValues: one value, a number, a timespan  *)
(* or a timestamp, on its way.  An i64 has 7 bits and an f64 5, a second 10 *)
(* nanoseconds, units are 1, 1/2 second, 1 and 2 seconds, so that an i64 of *)
(* nanoseconds holds 6 seconds, and a float is exact up to 3.               *)
(***************************************************************************)
EXTENDS Numbers, TimeValues

MCUnits == {1, 5, 10, 20}
MCOffsets == {-3, 0, 10}

(* What only numbers, and what only times have *)
numberVars == <<args, wire>>
timeVars == <<host, value, text, offset, changes>>

NoTime ==
  /\ host = CHOOSE h \in Hosts : TRUE
  /\ value = 0 /\ text = Refused /\ changes = 0
  /\ offset = [h \in Hosts |-> 0]

ScalarInit == (Init /\ NoTime) \/ (TVInit /\ args = <<>> /\ wire = <<>>)

ScalarNext ==
  \/ kind = "number" /\ Next /\ UNCHANGED timeVars
  \/ kind # "number" /\ TVNext /\ UNCHANGED numberVars

ScalarSpec == ScalarInit /\ [][ScalarNext]_<<vars, timeVars>>
=============================================================================
