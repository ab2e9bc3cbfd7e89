------------------------------- MODULE MCFxBooks -------------------------------
(* An instance of FxBooks for TLC.                                         *)
EXTENDS FxBooks, TLC

\* Rates in parts of a cent, a cent having four: 2.5, 3, 2.75 and 1.25 cents.
MCRate == 0 :> 10 @@ 1 :> 12 @@ 2 :> 11 @@ 3 :> 5
\* One unit at 3 cents, two units sold at 5.
MCBookings == {[fcy |-> 1, krw |-> 3], [fcy |-> -2, krw |-> -5]}

\* Two requests race over the first days; revaluations once something is booked.
Stage ==
  LET arrived == {r \in Requests : pc[r] # "idle"} IN
  /\ \A r \in arrived : input[r].op = "revalue" => bookings > 0
  /\ (\E r \in arrived : input[r].op \in {"rate", "range", "collect"}) => bookings = 0

MCSymmetry == Permutations(Requests)
=============================================================================
