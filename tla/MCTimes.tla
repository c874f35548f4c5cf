------------------------------ MODULE MCTimes ------------------------------
(* Instances of Times for TLC, two instants to the second, for little more than two hours. *)
EXTENDS Times
MCObserved  == {-3, 7}
MCRefreshes == {-1, 121, 14600}
MCWindows   == {0, 90, 120}
=============================================================================
