----------------------------- MODULE MCPolling -----------------------------
(* Instances of Polling for TLC: the window of a minute is 8 units of time. *)
EXTENDS Polling

Timeouts     == {3, 8, 11, 30}
Intervals    == {0, 1, 2, 3, 12, 20}     \* 12 is past the window, 20 wraps around in 5 bits
=============================================================================
