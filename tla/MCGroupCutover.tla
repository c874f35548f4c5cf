--------------------------- MODULE MCGroupCutover ---------------------------
(* Instances of RepeatedCutover for TLC. *)
EXTENDS RepeatedCutover

CONSTANTS r1, r2, c1, c2
=============================================================================
