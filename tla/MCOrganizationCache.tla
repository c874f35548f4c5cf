------------------------ MODULE MCOrganizationCache ------------------------
(* Instances of OrganizationCache for TLC. *)
EXTENDS OrganizationCache, TLC

CONSTANTS r1, r2, r3

Operators == Permutations(Runs)
=============================================================================
