------------------------- MODULE MCDeploymentReads -------------------------
(***************************************************************************)
(* TLC instances of DeploymentReads.  The argument sets are those between  *)
(* which the schemas have to tell.                                         *)
(***************************************************************************)
EXTENDS DeploymentReads, TLC

CONSTANTS r1, r2, m1, m2

MCKinds == {"unassign", "reassign", "restart", "check_blocks"}

MCRequests == {{}, {"by_number"}, {"by_hash", "by_number"}}

Symmetry == Permutations(Read) \cup Permutations(Mutation)
=============================================================================
