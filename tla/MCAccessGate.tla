---------------------------- MODULE MCAccessGate ----------------------------
(***************************************************************************)
(* TLC instance of AccessGate: two tokens that begin as an administrator   *)
(* and as a viewer, a name that needs a right, one on the deny list and    *)
(* one that was never registered.                                          *)
(***************************************************************************)
EXTENDS AccessGate, TLC

CONSTANTS t1, t2, admin, viewer

NamesOfRun == {"approve_actions", "graphman_drop", "typo"}

ClassOfRun ==
  [n \in NamesOfRun \ {"typo"} |-> "agent_approve"]

InitiallyOfRun == [t \in {t1, t2} |-> IF t = t1 THEN admin ELSE viewer]

GrantedOfRun == {<<admin, "agent_approve">>}

Interchangeable == Permutations(Call)
=============================================================================
