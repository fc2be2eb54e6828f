---------------------------- MODULE MCDiscovery ----------------------------
(***************************************************************************)
(* TLC instances of Discovery: deployments drawn from records that cover   *)
(* every reason, every list and every state of graph-node.                 *)
(***************************************************************************)
EXTENDS Discovery, TLC

Made(signal, active, denied, status, paused, on) ==
  [signal |-> signal, active |-> active, denied |-> denied, status |-> status,
   paused |-> paused, lists |-> on]

Varied ==
  {Made("high", FALSE, FALSE, "none", FALSE, {}),              \* a candidate
   Made("high", FALSE, TRUE, "none", FALSE, {"white"}),
   Made("high", FALSE, FALSE, "none", FALSE, {"black", "white"}),
   Made("high", TRUE, FALSE, "synced", FALSE, {}),
   Made("high", TRUE, FALSE, "none", FALSE, {}),
   Made("high", FALSE, FALSE, "synced", FALSE, {}),            \* unallocated
   Made("high", FALSE, FALSE, "synced", FALSE, {"white"}),
   Made("high", FALSE, FALSE, "syncing", FALSE, {}),
   Made("high", FALSE, FALSE, "synced", TRUE, {}),             \* maintenance
   Made("none", TRUE, FALSE, "synced", TRUE, {}),
   Made("none", FALSE, FALSE, "synced", TRUE, {}),             \* abandoned
   Made("none", FALSE, FALSE, "synced", FALSE, {"frozen"}),
   Made("none", TRUE, FALSE, "synced", FALSE, {}),             \* to be closed first
   Made("low", TRUE, FALSE, "synced", FALSE, {"white"})}

Interchangeable == Permutations(Deployment)
=============================================================================
