--------------------------- MODULE MCOptimizerRun ---------------------------
(***************************************************************************)
(* TLC instances of OptimizerRun: deployments drawn from records that      *)
(* cover every list, every state graph-node reports and every signal.      *)
(***************************************************************************)
EXTENDS OptimizerRun, TLC

CONSTANTS near, far

Made(active, signal, denied, status, lists) ==
  [active |-> active, signal |-> signal, denied |-> denied, status |-> status, chain |-> near,
   lists |-> lists]

Varied ==
  {Made({2}, "high", FALSE, "ready", {}),
   Made({1, 2}, "low", FALSE, "ready", {}),
   Made({1}, "none", FALSE, "ready", {}),
   Made({1}, "high", FALSE, "ready", {"frozen"}),
   Made({3}, "low", FALSE, "unhealthy", {"frozen", "black"}),
   Made({2}, "high", FALSE, "paused", {"white"}),
   Made({1}, "high", FALSE, "none", {}),
   Made({}, "high", FALSE, "ready", {}),
   Made({}, "low", TRUE, "ready", {"white"}),
   Made({}, "high", TRUE, "ready", {}),
   Made({}, "high", FALSE, "never", {"white"}),
   Made({}, "high", FALSE, "behind", {}),
   [Made({}, "high", FALSE, "behind", {}) EXCEPT !.chain = far],
   Made({2}, "high", FALSE, "blockless", {}),
   Made({}, "high", FALSE, "ready", {"black", "white"}),
   Made({}, "high", FALSE, "ready", {"frozen"})}

(* Fit allocations only: what an outage does to them. *)
Healthy3 ==
  {Made({2}, "high", FALSE, "ready", {}), Made({2}, "low", FALSE, "ready", {}),
   Made({}, "high", FALSE, "ready", {})}

(* Deployments behind the start of the epoch. *)
Lagging == {Made({}, "high", FALSE, "behind", {}), Made({2}, "high", FALSE, "behind", {})}

Interchangeable == Permutations(Deployment)
=============================================================================
