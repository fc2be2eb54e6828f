--------------------------- MODULE MCHealthMonitor ---------------------------
(***************************************************************************)
(* TLC instance of HealthMonitor: two allocations, on one deployment or on *)
(* two; the epoch starts at block 4 and then at block 8 of the      *)
(* chain, and the oracle knows no start for the other chain.               *)
(***************************************************************************)
EXTENDS HealthMonitor, TLC

CONSTANTS a1, a2, d1, d2, main, other

Placements == {a1 :> d1 @@ a2 :> d1, a1 :> d1 @@ a2 :> d2}
Stakes == a1 :> 1 @@ a2 :> 3
Starts == <<main :> 4 @@ other :> Unknown, main :> 8 @@ other :> Unknown>>

On(net, latest, healthy) == [network |-> net, latest |-> latest, healthy |-> healthy]
Reports(health, fatal, block, pattern, chains) ==
  [health |-> health, fatal |-> fatal, block |-> block, pattern |-> pattern, chains |-> chains]

Rows ==
  {Reports("healthy", "none", Unknown, "other", <<On(main, 6, Unknown)>>),
   Reports("unhealthy", "none", Unknown, "other", <<On(main, 9, 7), On(other, 9, Unknown)>>),
   Reports("failed", "nondet", 6, "rewind", <<On(main, 6, 5)>>),
   Reports("failed", "det", 6, "clear", <<On(main, 6, Unknown)>>),
   Reports("failed", "none", Unknown, "other", <<On(other, 3, Unknown)>>)}
=============================================================================
