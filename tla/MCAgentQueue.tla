---------------------------- MODULE MCAgentQueue ----------------------------
(***************************************************************************)
(* TLC instance of AgentQueue: two calls of a tool without a lookup, of    *)
(* one with a lookup, or of one that overwrites what another wrote.        *)
(***************************************************************************)
EXTENDS AgentQueue

CONSTANTS r1, r2, old, bare

MCTools == {"queue_allocate", "queue_reallocate", "set_indexing_rule"}

MCEra == [a \in Allocation |-> IF a = old THEN "legacy" ELSE "undefined"]
=============================================================================
