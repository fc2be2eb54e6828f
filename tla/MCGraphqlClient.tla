-------------------------- MODULE MCGraphqlClient --------------------------
(***************************************************************************)
(* TLC instances of GraphqlClient: calls a and b carry a signal, c does    *)
(* not.                                                                    *)
(***************************************************************************)
EXTENDS GraphqlClient, TLC

CONSTANTS a, b, c

CallSymmetry == Permutations(Signalled)
=============================================================================
