------------------------------ MODULE MCPages ------------------------------
(***************************************************************************)
(* TLC instance of Pages: seven rows of three deployments, one row without *)
(* a deployment, without a metric, without a weight; pages of two rows, at *)
(* most three of them, so that the table can be one row longer than the    *)
(* cap.                                                                    *)
(***************************************************************************)
EXTENDS Pages

CONSTANTS d, e, f

MCPlace == <<4, 1, 7, 3, 2, 5, 6>>
MCOwner == <<d, e, f, e, None, d, e>>
MCVolume == <<3, 2, 4, 2, 9, 1, 2>>
MCWeight == <<2, 3, 1, 0, 2, 1, 2>>
MCMetric == <<5, 1, None, 7, -1, 3, 2>>
=============================================================================
