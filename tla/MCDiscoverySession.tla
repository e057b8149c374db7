---------------------------- MODULE MCDiscoverySession ----------------------------
(***************************************************************************)
(* TLC instance of DiscoverySession: three turns, of which the second is     *)
(* asked with another selection and the last with a reset.                  *)
(***************************************************************************)
EXTENDS DiscoverySession

CONSTANTS t1, t2, t3, selectionA, selectionB, low

MCFingerprint == [j \in Jobs |-> IF j = t2 THEN selectionB ELSE selectionA]
MCEffort == [j \in Jobs |-> low]
=============================================================================
