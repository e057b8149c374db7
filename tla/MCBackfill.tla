-------------------------------- MODULE MCBackfill --------------------------------
(***************************************************************************)
(* TLC instance of Backfill: three requests with overlapping ranges.        *)
(***************************************************************************)
EXTENDS Backfill

CONSTANTS r1, r2, r3

MCFrom == [r \in Requests |-> IF r = r2 THEN 2 ELSE 1]
MCTo == [r \in Requests |-> IF r = r3 THEN 1 ELSE 2]
=============================================================================
