-------------------------------- MODULE MCAnalysis --------------------------------
(***************************************************************************)
(* TLC instance of Analysis: one turn asks for a contract at two addresses   *)
(* through one worker slot.                                                *)
(***************************************************************************)
EXTENDS Analysis

CONSTANTS c1, c2, p1, h1

MCParentOf == [c \in Calls |-> p1]
MCCodeOf == [c \in Calls |-> h1]
=============================================================================
