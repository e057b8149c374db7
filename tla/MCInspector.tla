------------------------------- MODULE MCInspector -------------------------------
(***************************************************************************)
(* TLC instance of Inspector: a block view and the fill worker ask for the *)
(* one block, the head-follower for the other.                             *)
(***************************************************************************)
EXTENDS Inspector

CONSTANTS view, fill, head, b1, b2

MCBlockOf == [c \in Callers |-> IF c = head THEN b2 ELSE b1]
=============================================================================
