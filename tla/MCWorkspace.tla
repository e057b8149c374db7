------------------------------ MODULE MCWorkspace ------------------------------
(***************************************************************************)
(* Small instances of Workspace: two tabs, of one incident or of two.        *)
(***************************************************************************)
EXTENDS Workspace

CONSTANTS p1, p2, t1, t2

MCTimeOf == [s \in Snaps |-> s]

\* One of the tabs shows p1, the other p1 or p2; which of the two blocks is called
\* 1, and what the disk has of a project nobody looks at, does not matter.
MCInit ==
  /\ Init
  /\ ProjectOf(t1) = p1 /\ chain = [p \in Projects |-> 1]
  /\ (\A t \in Tabs : ProjectOf(t) = p1) => discovered[p2] = None /\ recorded[p2] = None

MCSpec == MCInit /\ [][Next]_vars /\ Fairness
================================================================================
