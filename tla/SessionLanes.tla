------------------------------ MODULE SessionLanes ------------------------------
(***************************************************************************)
(* What the scheduler of agent-api promises, without its queue: jobs line   *)
(* up in lanes, one lane for each persistent session and one for each       *)
(* ephemeral job; only the head of a lane runs, at most Limit heads run,    *)
(* and no slot is left idle while the head of some lane could run.          *)
(***************************************************************************)
EXTENDS Integers, FiniteSets

CONSTANTS
  Jobs,
  Lane,     \* the jobs of each job's lane, itself included
  Limit

VARIABLES
  standing, \* the jobs that have arrived and not left
  ahead,    \* those of its lane that a standing job stands behind
  running

vars == <<standing, ahead, running>>

Init == standing = {} /\ ahead = [j \in Jobs |-> {}] /\ running = {}

Heads == {j \in standing : ahead[j] = {}}

\* The jobs r go on, and heads start until the slots are full or all heads run.
Fill(r) ==
  \E s \in SUBSET (Heads' \ r) :
    /\ running' = r \cup s
    /\ Cardinality(running') <= Limit
    /\ Cardinality(running') = Limit \/ running' = Heads'

Arrive(j) ==
  /\ j \notin standing
  /\ standing' = standing \cup {j}
  /\ ahead' = [ahead EXCEPT ![j] = standing \cap Lane[j]]
  /\ Fill(running)

Leave(j) ==
  /\ j \in running
  /\ standing' = standing \ {j}
  /\ ahead' = [i \in Jobs |-> ahead[i] \ {j}]
  /\ Fill(running \ {j})

Next == \E j \in Jobs : Arrive(j) \/ Leave(j)

Spec == Init /\ [][Next]_vars
=============================================================================
