---------------------------- MODULE MCRunScheduler ----------------------------
(***************************************************************************)
(* TLC instance of RunScheduler: two turns of one session, one turn of     *)
(* another and an ephemeral job.                                             *)
(***************************************************************************)
EXTENDS RunScheduler

CONSTANTS j1, j2, j3, j4, sessionA, sessionB

MCKeyOf ==
  [j \in Jobs |-> CASE j \in {j1, j2} -> sessionA
                    [] j = j3 -> sessionB
                    [] OTHER -> NoKey]

-----------------------------------------------------------------------------
\* The loop of drain as scheduler.ts:64 writes it: while there is a slot, take
\* the first waiting job whose key is free.
RECURSIVE DrainLoop(_, _, _, _)
DrainLoop(w, tk, a, keys) ==
  LET free == {j \in w : KeyFree(j, keys)}
      first == CHOOSE j \in free : \A i \in free : tk[j] <= tk[i]
  IN  IF a >= Limit \/ free = {} THEN {}
      ELSE {first} \cup DrainLoop(w \ {first}, tk, a + 1, keys \cup ({KeyOf[first]} \ {NoKey}))

\* The closed form Started, used by the model, is what the loop computes: for
\* every part of the queue and every count of slots and set of keys in use.
DrainIsLoop ==
  \A w \in SUBSET Waiting, a \in 0..Limit, keys \in SUBSET Keys :
    Started(w, ticket, a, keys) = DrainLoop(w, ticket, a, keys)
=============================================================================
