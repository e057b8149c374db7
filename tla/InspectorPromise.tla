---------------------------- MODULE InspectorPromise ----------------------------
(***************************************************************************)
(* What explorer-api's inspector promises to those that ask for blocks: a   *)
(* request is answered, with success only when the block is covered, and a  *)
(* covered block stays covered.  A block may become covered at any time,     *)
(* also by work whose request has failed.                                   *)
(***************************************************************************)
CONSTANTS Callers, Blocks, BlockOf

VARIABLES
  asking,   \* callers whose request is not answered
  granted,  \* callers whose last request succeeded
  covered   \* blocks whose facts are stored

vars == <<asking, granted, covered>>

Init == asking = {} /\ granted = {} /\ covered = {}

Ask(c) ==
  /\ c \notin asking
  /\ asking' = asking \cup {c}
  /\ granted' = granted \ {c}
  /\ UNCHANGED covered

Cover(b) ==
  /\ b \notin covered
  /\ covered' = covered \cup {b}
  /\ UNCHANGED <<asking, granted>>

\* Those that share a promise are answered together.
Grant(s) ==
  /\ s \subseteq asking /\ {BlockOf[c] : c \in s} \subseteq covered
  /\ asking' = asking \ s
  /\ granted' = granted \cup s
  /\ UNCHANGED covered

Refuse(s) ==
  /\ s \subseteq asking
  /\ asking' = asking \ s
  /\ UNCHANGED <<granted, covered>>

\* A restart forgets who was answered, never what is covered.
Forget == asking' = {} /\ granted' = {} /\ UNCHANGED covered

Next ==
  \/ \E c \in Callers : Ask(c)
  \/ \E b \in Blocks : Cover(b)
  \/ \E s \in SUBSET Callers : Grant(s) \/ Refuse(s)
  \/ Forget

Spec == Init /\ [][Next]_vars
=============================================================================
