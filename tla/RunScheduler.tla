------------------------------ MODULE RunScheduler ------------------------------
(***************************************************************************)
(* The process-wide provider concurrency cap of agent-api:                 *)
(* src/apps/agent-api/src/scheduler.ts.                                    *)
(*                                                                         *)
(* A job is one call of RunScheduler.run.  JavaScript runs each call of    *)
(* run and each settlement of a task's promise to completion, so run and   *)
(* complete are one action each, the drain they end with included.  The    *)
(* array `waiting` is the set of waiting jobs ordered by the ticket of     *)
(* their push: splice removes a job, and the order of the others stays.    *)
(***************************************************************************)
EXTENDS Integers, FiniteSets

CONSTANTS
  Jobs,    \* the calls of run
  Keys,    \* persistent-session keys
  NoKey,   \* the undefined key of an ephemeral job
  KeyOf,   \* the key each job is submitted under
  Limit    \* the constructor's limit

ASSUME LimitAssumption == Limit \in Nat \ {0}
ASSUME KeyAssumption == NoKey \notin Keys /\ KeyOf \in [Jobs -> Keys \cup {NoKey}]

VARIABLES
  phase,        \* where each job is: see Phases
  ticket,       \* the push number of a job, 0 before its push
  pushes,       \* how many jobs have been pushed
  active,       \* slots taken
  activeKeys,   \* keys of running jobs
  queued,       \* jobs whose onQueued callback was called
  childActive,  \* jobs whose permit is lent to a child
  children,     \* child tasks in flight under a job's permit
  refused       \* jobs that were refused a nested child

vars == <<phase, ticket, pushes, active, activeKeys, queued,
          childActive, children, refused>>
permits == <<childActive, children, refused>>

Phases == {"new", "waiting", "running", "resolved", "rejected"}
Outcomes == {"resolved", "rejected"}
Waiting == {j \in Jobs : phase[j] = "waiting"}
Running == {j \in Jobs : phase[j] = "running"}
Settled == {j \in Jobs : phase[j] \in Outcomes}

-----------------------------------------------------------------------------
(* The definitions named ..._Bug below are mutated forms of the one that    *)
(* follows them: each is a plausible slip in that code, and shows that the  *)
(* property it is listed with in PROJECT.json notices it.                   *)

\* The key of job j does not keep it from starting.
KeyFree(j, keys) == KeyOf[j] = NoKey \/ KeyOf[j] \notin keys

\* The last job of a session is taken first.
Startable_Bug(w, tk, keys) ==
  {j \in w : /\ KeyFree(j, keys)
             /\ \A i \in w : (KeyOf[i] = KeyOf[j] /\ KeyOf[j] # NoKey) => tk[i] <= tk[j]}

\* The jobs of w that the loop of drain could start if slots never ran out:
\* a keyed job blocks the later jobs of its key as soon as it starts.
Startable(w, tk, keys) ==
  {j \in w : /\ KeyFree(j, keys)
             /\ \A i \in w : (KeyOf[i] = KeyOf[j] /\ KeyOf[j] # NoKey) => tk[j] <= tk[i]}

\* while (this.active <= this.limit)
Started_Bug(w, tk, a, keys) ==
  LET candidates == Startable(w, tk, keys)
  IN  {j \in candidates :
         Cardinality({i \in candidates : tk[i] < tk[j]}) <= Limit - a}

\* What the loop of drain starts: the first Limit - a startable jobs.
Started(w, tk, a, keys) ==
  LET candidates == Startable(w, tk, keys)
  IN  {j \in candidates :
         Cardinality({i \in candidates : tk[i] < tk[j]}) < Limit - a}

\* drain(), called with the waiting jobs w, their tickets tk, a slots taken
\* and the keys in use; ph is the phase of the other jobs.
Drain(w, tk, a, keys, ph) ==
  LET s == Started(w, tk, a, keys)
  IN  /\ phase' = [j \in Jobs |-> CASE j \in s -> "running"
                                    [] j \in w \ s -> "waiting"
                                    [] OTHER -> ph[j]]
      /\ active' = a + Cardinality(s)
      /\ activeKeys' = keys \cup ({KeyOf[j] : j \in s} \ {NoKey})

-----------------------------------------------------------------------------
Init ==
  /\ phase = [j \in Jobs |-> "new"]
  /\ ticket = [j \in Jobs |-> 0]
  /\ pushes = 0
  /\ active = 0
  /\ activeKeys = {}
  /\ queued = {}
  /\ childActive = {}
  /\ children = [j \in Jobs |-> 0]
  /\ refused = {}

CanStartNow(j) == active < Limit /\ KeyFree(j, activeKeys) /\ Waiting = {}

\* run(key, task, onQueued)
Run(j) ==
  /\ phase[j] = "new"
  /\ queued' = IF CanStartNow(j) THEN queued ELSE queued \cup {j}
  /\ pushes' = pushes + 1
  /\ ticket' = [ticket EXCEPT ![j] = pushes + 1]
  /\ Drain(Waiting \cup {j}, ticket', active, activeKeys, phase)
  /\ UNCHANGED permits

\* No finally: a rejected job keeps its slot.
Complete_BugReject(j, outcome) ==
  /\ phase[j] = "running"
  /\ children[j] = 0
  /\ Drain(Waiting, ticket, IF outcome = "rejected" THEN active ELSE active - 1,
           activeKeys \ {KeyOf[j]}, [phase EXCEPT ![j] = outcome])
  /\ UNCHANGED <<ticket, pushes, queued, permits>>

\* drain() before activeKeys.delete: the next turn of the session is not seen.
Complete_BugOrder(j, outcome) ==
  /\ phase[j] = "running"
  /\ children[j] = 0
  /\ LET s == Started(Waiting, ticket, active - 1, activeKeys)
     IN  /\ phase' = [i \in Jobs |-> IF i = j THEN outcome
                                     ELSE IF i \in s THEN "running" ELSE phase[i]]
         /\ active' = active - 1 + Cardinality(s)
         /\ activeKeys' = (activeKeys \cup ({KeyOf[i] : i \in s} \ {NoKey})) \ {KeyOf[j]}
  /\ UNCHANGED <<ticket, pushes, queued, permits>>

\* complete(job, error): settle the caller's promise, free the slot and the
\* key, drain.  A task awaits the child it started (runner.ts:531), so it does
\* not settle while its permit is lent.
Complete(j, outcome) ==
  /\ phase[j] = "running"
  /\ children[j] = 0
  /\ Drain(Waiting, ticket, active - 1, activeKeys \ {KeyOf[j]},
           [phase EXCEPT ![j] = outcome])
  /\ UNCHANGED <<ticket, pushes, queued, permits>>

\* permit.runChild(task) on a free permit
RunChild(j) ==
  /\ phase[j] = "running"
  /\ j \notin childActive
  /\ childActive' = childActive \cup {j}
  /\ children' = [children EXCEPT ![j] = @ + 1]
  /\ UNCHANGED <<phase, ticket, pushes, active, activeKeys, queued, refused>>

\* permit.runChild(task) while the permit is lent: the throw is before the
\* try, so the finally that clears childActive does not run.  One refusal per
\* job bounds the model.
RefuseNested(j) ==
  /\ phase[j] = "running"
  /\ j \in childActive \ refused
  /\ refused' = refused \cup {j}
  /\ UNCHANGED <<phase, ticket, pushes, active, activeKeys, queued,
                 childActive, children>>

\* The child's promise settles, either way: finally.
ChildDone(j) ==
  /\ children[j] > 0
  /\ children' = [children EXCEPT ![j] = @ - 1]
  /\ childActive' = childActive \ {j}
  /\ UNCHANGED <<phase, ticket, pushes, active, activeKeys, queued, refused>>

\* No task runs: the process waits for requests.
Idle == Running = {} /\ UNCHANGED vars

Next ==
  \/ \E j \in Jobs : Run(j)
  \/ \E j \in Jobs, outcome \in Outcomes : Complete(j, outcome)
  \/ \E j \in Jobs : RunChild(j)
  \/ \E j \in Jobs : RefuseNested(j)
  \/ \E j \in Jobs : ChildDone(j)
  \/ Idle

Spec == Init /\ [][Next]_vars

-----------------------------------------------------------------------------
\* Every variable has its type (the fields of RunScheduler and its permits).
TypeOK ==
  /\ phase \in [Jobs -> Phases]
  /\ ticket \in [Jobs -> Nat]
  /\ pushes \in Nat
  /\ active \in Nat
  /\ activeKeys \subseteq Keys
  /\ queued \subseteq Jobs
  /\ childActive \subseteq Jobs
  /\ children \in [Jobs -> Nat]
  /\ refused \subseteq Jobs

\* The slot counter of scheduler.ts:39 is never over the limit and never
\* drifts from the number of tasks that run, whatever the order in which jobs
\* are submitted, finish and fail.
SlotsAccounted ==
  /\ IsFiniteSet(Running)
  /\ active = Cardinality(Running)
  /\ active <= Limit

\* Two turns of one persistent session never overlap (scheduler.ts:36), and no
\* key is leaked by a job that finished or failed.
SessionExclusive ==
  /\ activeKeys = {KeyOf[j] : j \in Running} \ {NoKey}
  /\ \A i, j \in Running : (KeyOf[i] = KeyOf[j] /\ KeyOf[i] # NoKey) => i = j

\* Turns of one session start in the order they were submitted, and an
\* ephemeral job never overtakes an earlier ephemeral one.
FifoPerKey ==
  \A i \in Waiting, j \in Running \cup Settled :
    KeyOf[i] = KeyOf[j] => ticket[j] < ticket[i]

\* No wake-up is lost: a job waits only for a slot or for its own session.
WorkConserving ==
  active < Limit => \A j \in Waiting : ~KeyFree(j, activeKeys)

\* A permit carries at most one child, whatever nested requests are refused
\* meanwhile, so parents and children together never exceed the limit.
OneChildPerPermit ==
  \A j \in Jobs : /\ children[j] <= 1
                  /\ (children[j] = 1) <=> (j \in childActive)
                  /\ children[j] = 1 => j \in Running

\* The array `waiting` as a ticket order: pushed jobs have distinct tickets.
TicketsOrdered ==
  /\ IsFiniteSet(Waiting)
  /\ \A j \in Jobs : /\ ticket[j] <= pushes
                     /\ phase[j] = "new" <=> ticket[j] = 0
  /\ \A i, j \in Jobs : ticket[i] = ticket[j] /\ ticket[i] # 0 => i = j

\* The inductive invariant of RunScheduler_proofs.  WorkConserving is needed
\* for FifoPerKey and the other way round: only because no startable job is
\* left waiting does each event start at most one job.
IndInv ==
  /\ TypeOK
  /\ TicketsOrdered
  /\ SlotsAccounted
  /\ SessionExclusive
  /\ FifoPerKey
  /\ WorkConserving
  /\ OneChildPerPermit

\* A promise handed to a caller is settled once and never unsettled, and a job
\* is never taken out of the queue without being run.
SettleOnce ==
  [][\A j \in Jobs : /\ phase[j] \in Outcomes => phase'[j] = phase[j]
                     /\ phase[j] = "waiting" => phase'[j] \in {"waiting", "running"}
                     /\ phase[j] = "running" => phase'[j] # "waiting"]_vars

-----------------------------------------------------------------------------
(* The lanes of SessionLanes: the turns of a session, or an ephemeral job.   *)

Lane == [j \in Jobs |-> {i \in Jobs : i = j \/ (KeyOf[i] = KeyOf[j] /\ KeyOf[j] # NoKey)}]
Standing == Waiting \cup Running

\* The unfinished jobs of its lane that were pushed before an unfinished job.
Ahead ==
  [j \in Jobs |-> IF j \in Standing THEN {i \in Standing \cap Lane[j] : ticket[i] < ticket[j]}
                 ELSE {}]

Promise == INSTANCE SessionLanes WITH standing <- Standing, ahead <- Ahead, running <- Running

\* The scheduler implements the lanes: one per persistent session, served in
\* order, at most Limit heads at a time and no slot idle (scheduler.ts:36).
ImplementsLanes == Promise!Spec
=============================================================================
