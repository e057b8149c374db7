----------------------------- MODULE DiscoverySession -----------------------------
(***************************************************************************)
(* Turns of one Discovery conversation, POST /api/agent/discovery: the       *)
(* handler (src/apps/agent-api/src/server.ts), the runner's cache of live pi *)
(* sessions (runner.ts), the durable row of the conversation (saveSession,   *)
(* store.ts) and the scheduler between them (RunScheduler).                  *)
(*                                                                         *)
(* A turn is a request for one project, incident and kind.  What tells two   *)
(* turns apart is their fingerprint (the selected bundles and candidates,    *)
(* with the model, which the row is compared by as well) and their effort;   *)
(* a conversation is the sequence of turns the model has seen.  The stages   *)
(* of a turn change where the code awaits; what runs between two awaits is   *)
(* one action, the start of the turn that drain begins included.            *)
(***************************************************************************)
EXTENDS Integers, FiniteSets, Sequences, SequencesExt

CONSTANTS
  Jobs,         \* the turns
  Fingerprint,  \* of the selection and model of a turn
  Effort,       \* the thinking level of a turn
  Reset,        \* the turns that ask for a fresh conversation
  NoKey,        \* the key of an ephemeral run: no turn has it
  NoRow,        \* there is no durable row
  Limit,        \* AGENT_MAX_CONCURRENCY
  MaxLive,      \* MAX_PERSISTENT_SESSIONS
  MaxCrashes,   \* bound: how many times the process restarts
  MaxAborts     \* bound: how many clients disconnect

\* persistentKey: a live session belongs to a fingerprint and an effort.
KeyOf == [j \in Jobs |-> <<Fingerprint[j], Effort[j]>>]
Keys == {KeyOf[j] : j \in Jobs}

ASSUME RowAssumption == NoRow \notin {Fingerprint[j] : j \in Jobs}
ASSUME LiveAssumption == MaxLive \in Nat \ {0}
ASSUME SchedulerAssumption == Limit \in Nat \ {0} /\ NoKey \notin Keys
ASSUME BoundAssumption == MaxCrashes \in Nat /\ MaxAborts \in Nat /\ Reset \subseteq Jobs

VARIABLES
  phase, ticket, pushes, active, activeKeys, queued, childActive, children, refused,
  stage,      \* where each turn is: see Stages
  history,    \* the durable turns it has read, if it may use them
  row,        \* the durable row: [fingerprint, turns]
  live,       \* per key, the conversation its live session has seen
  order,      \* keys of the persistentSessions map, oldest first
  context,    \* the conversation the model was shown with a turn
  report,     \* the turns that ended with a report
  aborted,    \* the turns whose abort signal is set
  crashes

schedulerVars ==
  <<phase, ticket, pushes, active, activeKeys, queued, childActive, children, refused>>
cache == <<live, order>>
turnVars == <<stage, context>>
vars == <<schedulerVars, turnVars, history, row, cache, report, aborted, crashes>>

Scheduler == INSTANCE RunScheduler

Stages == {"new", "read", "submitted", "loading", "prompting", "finished", "failed",
           "saved", "ended"}
\* The task of the turn is at work; the turn has not ended.
AtWork == {"loading", "prompting"}
Unfinished == Stages \ {"new", "saved", "ended"}

Init ==
  /\ Scheduler!Init
  /\ stage = [j \in Jobs |-> "new"]
  /\ history = [j \in Jobs |-> <<>>]
  /\ row = [fingerprint |-> NoRow, turns |-> <<>>]
  /\ live = [k \in Keys |-> <<>>]
  /\ order = <<>>
  /\ context = [j \in Jobs |-> <<>>]
  /\ report = {}
  /\ aborted = {}
  /\ crashes = 0

-----------------------------------------------------------------------------
\* Only the model of the row is compared, not what was selected.
Read_Bug(j) ==
  /\ stage[j] = "new"
  /\ stage' = [stage EXCEPT ![j] = "read"]
  /\ history' = [history EXCEPT ![j] = IF j \notin Reset THEN row.turns ELSE <<>>]
  /\ UNCHANGED <<schedulerVars, row, cache, context, report, aborted, crashes>>

\* The request arrives and getSession answers: the turns of the row are used
\* when it is for this fingerprint and the request asks for no reset.
Read(j) ==
  /\ stage[j] = "new"
  /\ stage' = [stage EXCEPT ![j] = "read"]
  /\ history' = [history EXCEPT ![j] =
       IF row.fingerprint = Fingerprint[j] /\ j \notin Reset THEN row.turns ELSE <<>>]
  /\ UNCHANGED <<schedulerVars, row, cache, context, report, aborted, crashes>>

\* A live session is sent the whole conversation again.
StartTasks_Bug(s, stages) ==
  LET run == {j \in s : j \notin aborted}
      cached == {j \in run : Contains(order, KeyOf[j])}
      prompt(j) == live[KeyOf[j]] \o Append(history[j], j)
  IN  /\ stage' = [j \in Jobs |-> CASE j \in s \ run -> "finished"
                                    [] j \in cached -> "prompting"
                                    [] j \in run \ cached -> "loading"
                                    [] OTHER -> stages[j]]
      /\ context' = [j \in Jobs |-> IF j \in cached THEN prompt(j) ELSE context[j]]
      /\ live' = [k \in Keys |->
           IF \E j \in cached : KeyOf[j] = k
           THEN prompt(CHOOSE j \in cached : KeyOf[j] = k) ELSE live[k]]

\* A turn whose client left while it waited runs all the same.
StartTasks_BugAborted(s, stages) ==
  LET cached == {j \in s : Contains(order, KeyOf[j])}
      prompt(j) == Append(live[KeyOf[j]], j)
  IN  /\ stage' = [j \in Jobs |-> CASE j \in cached -> "prompting"
                                    [] j \in s \ cached -> "loading"
                                    [] OTHER -> stages[j]]
      /\ context' = [j \in Jobs |-> IF j \in cached THEN prompt(j) ELSE context[j]]
      /\ live' = [k \in Keys |->
           IF \E j \in cached : KeyOf[j] = k
           THEN prompt(CHOOSE j \in cached : KeyOf[j] = k) ELSE live[k]]

\* drain calls the tasks of the turns s: those whose client has left return at
\* once, those with a live session prompt it with the question alone, and the
\* others load what a session is created from.
StartTasks(s, stages) ==
  LET run == {j \in s : j \notin aborted}
      cached == {j \in run : Contains(order, KeyOf[j])}
      prompt(j) == Append(live[KeyOf[j]], j)
  IN  /\ stage' = [j \in Jobs |-> CASE j \in s \ run -> "finished"
                                    [] j \in cached -> "prompting"
                                    [] j \in run \ cached -> "loading"
                                    [] OTHER -> stages[j]]
      /\ context' = [j \in Jobs |-> IF j \in cached THEN prompt(j) ELSE context[j]]
      /\ live' = [k \in Keys |->
           IF \E j \in cached : KeyOf[j] = k
           THEN prompt(CHOOSE j \in cached : KeyOf[j] = k) ELSE live[k]]

Begun == {j \in Jobs : phase[j] # "running" /\ phase'[j] = "running"}

\* runAnalysis, in the same turn of the event loop as the end of the read.
Submit(j) ==
  /\ stage[j] = "read"
  /\ Scheduler!Run(j)
  /\ StartTasks(Begun, [stage EXCEPT ![j] = "submitted"])
  /\ UNCHANGED <<history, row, order, report, aborted, crashes>>

\* loadPiConfig, reload or createAgentSession fails.
LoadFails(j) ==
  /\ stage[j] = "loading"
  /\ stage' = [stage EXCEPT ![j] = "failed"]
  /\ UNCHANGED <<schedulerVars, history, row, cache, context, report, aborted, crashes>>

\* Nothing is evicted.
Evict_Bug(keys) == keys

\* The while loop that disposes the oldest sessions, busy or not.
Evict(keys) == IF Len(keys) > MaxLive THEN Tail(keys) ELSE keys

\* The session is created, kept, and prompted with the durable conversation.
\* An abort that came before is not seen: the listener is added only now.
SessionCreated(j) ==
  LET conversation == Append(history[j], j)
  IN  /\ stage[j] = "loading"
      /\ stage' = [stage EXCEPT ![j] = "prompting"]
      /\ live' = [live EXCEPT ![KeyOf[j]] = conversation]
      /\ order' = Evict(Append(order, KeyOf[j]))
      /\ context' = [context EXCEPT ![j] = conversation]
      /\ UNCHANGED <<schedulerVars, history, row, report, aborted, crashes>>

\* prompt ends with text (done), or without (error), aborted or not.
PromptEnds(j, text) ==
  /\ stage[j] = "prompting" /\ children[j] = 0
  /\ stage' = [stage EXCEPT ![j] = "finished"]
  /\ report' = IF text THEN report \cup {j} ELSE report
  /\ UNCHANGED <<schedulerVars, history, row, cache, context, aborted, crashes>>

\* The model asks for the analysis of a contract; the child takes its permit.
RunChild(j) ==
  /\ stage[j] = "prompting"
  /\ Scheduler!RunChild(j)
  /\ UNCHANGED <<turnVars, history, row, cache, report, aborted, crashes>>

ChildDone(j) ==
  /\ Scheduler!ChildDone(j)
  /\ UNCHANGED <<turnVars, history, row, cache, report, aborted, crashes>>

\* The task has settled: the scheduler settles the promise and drains.
Settle(j) ==
  /\ stage[j] \in {"finished", "failed"}
  /\ Scheduler!Complete(j, IF stage[j] = "failed" THEN "rejected" ELSE "resolved")
  /\ StartTasks(Begun, [stage EXCEPT ![j] = IF j \in report THEN "finished" ELSE "ended"])
  /\ UNCHANGED <<history, row, order, report, aborted, crashes>>

\* saveSession, after the next turn has started: the row becomes the turns this
\* request had read, and its own.
Save(j) ==
  /\ stage[j] = "finished" /\ phase[j] = "resolved"
  /\ stage' = [stage EXCEPT ![j] = "saved"]
  /\ row' = [fingerprint |-> Fingerprint[j], turns |-> Append(history[j], j)]
  /\ UNCHANGED <<schedulerVars, history, cache, context, report, aborted, crashes>>

\* The client closes the response, which sets the signal that runAnalysis has
\* been given.  While the row is read there is none: nobody listens to the close
\* then, and the turn runs in full.
Abort(j) ==
  /\ stage[j] \in Unfinished \ {"read"} /\ j \notin aborted
  /\ Cardinality(aborted) < MaxAborts
  /\ aborted' = aborted \cup {j}
  /\ UNCHANGED <<schedulerVars, turnVars, history, row, cache, report, crashes>>

\* The process restarts: requests, scheduler and live sessions are lost.
Crash ==
  /\ crashes < MaxCrashes
  /\ crashes' = crashes + 1
  /\ stage' = [j \in Jobs |-> IF stage[j] \in Unfinished THEN "ended" ELSE stage[j]]
  /\ phase' = [j \in Jobs |-> IF phase[j] \in {"waiting", "running"} THEN "rejected"
                              ELSE phase[j]]
  /\ active' = 0 /\ activeKeys' = {} /\ childActive' = {}
  /\ children' = [j \in Jobs |-> 0]
  /\ live' = [k \in Keys |-> <<>>]
  /\ order' = <<>>
  /\ UNCHANGED <<ticket, pushes, queued, refused, history, row, context, report, aborted>>

-----------------------------------------------------------------------------
\* A turn moves on by itself, or with an answer of Postgres or of pi.
Answer(j) ==
  \/ Submit(j) \/ LoadFails(j) \/ SessionCreated(j) \/ ChildDone(j)
  \/ Settle(j) \/ Save(j)

PromptReturns(j) == \E text \in BOOLEAN : PromptEnds(j, text)

\* Every turn has ended.
Quiet == (\A j \in Jobs : stage[j] \in {"saved", "ended"}) /\ UNCHANGED vars

Next ==
  \/ \E j \in Jobs : Read(j)
  \/ \E j \in Jobs : Answer(j)
  \/ \E j \in Jobs : PromptReturns(j)
  \/ \E j \in Jobs : RunChild(j)
  \/ \E j \in Jobs : Abort(j)
  \/ Crash
  \/ Quiet

Spec == Init /\ [][Next]_vars

\* A prompt makes finitely many tool calls and then returns, so it may not be
\* kept from returning by starting children for ever.
FairSpec ==
  Spec /\ \A j \in Jobs : WF_vars(Answer(j)) /\ SF_vars(PromptReturns(j))

-----------------------------------------------------------------------------
\* Every variable of this module has its type, and no more than MaxLive sessions
\* are kept.
TypeOK ==
  /\ phase \in [Jobs -> Scheduler!Phases]
  /\ stage \in [Jobs -> Stages]
  /\ history \in [Jobs -> Seq(Jobs)] /\ context \in [Jobs -> Seq(Jobs)]
  /\ row \in [fingerprint : {Fingerprint[j] : j \in Jobs} \cup {NoRow}, turns : Seq(Jobs)]
  /\ live \in [Keys -> Seq(Jobs)]
  /\ order \in Seq(Keys) /\ Len(order) <= MaxLive
  /\ report \subseteq Jobs /\ aborted \subseteq Jobs
  /\ crashes \in 0..MaxCrashes

\* wp-mev-discovery.md:267: "a session must never serve a deselected/updated
\* bundle set": whatever is cached, evicted, queued, rehydrated or restarted in
\* between, the model sees turns of one fingerprint only.
NeverStale ==
  \A j \in Jobs : \A i \in ToSet(context[j]) : Fingerprint[i] = Fingerprint[j]

\* And it sees no turn twice, and the turn it is asked last.
TurnsOnce ==
  \A j \in Jobs : context[j] # <<>> => IsInjective(context[j]) /\ Last(context[j]) = j

\* Whatever a conversation is made from is of one selection.
OneSelection ==
  /\ \A i \in ToSet(row.turns) : Fingerprint[i] = row.fingerprint
  /\ \A j \in Jobs : \A i \in ToSet(history[j]) \cup ToSet(live[KeyOf[j]]) :
       Fingerprint[i] = Fingerprint[j]

\* It holds no turn twice, and no turn that is still to be put to the model.
EachOnce ==
  /\ IsInjective(row.turns)
  /\ \A i \in ToSet(row.turns) : stage[i] = "saved"
  /\ \A j \in Jobs : IsInjective(history[j]) /\ \A i \in ToSet(history[j]) : stage[i] = "saved"
  /\ \A j \in Jobs : /\ IsInjective(live[KeyOf[j]])
                     /\ \A i \in ToSet(live[KeyOf[j]]) :
                          stage[i] \notin {"new", "read", "submitted", "loading"}

\* A turn that waits in the scheduler is one that has not begun.
TurnsInv ==
  /\ TypeOK
  /\ \A j \in Jobs : phase[j] = "waiting" => stage[j] = "submitted"
  /\ OneSelection
  /\ EachOnce
  /\ NeverStale
  /\ TurnsOnce

\* The scheduler keeps its promises under the turns, restarts included; a turn is
\* at work only while the scheduler runs its job, the job runs only while the turn
\* works or is about to settle, and only a prompt waits for a child.
Engaged ==
  /\ Scheduler!IndInv
  /\ \A j \in Jobs : /\ stage[j] \in AtWork => phase[j] = "running"
                     /\ phase[j] = "running" => stage[j] \in AtWork \cup {"finished", "failed"}
                     /\ children[j] > 0 => stage[j] = "prompting"

\* So a live session is never put to work by two turns at once (scheduler.ts:36),
\* and the provider never has more than Limit of them.
OneTurnPerSession ==
  /\ \A i, j \in Jobs :
       {stage[i], stage[j]} \subseteq AtWork /\ KeyOf[i] = KeyOf[j] => i = j
  /\ Cardinality({j \in Jobs : stage[j] \in AtWork}) <= Limit

\* Nobody waits for nobody (scheduler.ts:36, runner.ts:531): whatever was refused,
\* aborted or restarted before, a turn waits for a slot or for its session, and
\* then some turn holds it that can still move, by itself or when its child ends.
WaitsForTurn ==
  \A j \in Jobs : phase[j] = "waiting" =>
    \E i \in Jobs :
      /\ phase[i] = "running" /\ stage[i] \in AtWork \cup {"finished", "failed"}
      /\ children[i] > 0 => stage[i] = "prompting" /\ i \in childActive
      /\ KeyOf[i] = KeyOf[j] \/ active = Limit

\* A report is of a turn that was put to the model.
ReportsFit == \A j \in report : stage[j] \in {"finished", "saved", "ended"}

\* The inductive invariant of DiscoverySession_proofs.
IndInv == TurnsInv /\ ReportsFit /\ Engaged /\ OneTurnPerSession /\ WaitsForTurn

\* What the turns may count on (server.ts:419, scheduler.ts:36): each session is
\* served in the order of its submissions, one turn at a time, beside at most
\* Limit others and no idle slot, until a restart empties all lanes.
Lanes == INSTANCE SessionLanes WITH Lane <- Scheduler!Lane, standing <- Scheduler!Standing,
                                    ahead <- Scheduler!Ahead, running <- Scheduler!Running
KeepsLanes == Lanes!Init /\ [][Lanes!Next \/ Lanes!Init']_(Lanes!vars)

\* The turn has left no trace: it is not at work, not saved, and in no conversation
\* that a later turn goes on with.
Untold(j) ==
  /\ stage[j] \notin AtWork \cup {"saved"}
  /\ j \notin ToSet(row.turns)
  /\ \A k \in Keys : j \notin ToSet(live[k])

\* runner.ts:177: a turn whose client left while it waited in the queue costs no
\* provider call: it never starts, never creates a session, is never saved, and no
\* later turn is answered from a conversation with it in, restarts included.
LeftIsSkipped ==
  \A j \in Jobs : [](j \in aborted /\ stage[j] = "submitted" => []Untold(j))

\* Every turn that was submitted ends, at a limit of one, with children and
\* with clients that leave.
EveryTurnEnds ==
  \A j \in Jobs : (stage[j] \in Unfinished) ~> (stage[j] \in {"saved", "ended"})

=============================================================================
