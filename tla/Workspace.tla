------------------------------- MODULE Workspace -------------------------------
(***************************************************************************)
(* The trace-api's workspaces: a browser polls for the incident of a         *)
(* transaction, the first poll starts a discovery of the incident's project  *)
(* at the snapshot of its block, later polls find the run and, when it is    *)
(* ready, get the names that discovery found.                              *)
(*                                                                         *)
(* Discoveries wait in a queue of the trace-api and then in a queue of the   *)
(* discovery runner, a second process that goes on with a job whose client   *)
(* has gone.  What is on disk outlives both: discovered.json, which has the  *)
(* timestamp of its snapshot, and evidence-snapshot.json, renamed into place *)
(* after the evidence has been imported (EvidenceImport).                  *)
(***************************************************************************)
EXTENDS Naturals, Sequences, SequencesExt, FiniteSets

CONSTANTS
  Projects, Tabs,
  Snaps, TimeOf,  \* blocks that may be canonical, and their timestamps
  Ids,         \* bound: run states that exist at once
  MaxFaults, MaxReorgs,  \* bounds
  None

ASSUME NoneAssumption ==
  /\ Ids \subseteq Nat
  /\ None \notin Projects \cup Snaps \cup Ids \cup {TimeOf[s] : s \in Snaps}
ASSUME BoundAssumption == {MaxFaults, MaxReorgs} \subseteq Nat

VARIABLES
  chain,       \* the canonical block of each incident
  runs,        \* the map: the run a project's requests share
  states,      \* the run states: [project, snapshot, status, at]
  turns,       \* discoveryQueue: its head has been sent to the runner, or is next
  jobs,        \* the runner's queue: [project, time, for, writes], the head runs
  discovered,  \* timestamp in discovered.json; None while absent or half written
  recorded,    \* evidence-snapshot.json
  enrichmentCache,  \* names, by the timestamp of the file they were read from
  polls,       \* of each tab: [project, at, snapshot, first, matches, busy, run, told]
  disturbed,   \* history: projects for which two polls missed at once, or that were
               \* found on disk while the runner had a job of them
  faults, reorgs

disk == <<discovered, recorded>>
bounds == <<chain, faults, reorgs>>
vars == <<chain, runs, states, turns, jobs, disk, enrichmentCache, polls, disturbed,
          faults, reorgs>>

Files == {"discovered", "recorded"}
Times == {TimeOf[s] : s \in Snaps}
Gone == [project |-> None, snapshot |-> None, status |-> "error", at |-> "done"]
Idle(p) == [project |-> p, at |-> "idle", snapshot |-> None, first |-> "discovered",
            matches |-> FALSE, busy |-> FALSE, run |-> None, told |-> None]
ProjectOf(t) == polls[t].project

TypeOK ==
  /\ chain \in [Projects -> Snaps]
  /\ runs \in [Projects -> Ids \cup {None}]
  /\ states \in [Ids -> [project : Projects \cup {None}, snapshot : Snaps \cup {None},
                         status : {"discovering", "ready", "error"},
                         at : {"traces", "queued", "asked", "check", "import", "done"}]]
  /\ turns \in Seq(Ids) /\ IsInjective(turns)
  /\ jobs \in Seq([project : Projects, time : Times, for : Ids \cup {None}, writes : BOOLEAN])
  /\ discovered \in [Projects -> Times \cup {None}]
  /\ recorded \in [Projects -> Snaps \cup {None}]
  /\ enrichmentCache \in [Projects -> Times \cup {None}]
  /\ polls \in [Tabs -> [project : Projects, snapshot : Snaps \cup {None}, first : Files,
                         at : {"idle", "resolve", "look", "decide", "enrich"},
                         matches : BOOLEAN, busy : BOOLEAN, run : Ids \cup {None},
                         told : {None} \cup [snapshot : Snaps, names : Times \cup {None}]]]
  /\ disturbed \subseteq Projects
  /\ faults \in 0..MaxFaults /\ reorgs \in 0..MaxReorgs

\* The disk may hold what earlier processes left there.
Init ==
  /\ chain \in [Projects -> Snaps]
  /\ discovered \in [Projects -> Times \cup {None}]
  /\ recorded \in [Projects -> Snaps \cup {None}]
  /\ runs = [p \in Projects |-> None]
  /\ states = [id \in Ids |-> Gone]
  /\ turns = <<>> /\ jobs = <<>>
  /\ enrichmentCache = [p \in Projects |-> None]
  /\ \E shows \in [Tabs -> Projects] : polls = [t \in Tabs |-> Idle(shows[t])]
  /\ disturbed = {}
  /\ faults = 0 /\ reorgs = 0

-----------------------------------------------------------------------------
\* Between the lookup that found no run and the entry of one.
Missed(t) == polls[t].at \in {"resolve", "look", "decide"}

Poll_BugEarlyNames(t) ==
  LET p == ProjectOf(t)
      id == runs[p]
      failed == id # None /\ states[id].status = "error"
  IN  /\ polls[t].at = "idle"
      /\ polls' = [polls EXCEPT ![t] =
           IF id = None THEN [Idle(p) EXCEPT !.at = "resolve"]
           ELSE [Idle(p) EXCEPT !.at = "enrich", !.run = id, !.snapshot = states[id].snapshot]]
      /\ runs' = [runs EXCEPT ![p] = IF failed THEN None ELSE id]
      /\ states' = [i \in Ids |-> IF i = id /\ failed THEN Gone ELSE states[i]]
      /\ disturbed' = IF id = None /\ \E o \in Tabs : ProjectOf(o) = p /\ Missed(o)
                       THEN disturbed \cup {p} ELSE disturbed
      /\ UNCHANGED <<turns, jobs, disk, enrichmentCache, bounds>>

Poll_BugErrorKept(t) ==
  LET p == ProjectOf(t)
      id == runs[p]
  IN  /\ polls[t].at = "idle"
      /\ polls' = [polls EXCEPT ![t] =
           CASE id = None -> [Idle(p) EXCEPT !.at = "resolve"]
             [] id # None /\ states[id].status = "ready" ->
                  [Idle(p) EXCEPT !.at = "enrich", !.run = id, !.snapshot = states[id].snapshot]
             [] OTHER -> Idle(p)]
      /\ disturbed' = IF id = None /\ \E o \in Tabs : ProjectOf(o) = p /\ Missed(o)
                       THEN disturbed \cup {p} ELSE disturbed
      /\ UNCHANGED <<runs, states, turns, jobs, disk, enrichmentCache, bounds>>

\* A poll: the run is looked up at once, its state decides.  An error is told
\* once and forgotten.
Poll(t) ==
  LET p == ProjectOf(t)
      id == runs[p]
      failed == id # None /\ states[id].status = "error"
  IN  /\ polls[t].at = "idle"
      /\ polls' = [polls EXCEPT ![t] =
           CASE id = None -> [Idle(p) EXCEPT !.at = "resolve"]
             [] id # None /\ states[id].status = "ready" ->
                  [Idle(p) EXCEPT !.at = "enrich", !.run = id, !.snapshot = states[id].snapshot]
             [] OTHER -> Idle(p)]
      /\ runs' = [runs EXCEPT ![p] = IF failed THEN None ELSE id]
      /\ states' = [i \in Ids |-> IF i = id /\ failed THEN Gone ELSE states[i]]
      /\ disturbed' = IF id = None /\ \E o \in Tabs : ProjectOf(o) = p /\ Missed(o)
                       THEN disturbed \cup {p} ELSE disturbed
      /\ UNCHANGED <<turns, jobs, disk, enrichmentCache, bounds>>

\* The node answers with the canonical block.
Resolve(t) ==
  /\ polls[t].at = "resolve"
  /\ polls' = [polls EXCEPT ![t].at = "look", ![t].snapshot = chain[ProjectOf(t)]]
  /\ UNCHANGED <<runs, states, turns, jobs, disk, enrichmentCache, disturbed, bounds>>

Matches(t, file) ==
  IF file = "discovered" THEN discovered[ProjectOf(t)] = TimeOf[polls[t].snapshot]
                         ELSE recorded[ProjectOf(t)] = polls[t].snapshot

\* The two files are read at the same time, and either read may end first.
Look(t) ==
  /\ polls[t].at = "look"
  /\ \E file \in Files :
       polls' = [polls EXCEPT ![t].at = "decide", ![t].first = file,
           ![t].matches = Matches(t, file),
           ![t].busy = \E i \in DOMAIN jobs : jobs[i].project = ProjectOf(t)]
  /\ UNCHANGED <<runs, states, turns, jobs, disk, enrichmentCache, disturbed, bounds>>

Free(id) == states[id].at = "done" /\ id \notin {runs[p] : p \in Projects}
                                             \cup {polls[t].run : t \in Tabs}

\* The second read ends, and a state is set in the map, whatever is there now.
Decide(t) ==
  LET p == ProjectOf(t)
      ready == /\ polls[t].matches
               /\ \A file \in Files \ {polls[t].first} : Matches(t, file)
  IN  /\ polls[t].at = "decide"
      /\ \E id \in Ids :
           /\ Free(id) /\ \A other \in Ids : Free(other) => id <= other
           /\ states' = [states EXCEPT ![id] =
                [project |-> p, snapshot |-> polls[t].snapshot,
                 status |-> IF ready THEN "ready" ELSE "discovering",
                 at |-> IF ready THEN "done" ELSE "traces"]]
           /\ runs' = [runs EXCEPT ![p] = id]
           /\ polls' = [polls EXCEPT ![t] =
                IF ready THEN [@ EXCEPT !.at = "enrich", !.run = id] ELSE Idle(p)]
      /\ disturbed' = IF ready /\ polls[t].busy
                       THEN disturbed \cup {p} ELSE disturbed
      /\ UNCHANGED <<turns, jobs, disk, enrichmentCache, bounds>>

\* readEnrichment: the names are read once for a project and kept; a file that
\* cannot be read gives none.  The tab is told.
Enrich(t) ==
  LET p == ProjectOf(t)
      names == IF enrichmentCache[p] # None THEN enrichmentCache[p] ELSE discovered[p]
  IN  /\ polls[t].at = "enrich"
      /\ enrichmentCache' = [enrichmentCache EXCEPT ![p] = names]
      /\ polls' = [polls EXCEPT ![t] =
           [Idle(p) EXCEPT !.told = [snapshot |-> polls[t].snapshot, names |-> names]]]
      /\ UNCHANGED <<runs, states, turns, jobs, disk, disturbed, bounds>>

-----------------------------------------------------------------------------
\* prepareWorkspace.
Goto(id, at) == states' = [states EXCEPT ![id].at = at]
Ends(id, status) == states' = [states EXCEPT ![id].at = "done", ![id].status = status]

\* The traces are there and the project's config is written: the run joins the
\* queue.
Traces(id) ==
  /\ states[id].at = "traces"
  /\ Goto(id, "queued")
  /\ turns' = Append(turns, id)
  /\ UNCHANGED <<runs, jobs, disk, enrichmentCache, polls, disturbed, bounds>>

\* Its turn: the job is posted to the runner, which queues it.
Post(id) ==
  /\ states[id].at = "queued" /\ Head(turns) = id
  /\ Goto(id, "asked")
  /\ jobs' = Append(jobs, [project |-> states[id].project,
                           time |-> TimeOf[states[id].snapshot], for |-> id, writes |-> FALSE])
  /\ UNCHANGED <<runs, turns, disk, enrichmentCache, polls, disturbed, bounds>>

Check_BugAnyTime(id) ==
  /\ states[id].at = "check"
  /\ IF discovered[states[id].project] # None
     THEN Goto(id, "import") ELSE Ends(id, "error")
  /\ UNCHANGED <<runs, turns, jobs, disk, enrichmentCache, polls, disturbed, bounds>>

\* After the answer of the runner: the file is there and of this snapshot.
Check(id) ==
  /\ states[id].at = "check"
  /\ IF discovered[states[id].project] = TimeOf[states[id].snapshot]
     THEN Goto(id, "import") ELSE Ends(id, "error")
  /\ UNCHANGED <<runs, turns, jobs, disk, enrichmentCache, polls, disturbed, bounds>>

\* The evidence has been imported, the snapshot is renamed into place, and the
\* names are to be read again.
Record(id) ==
  /\ states[id].at = "import"
  /\ recorded' = [recorded EXCEPT ![states[id].project] = states[id].snapshot]
  /\ enrichmentCache' = [enrichmentCache EXCEPT ![states[id].project] = None]
  /\ Ends(id, "ready")
  /\ UNCHANGED <<runs, turns, jobs, discovered, polls, disturbed, bounds>>

\* A trace, the import or the rename fails.
Fails(id) ==
  /\ states[id].at \in {"traces", "import"}
  /\ faults < MaxFaults /\ faults' = faults + 1
  /\ Ends(id, "error")
  /\ UNCHANGED <<runs, turns, jobs, disk, enrichmentCache, polls, disturbed, chain, reorgs>>

Abort_BugAwaited(id) ==
  /\ states[id].at = "asked"
  /\ faults < MaxFaults /\ faults' = faults + 1
  /\ Ends(id, "error")
  /\ turns' = Tail(turns)
  /\ UNCHANGED <<runs, jobs, disk, enrichmentCache, polls, disturbed, chain, reorgs>>

\* The client gives up after DISCOVERY_TIMEOUT_MS, and its queue goes on; the
\* job stays in the runner's.
Abort(id) ==
  /\ states[id].at = "asked"
  /\ faults < MaxFaults /\ faults' = faults + 1
  /\ Ends(id, "error")
  /\ turns' = Tail(turns)
  /\ jobs' = [i \in DOMAIN jobs |->
                IF jobs[i].for = id THEN [jobs[i] EXCEPT !.for = None] ELSE jobs[i]]
  /\ UNCHANGED <<runs, disk, enrichmentCache, polls, disturbed, chain, reorgs>>

-----------------------------------------------------------------------------
\* The runner's child begins to write discovered.json.
JobWrites ==
  /\ jobs # <<>> /\ ~Head(jobs).writes
  /\ jobs' = [jobs EXCEPT ![1].writes = TRUE]
  /\ discovered' = [discovered EXCEPT ![Head(jobs).project] = None]
  /\ UNCHANGED <<runs, states, turns, recorded, enrichmentCache, polls, disturbed, bounds>>

\* The job leaves the queue and its client, if there is one, goes on.
Answer(at, status) ==
  /\ jobs' = Tail(jobs)
  /\ IF Head(jobs).for = None THEN UNCHANGED <<states, turns>>
     ELSE /\ states' = [states EXCEPT ![Head(jobs).for].at = at,
                                      ![Head(jobs).for].status = status]
          /\ turns' = Tail(turns)

\* The child has written the file and exits with 0.
JobEnds ==
  /\ jobs # <<>> /\ Head(jobs).writes
  /\ discovered' = [discovered EXCEPT ![Head(jobs).project] = Head(jobs).time]
  /\ Answer("check", "discovering")
  /\ UNCHANGED <<runs, recorded, enrichmentCache, polls, disturbed, bounds>>

\* It exits with another code or is killed by the runner's timer, before, while or
\* after it writes, or it exits with 0 and has not written.
JobFails ==
  /\ jobs # <<>>
  /\ faults < MaxFaults /\ faults' = faults + 1
  /\ \/ Answer("done", "error") /\ UNCHANGED discovered
     \/ /\ Head(jobs).writes
        /\ discovered' = [discovered EXCEPT ![Head(jobs).project] = Head(jobs).time]
        /\ Answer("done", "error")
     \/ ~Head(jobs).writes /\ Answer("check", "discovering") /\ UNCHANGED discovered
  /\ UNCHANGED <<runs, recorded, enrichmentCache, polls, disturbed, chain, reorgs>>

\* The trace-api restarts; the runner goes on with what it had.
Restart ==
  /\ faults < MaxFaults /\ faults' = faults + 1
  /\ runs' = [p \in Projects |-> None]
  /\ states' = [id \in Ids |-> Gone]
  /\ turns' = <<>>
  /\ jobs' = [i \in DOMAIN jobs |-> [jobs[i] EXCEPT !.for = None]]
  /\ enrichmentCache' = [p \in Projects |-> None]
  /\ polls' = [t \in Tabs |-> Idle(ProjectOf(t))]
  /\ disturbed' = {}
  /\ UNCHANGED <<disk, chain, reorgs>>

\* Another block becomes the canonical one.
Reorg ==
  /\ reorgs < MaxReorgs /\ reorgs' = reorgs + 1
  /\ \E p \in Projects : \E s \in Snaps \ {chain[p]} : chain' = [chain EXCEPT ![p] = s]
  /\ UNCHANGED <<runs, states, turns, jobs, disk, enrichmentCache, polls, disturbed, faults>>

RunStep(id) == Traces(id) \/ Post(id) \/ Check(id) \/ Record(id)
PollStep(t) == Poll(t) \/ Resolve(t) \/ Look(t) \/ Decide(t) \/ Enrich(t)
Runner == JobWrites \/ JobEnds

Next ==
  \/ \E t \in Tabs : PollStep(t)
  \/ \E id \in Ids : RunStep(id) \/ Fails(id) \/ Abort(id)
  \/ Runner \/ JobFails \/ Restart \/ Reorg

Spec == Init /\ [][Next]_vars

\* A tab polls until it is closed, and files, the node and the runner answer.
Fairness ==
  /\ WF_vars(Runner)
  /\ \A t \in Tabs : WF_vars(PollStep(t))
  /\ \A id \in Ids : WF_vars(RunStep(id))

FairSpec == Spec /\ Fairness

-----------------------------------------------------------------------------
OnDisk(p, s) == discovered[p] = TimeOf[s] /\ recorded[p] = s
Ready(p) == runs[p] # None /\ states[runs[p]].status = "ready"

\* The two queues agree over aborts, failures and restarts: the runs that wait for
\* the runner are those in turns, only the first has been posted, it has one job,
\* and every other job is nobody's.
TurnsAgree ==
  /\ TypeOK
  /\ \A id \in Ids :
       /\ states[id].at \in {"queued", "asked"} <=> id \in Range(turns)
       /\ states[id].at = "asked" => Head(turns) = id
       /\ states[id].at = "asked" <=> \E i \in DOMAIN jobs : jobs[i].for = id
  /\ \A i, j \in DOMAIN jobs : jobs[i].for = jobs[j].for /\ i # j => jobs[i].for = None

\* A project that is called ready is on disk as of the snapshot it names: no job
\* of an aborted run, of another incident or of an earlier process writes over
\* it, unless two polls had missed its run at once, or it was found on disk
\* while the runner still had a job of it.
ReadyIsOnDisk ==
  \A p \in Projects \ disturbed : Ready(p) => OnDisk(p, states[runs[p]].snapshot)

\* The names a tab is told are those of the snapshot it is told.
ToldTogether ==
  \A t \in Tabs : LET told == polls[t].told IN
    told # None /\ ProjectOf(t) \notin disturbed => told.names = TimeOf[told.snapshot]

\* The statuses of the states, and whose they are.
StatesFit ==
  /\ \A id \in Ids :
       /\ states[id].at # "done" =>
            states[id].status = "discovering" /\ states[id].project \in Projects
       /\ states[id].status # "error" \/ states[id].at # "done" => states[id].snapshot \in Snaps
  /\ \A p \in Projects : runs[p] # None => states[runs[p]].project = p
  /\ \A i \in DOMAIN jobs : jobs[i].for # None => states[jobs[i].for].project = jobs[i].project
  /\ \A t \in Tabs : polls[t].at \in {"look", "decide", "enrich"} => polls[t].snapshot \in Snaps

\* The runner has nothing to do for p.
Unasked(p) == \A i \in DOMAIN jobs : jobs[i].project # p

\* What holds of a project that is not disturbed: it has one run at work at most,
\* or one poll that will start one;
OneRun(p) ==
  /\ \A id \in Ids : states[id].project = p /\ states[id].at # "done" => runs[p] = id
  /\ \A t \in Tabs : ProjectOf(t) = p /\ Missed(t) =>
       runs[p] = None /\ \A o \in Tabs : ProjectOf(o) = p /\ Missed(o) => o = t

\* the job of its run is the last of its jobs, so that there is none left when it
\* has been answered;
LastJob(p) ==
  \A id \in Ids : states[id].project = p =>
    /\ \A i, j \in DOMAIN jobs : jobs[i].for = id /\ i < j => jobs[j].project # p
    /\ states[id].at \in {"check", "import"} => Unasked(p)
    /\ states[id].at = "import" => discovered[p] = TimeOf[states[id].snapshot]

\* what a poll has seen of its files is still there, unless the runner was busy;
SeenStands(p) ==
  \A t \in Tabs : ProjectOf(t) = p /\ polls[t].at = "decide" /\ ~polls[t].busy =>
    Unasked(p) /\ (polls[t].matches => Matches(t, polls[t].first))

\* and names are kept, and read, only while it is ready and on disk.
NamesStand(p) ==
  /\ Ready(p) => OnDisk(p, states[runs[p]].snapshot) /\ Unasked(p)
  /\ enrichmentCache[p] # None =>
       Ready(p) /\ enrichmentCache[p] = TimeOf[states[runs[p]].snapshot]
  /\ \A t \in Tabs : ProjectOf(t) = p /\ polls[t].at = "enrich" =>
       Ready(p) /\ polls[t].snapshot = states[runs[p]].snapshot

\* The inductive invariant.
IndInv ==
  /\ TurnsAgree /\ StatesFit
  /\ \A p \in Projects \ disturbed :
       OneRun(p) /\ LastJob(p) /\ SeenStands(p) /\ NamesStand(p)
  /\ ToldTogether

\* While nothing more fails, a workspace that is polled for becomes ready and stays
\* so: errors are not kept, and a run that was given up or failed gives its turn
\* to the next.  An import that conflicts for good never stops failing
\* (EvidenceImport), and two tabs that go on missing at once can undo each other's
\* runs.
BecomesReady ==
  \A t \in Tabs : <>[](Ready(ProjectOf(t)) \/ ProjectOf(t) \in disturbed)

===============================================================================
