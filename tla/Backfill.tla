--------------------------------- MODULE Backfill ---------------------------------
(***************************************************************************)
(* The request-scoped backfill of explorer-api: startBackfill, stopBackfill  *)
(* and run (src/apps/explorer-api/src/backfill.ts).  Several requests, and   *)
(* so several activations of startBackfill, share the module's variables     *)
(* status, stopRequested and runPromise.                                     *)
(*                                                                         *)
(* An await is where another activation may run: of runPromise, of the two   *)
(* database and inspector calls, and of the pauses.  What runs between two   *)
(* awaits is one action.  The inspector answers as InspectorPromise says: a  *)
(* block is covered when it reports success, and may be when it does not.    *)
(***************************************************************************)
EXTENDS Integers, FiniteSets, Sequences, Corpus

CONSTANTS
  Requests,     \* POST /api/backfill requests
  From, To,     \* the range of each
  NoRun,        \* runPromise = null
  Overlapping,  \* FALSE: a client posts only when no other POST is unanswered
  MaxStops      \* bound: how many DELETE /api/backfill requests

ASSUME RangeAssumption ==
  /\ From \in [Requests -> Nat] /\ To \in [Requests -> Nat]
  /\ \A r \in Requests : From[r] <= To[r]
  /\ NoRun \notin Requests
ASSUME RequestAssumption ==
  /\ Overlapping \in BOOLEAN
  /\ MaxFailures \in Nat /\ MaxDbErrors \in Nat /\ MaxStops \in Nat

VARIABLES
  loop,           \* where the run of each request is: see Loops
  block,          \* its loop variable
  arrivals,       \* requests that await the promise of a run, or did, in order
  awaited,        \* whose run each of them awaits
  runPromise,     \* the request whose run it is, or NoRun
  stopRequested,
  running,        \* status.running
  latest,         \* the request whose range status shows, or NoRun
  tally,          \* status.inspected, status.skipped, status.failed
  gaveUp,         \* per request, the blocks that failed twice
  stops

runVars == <<loop, block, gaveUp>>
shared == <<runPromise, stopRequested, running, latest, tally>>
backfillVars == <<runVars, arrivals, awaited, shared, covered, alive, failures, dbErrors, stops>>

Loops == {"new", "waiting", "scan", "try", "cooldown", "retry", "lastCooldown", "pause",
          "done", "stopped", "rejected", "refused"}
Ended == {"done", "stopped", "rejected", "refused"}
Loop(r) == loop[r] \notin {"new", "waiting"} \cup Ended
Ranges == UNION {From[r]..To[r] : r \in Requests}
NoTally == [inspected |-> 0, skipped |-> 0, failed |-> 0]

BackfillInit ==
  /\ loop = [r \in Requests |-> "new"]
  /\ block = [r \in Requests |-> 0]
  /\ arrivals = <<>>
  /\ awaited = [r \in Requests |-> NoRun]
  /\ runPromise = NoRun
  /\ stopRequested = FALSE
  /\ running = FALSE
  /\ latest = NoRun
  /\ tally = NoTally
  /\ covered \in SUBSET Ranges
  /\ gaveUp = [r \in Requests |-> {}]
  /\ alive = TRUE
  /\ failures = 0 /\ dbErrors = 0 /\ stops = 0

-----------------------------------------------------------------------------
\* The requests that await the run of r.
Awaiting(r) == {w \in Requests : loop[w] = "waiting" /\ awaited[w] = r}
Before(o, w) == \E i, j \in DOMAIN arrivals : arrivals[i] = o /\ arrivals[j] = w /\ i < j

\* The requests of the set s pass their await, in order, each setting status and
\* starting its run up to the first isInspected; `phases` is what the other runs
\* have become.
Launch(s, phases) ==
  \E last \in s :
    /\ \A o \in s \ {last} : Before(o, last)
    /\ loop' = [r \in Requests |-> IF r \in s THEN "scan" ELSE phases[r]]
    /\ block' = [r \in Requests |-> IF r \in s THEN From[r] ELSE block[r]]
    /\ stopRequested' = FALSE
    /\ running' = TRUE
    /\ latest' = last
    /\ tally' = NoTally
    /\ runPromise' = last

\* startBackfill without a running one,
StartNow(r) ==
  /\ alive /\ loop[r] = "new"
  /\ Overlapping \/ \A w \in Requests : loop[w] # "waiting"
  /\ runPromise = NoRun
  /\ Launch({r}, loop)
  /\ UNCHANGED <<arrivals, awaited, covered, gaveUp, alive, failures, dbErrors, stops>>

\* or with one, which it asks to stop and waits for.
StartWaits(r) ==
  /\ alive /\ loop[r] = "new"
  /\ Overlapping \/ \A w \in Requests : loop[w] # "waiting"
  /\ runPromise # NoRun
  /\ stopRequested' = TRUE
  /\ arrivals' = Append(arrivals, r)
  /\ awaited' = [awaited EXCEPT ![r] = runPromise]
  /\ loop' = [loop EXCEPT ![r] = "waiting"]
  /\ UNCHANGED <<block, runPromise, running, latest, tally, covered, gaveUp,
                 alive, failures, dbErrors, stops>>

\* stopBackfill
Stop ==
  /\ alive /\ stops < MaxStops
  /\ stops' = stops + 1
  /\ stopRequested' = (running \/ stopRequested)
  /\ UNCHANGED <<runVars, arrivals, awaited, runPromise, running, latest, tally, covered,
                 alive, failures, dbErrors>>

-----------------------------------------------------------------------------
\* finally: runPromise is cleared, the status is not.
Return_Bug(r, how, t) ==
  LET ended == [loop EXCEPT ![r] = how]
  IN  /\ IF Awaiting(r) = {}
         THEN /\ loop' = ended
              /\ runPromise' = NoRun
              /\ tally' = t
              /\ UNCHANGED <<block, stopRequested, running, latest>>
         ELSE Launch(Awaiting(r), ended)
      /\ UNCHANGED <<arrivals, awaited>>

\* The requests that await the run are not woken.
Return_BugLost(r, how, t) ==
  /\ loop' = [loop EXCEPT ![r] = how]
  /\ running' = FALSE
  /\ runPromise' = NoRun
  /\ tally' = t
  /\ UNCHANGED <<block, arrivals, awaited, stopRequested, latest>>

\* The run of r returns with the tally t: finally, and then the requests that
\* await it go on.
Return(r, how, t) ==
  LET ended == [loop EXCEPT ![r] = how]
  IN  /\ IF Awaiting(r) = {}
         THEN /\ loop' = ended
              /\ running' = FALSE
              /\ runPromise' = NoRun
              /\ tally' = t
              /\ UNCHANGED <<block, stopRequested, latest>>
         ELSE Launch(Awaiting(r), ended)
      /\ UNCHANGED <<arrivals, awaited>>

\* The last block of the range is left out.
Advance_Bug(r, t) ==
  IF block[r] + 1 >= To[r] THEN Return(r, "done", t)
  ELSE IF stopRequested THEN Return(r, "stopped", t)
  ELSE /\ loop' = [loop EXCEPT ![r] = "scan"]
       /\ block' = [block EXCEPT ![r] = @ + 1]
       /\ tally' = t
       /\ UNCHANGED <<arrivals, awaited, runPromise, stopRequested, running, latest>>

\* The walk goes one block too far.
Advance_BugPast(r, t) ==
  IF block[r] > To[r] THEN Return(r, "done", t)
  ELSE IF stopRequested THEN Return(r, "stopped", t)
  ELSE /\ loop' = [loop EXCEPT ![r] = "scan"]
       /\ block' = [block EXCEPT ![r] = @ + 1]
       /\ tally' = t
       /\ UNCHANGED <<arrivals, awaited, runPromise, stopRequested, running, latest>>

\* A stop is noticed only after a failure.
Advance_BugStop(r, t) ==
  IF block[r] + 1 > To[r] THEN Return(r, "done", t)
  ELSE /\ loop' = [loop EXCEPT ![r] = "scan"]
       /\ block' = [block EXCEPT ![r] = @ + 1]
       /\ tally' = t
       /\ UNCHANGED <<arrivals, awaited, runPromise, stopRequested, running, latest>>

\* The for loop of r goes to its next block, with the tally t.
Advance(r, t) ==
  IF block[r] + 1 > To[r] THEN Return(r, "done", t)
  ELSE IF stopRequested THEN Return(r, "stopped", t)
  ELSE /\ loop' = [loop EXCEPT ![r] = "scan"]
       /\ block' = [block EXCEPT ![r] = @ + 1]
       /\ tally' = t
       /\ UNCHANGED <<arrivals, awaited, runPromise, stopRequested, running, latest>>

\* isInspected(block) answers.
Scan(r) ==
  /\ alive /\ loop[r] = "scan"
  /\ IF block[r] \in covered
     THEN Advance(r, [tally EXCEPT !.skipped = @ + 1])
     ELSE /\ loop' = [loop EXCEPT ![r] = "try"]
          /\ UNCHANGED <<block, arrivals, awaited, shared>>
  /\ UNCHANGED <<gaveUp, covered, alive, failures, dbErrors, stops>>

\* isInspected rejects, outside the try of run: so does runPromise.  Requests
\* that await it are refused; when there is none, nobody handles the rejection
\* and the process ends.
ScanRejects(r) ==
  /\ alive /\ loop[r] = "scan"
  /\ dbErrors < MaxDbErrors
  /\ dbErrors' = dbErrors + 1
  /\ loop' = [w \in Requests |->
       IF w = r THEN "rejected"
       ELSE IF w \in Awaiting(r) THEN "refused" ELSE loop[w]]
  /\ alive' = (Awaiting(r) # {})
  /\ running' = FALSE
  /\ runPromise' = NoRun
  /\ UNCHANGED <<block, arrivals, awaited, gaveUp, stopRequested, latest, tally, covered,
                 failures, stops>>

\* backgroundInspect(block) resolves.
Inspected(r) ==
  /\ alive /\ loop[r] \in {"try", "retry"}
  /\ covered' = covered \cup {block[r]}
  /\ tally' = [tally EXCEPT !.inspected = @ + 1]
  /\ loop' = [loop EXCEPT ![r] = "pause"]
  /\ UNCHANGED <<block, gaveUp, arrivals, awaited, runPromise, stopRequested, running, latest,
                 alive, failures, dbErrors, stops>>

\* backgroundInspect(block) rejects, the first or the second time.
Fails(r) ==
  /\ alive /\ loop[r] \in {"try", "retry"}
  /\ failures < MaxFailures
  /\ failures' = failures + 1
  /\ loop' = [loop EXCEPT ![r] = IF @ = "try" THEN "cooldown" ELSE "lastCooldown"]
  /\ IF loop[r] = "retry"
     THEN /\ tally' = [tally EXCEPT !.failed = @ + 1]
          /\ gaveUp' = [gaveUp EXCEPT ![r] = @ \cup {block[r]}]
     ELSE UNCHANGED <<tally, gaveUp>>
  /\ UNCHANGED <<block, arrivals, awaited, runPromise, stopRequested, running, latest,
                 covered, alive, dbErrors, stops>>

\* sleep(ERROR_COOLDOWN_MS) ends.
CooledDown(r) ==
  /\ alive /\ loop[r] \in {"cooldown", "lastCooldown"}
  /\ IF stopRequested THEN Return(r, "stopped", tally)
     ELSE /\ loop' = [loop EXCEPT ![r] = IF @ = "cooldown" THEN "retry" ELSE "pause"]
          /\ UNCHANGED <<block, arrivals, awaited, shared>>
  /\ UNCHANGED <<gaveUp, covered, alive, failures, dbErrors, stops>>

\* sleep(BLOCK_PAUSE_MS) ends.
Paused(r) ==
  /\ alive /\ loop[r] = "pause"
  /\ Advance(r, tally)
  /\ UNCHANGED <<gaveUp, covered, alive, failures, dbErrors, stops>>

\* A block is inspected for a page view or by another loop, or by work whose
\* request has been given up.
CoveredMeanwhile(b) ==
  /\ alive /\ b \notin covered
  /\ covered' = covered \cup {b}
  /\ UNCHANGED <<runVars, arrivals, awaited, shared, alive, failures, dbErrors, stops>>

\* The process is gone, or it waits for requests.
Quiet == (~alive \/ \A r \in Requests : ~Loop(r)) /\ UNCHANGED backfillVars

Run(r) == Scan(r) \/ Inspected(r) \/ CooledDown(r) \/ Paused(r)

BackfillNext ==
  \/ \E r \in Requests : StartNow(r) \/ StartWaits(r)
  \/ Stop
  \/ \E r \in Requests : Run(r)
  \/ \E r \in Requests : ScanRejects(r)
  \/ \E r \in Requests : Fails(r)
  \/ \E b \in Ranges : CoveredMeanwhile(b)
  \/ Quiet

BackfillSpec == BackfillInit /\ [][BackfillNext]_backfillVars

\* The database, the inspector (InspectorPromise) and the timers answer.
BackfillFairSpec == BackfillSpec /\ \A r \in Requests : WF_backfillVars(Run(r))

-----------------------------------------------------------------------------
\* Every variable has its type.
BackfillTypeOK ==
  /\ loop \in [Requests -> Loops]
  /\ block \in [Requests -> Nat] /\ \A r \in Requests : block[r] <= To[r]
  /\ arrivals \in Seq(Requests)
  /\ awaited \in [Requests -> Requests \cup {NoRun}]
  /\ runPromise \in Requests \cup {NoRun} /\ latest \in Requests \cup {NoRun}
  /\ stopRequested \in BOOLEAN /\ running \in BOOLEAN /\ alive \in BOOLEAN
  /\ tally \in [inspected : Nat, skipped : Nat, failed : Nat]
  /\ covered \subseteq Ranges
  /\ gaveUp \in [Requests -> SUBSET Ranges]
  /\ failures \in 0..MaxFailures /\ dbErrors \in 0..MaxDbErrors /\ stops \in 0..MaxStops

\* What GET /api/backfill says is what happens: a run walks exactly when the
\* status says so, and the status shows its range.
StatusTrue ==
  alive => /\ running <=> \E r \in Requests : Loop(r)
           /\ \A r \in Requests : Loop(r) => latest = r /\ runPromise = r

\* A run that reached its end left no block of its range behind: each is in
\* the database or failed twice, and its tally accounts for each of them once.
DoneMeansCovered ==
  \A r \in Requests : loop[r] = "done" =>
    /\ From[r]..To[r] \subseteq covered \cup gaveUp[r]
    /\ latest = r => tally.inspected + tally.skipped + tally.failed = To[r] - From[r] + 1

\* Why that is so: the blocks behind a run, and its own once it pauses, are there or
\* have failed twice, whoever posts when.
Behind(r) == From[r]..(IF loop[r] \in {"lastCooldown", "pause"} THEN block[r] ELSE block[r] - 1)

Walks ==
  \A r \in Requests :
    /\ Loop(r) => block[r] \in From[r]..To[r] /\ Behind(r) \subseteq covered \cup gaveUp[r]
    /\ loop[r] = "done" => From[r]..To[r] \subseteq covered \cup gaveUp[r]

\* No request waits for a promise that has settled: what runPromise holds, and what
\* each waiting request awaits, is of a run that walks, whoever posts when.
Promised ==
  alive => /\ runPromise # NoRun => Loop(runPromise)
           /\ \A w \in Requests : loop[w] = "waiting" =>
                awaited[w] \in Requests /\ Loop(awaited[w])

\* And while clients wait for an answer before they post again, at most one request
\* waits, for the run of runPromise, and the tally is that run's.
OneRun ==
  alive => \A w \in Requests : loop[w] = "waiting" =>
             awaited[w] = runPromise /\ \A v \in Requests : loop[v] = "waiting" => v = w

Counted ==
  \A r \in Requests : latest = r =>
    LET counted == tally.inspected + tally.skipped + tally.failed
    IN  /\ Loop(r) /\ loop[r] \in {"lastCooldown", "pause"} => counted = block[r] - From[r] + 1
        /\ Loop(r) /\ loop[r] \notin {"lastCooldown", "pause"} => counted = block[r] - From[r]
        /\ loop[r] = "done" => counted = To[r] - From[r] + 1

\* The inductive invariant.
BackfillIndInv ==
  BackfillTypeOK /\ Walks /\ Promised /\ (~Overlapping => StatusTrue /\ OneRun /\ Counted)

\* backfill.ts:102 and 124: a stop is not forgotten, whatever the run awaits when
\* it comes: until that run has returned the stop stands, and the run takes up
\* neither another block nor a second attempt.
StopStands ==
  [][\A r \in Requests : (stopRequested /\ Loop(r) /\ Loop(r)') =>
       /\ stopRequested'
       /\ block'[r] = block[r]
       /\ loop[r] = "cooldown" => loop'[r] # "retry"]_backfillVars

\* Every accepted request gets its run: none waits for ever for the one before.
RequestServed ==
  \A r \in Requests : (loop[r] = "waiting") ~> (loop[r] # "waiting")
=============================================================================
