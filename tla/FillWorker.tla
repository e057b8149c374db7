-------------------------------- MODULE FillWorker --------------------------------
(***************************************************************************)
(* What keeps the corpus of explorer-api complete without being asked: the   *)
(* fill worker (fillLoop and nextUncovered, backfill.ts) and the             *)
(* head-follower (tick, inspectorLoop.ts), over the table blocks they share. *)
(*                                                                         *)
(* Each awaits the node's block number, a database query or the inspector;   *)
(* what runs between two awaits is one action.  Pauses after which nothing   *)
(* but the next await happens are part of that await.  A head query that     *)
(* rejects is retried after a pause and changes nothing: it is an answer     *)
(* that has not come yet.  The inspector answers as InspectorPromise says.   *)
(***************************************************************************)
EXTENDS Integers, FiniteSetsExt, Corpus

CONSTANTS
  Floor,          \* INSPECT_FLOOR_BLOCK
  Confirmations,  \* CONFIRMATIONS
  ScanWindow,     \* SCAN_WINDOW
  MaxCatchup,     \* MAX_CATCHUP
  FirstHead,      \* the chain's head at first
  LastHead,       \* bound: the last block of the chain
  Lag,            \* how many blocks behind the chain a node may answer
  MaxCrashes      \* bound: how many times the process restarts

ASSUME ChainAssumption ==
  /\ {Floor, Confirmations, ScanWindow, MaxCatchup, FirstHead, LastHead, Lag} \subseteq Nat
  /\ ScanWindow > 0 /\ FirstHead <= LastHead
  /\ Confirmations + Lag < FirstHead
ASSUME BoundAssumption == {MaxFailures, MaxDbErrors, MaxCrashes} \subseteq Nat

VARIABLES
  head,      \* the chain's head
  fill,      \* the worker: [at, cursor, start, target], see Fills
  skipped,   \* blocks that failed since the worker's last rescan
  follow,    \* the head-follower: [at, n, target, lastInspected]
  crashes

faults == <<failures, dbErrors, crashes>>
vars == <<head, covered, fill, skipped, follow, alive, faults>>

Blocks == 0..(LastHead - Confirmations)  \* those that get confirmed
Fills == {"head", "scan", "inspect", "idle"}

\* What getBlockNumber may answer.
HeadAnswers == (head - Lag)..head

FillStart == [at |-> "head", cursor |-> Floor, start |-> Floor, target |-> 0]
FollowStart == [at |-> "head", n |-> 0, target |-> 0, lastInspected |-> 0]

\* The corpus survives restarts, so any part of the chain may be there.
Init ==
  /\ head = FirstHead
  /\ covered \in SUBSET (0..FirstHead)
  /\ fill = FillStart
  /\ skipped = {}
  /\ follow = FollowStart
  /\ alive = TRUE
  /\ failures = 0 /\ dbErrors = 0 /\ crashes = 0

ChainAdvances ==
  /\ head < LastHead
  /\ head' = head + 1
  /\ UNCHANGED <<covered, fill, skipped, follow, alive, faults>>

\* A block of the chain, confirmed or not, is inspected for a page view, by a
\* backfill, or by work whose request has been given up.
CoveredElsewhere(b) ==
  /\ alive /\ b \in (0..head) \ covered
  /\ covered' = covered \cup {b}
  /\ UNCHANGED <<head, fill, skipped, follow, alive, faults>>

-----------------------------------------------------------------------------
\* getBlockNumber answers the worker: scan, or idle when the cursor is past it.
FillHead ==
  /\ alive /\ fill.at = "head"
  /\ \E h \in HeadAnswers :
       LET target == h - Confirmations
       IN  fill' = [fill EXCEPT !.at = IF fill.cursor <= target THEN "scan" ELSE "idle",
                                !.start = fill.cursor,
                                !.target = target]
  /\ UNCHANGED <<head, covered, skipped, follow, alive, faults>>

\* A query of nextUncovered for the window that ends at end answers with its
\* first gap, or there is none: on to the next window, or caught up.
ScanTo(end, start) ==
  LET gaps == (fill.start..end) \ covered
  IN  /\ alive /\ fill.at = "scan"
      /\ \/ \E gap \in gaps :
              /\ fill.start..(gap - 1) \subseteq covered
              /\ fill' = [fill EXCEPT !.at = "inspect", !.cursor = gap]
         \/ /\ gaps = {}
            /\ fill' = IF start <= fill.target THEN [fill EXCEPT !.start = start]
                       ELSE [fill EXCEPT !.at = "idle"]
      /\ UNCHANGED <<head, covered, skipped, follow, alive, faults>>

\* The next window starts one block late.
FillScan_BugStep ==
  ScanTo(Min({fill.start + ScanWindow - 1, fill.target}), fill.start + ScanWindow + 1)

\* The last window is not cut at the target.
FillScan_BugEnd ==
  ScanTo(fill.start + ScanWindow - 1, fill.start + ScanWindow)

\* Windows meet without overlap, and the last ends at the target.
FillScan ==
  ScanTo(Min({fill.start + ScanWindow - 1, fill.target}), fill.start + ScanWindow)

\* A query rejects: nothing in fillLoop catches it, and nothing awaits fillLoop.
FillScanRejects ==
  /\ alive /\ fill.at = "scan"
  /\ dbErrors < MaxDbErrors
  /\ dbErrors' = dbErrors + 1
  /\ alive' = FALSE
  /\ UNCHANGED <<head, covered, fill, skipped, follow, failures, crashes>>

\* backgroundInspect(cursor) resolves,
FillInspected ==
  /\ alive /\ fill.at = "inspect"
  /\ covered' = covered \cup {fill.cursor}
  /\ fill' = [fill EXCEPT !.at = "head", !.cursor = @ + 1]
  /\ UNCHANGED <<head, skipped, follow, alive, faults>>

\* or rejects: the cursor moves on all the same.
FillFails ==
  /\ alive /\ fill.at = "inspect"
  /\ failures < MaxFailures
  /\ failures' = failures + 1
  /\ skipped' = skipped \cup {fill.cursor}
  /\ fill' = [fill EXCEPT !.at = "head", !.cursor = @ + 1]
  /\ UNCHANGED <<head, covered, follow, alive, dbErrors, crashes>>

\* The worker goes on where it was.
FillWakes_Bug ==
  /\ alive /\ fill.at = "idle"
  /\ fill' = [fill EXCEPT !.at = "head"]
  /\ skipped' = {}
  /\ UNCHANGED <<head, covered, follow, alive, faults>>

\* The idle pause ends: rescan from the floor.
FillWakes ==
  /\ alive /\ fill.at = "idle"
  /\ fill' = [fill EXCEPT !.at = "head", !.cursor = Floor]
  /\ skipped' = {}
  /\ UNCHANGED <<head, covered, follow, alive, faults>>

-----------------------------------------------------------------------------
\* Where a tick starts: at the target the first time, then after the last
\* block, leaving out what lies more than MaxCatchup behind.
FollowFrom(target) ==
  IF follow.lastInspected = 0 THEN target
  ELSE Max({follow.lastInspected + 1, target - MaxCatchup})

\* getBlockNumber answers the head-follower.
FollowHead ==
  /\ alive /\ follow.at = "head"
  /\ \E h \in HeadAnswers :
       LET target == h - Confirmations
       IN  follow' = IF FollowFrom(target) <= target
                     THEN [follow EXCEPT !.at = "inspect", !.n = FollowFrom(target),
                                         !.target = target]
                     ELSE follow
  /\ UNCHANGED <<head, covered, fill, skipped, alive, faults>>

\* The block n is behind, inspected or not.
FollowNext ==
  follow' = [follow EXCEPT !.lastInspected = Max({@, follow.n}),
                           !.n = IF @ < follow.target THEN @ + 1 ELSE @,
                           !.at = IF follow.n < follow.target THEN "inspect" ELSE "head"]

FollowInspected ==
  /\ alive /\ follow.at = "inspect"
  /\ covered' = covered \cup {follow.n}
  /\ FollowNext
  /\ UNCHANGED <<head, fill, skipped, alive, faults>>

FollowFails ==
  /\ alive /\ follow.at = "inspect"
  /\ failures < MaxFailures
  /\ failures' = failures + 1
  /\ FollowNext
  /\ UNCHANGED <<head, covered, fill, skipped, alive, dbErrors, crashes>>

\* The process restarts: cursors are lost, the table is not.
Crash ==
  /\ alive
  /\ crashes < MaxCrashes
  /\ crashes' = crashes + 1
  /\ fill' = FillStart
  /\ skipped' = {}
  /\ follow' = FollowStart
  /\ UNCHANGED <<head, covered, alive, failures, dbErrors>>

\* The process has ended; no restart policy starts it again.
Gone == ~alive /\ UNCHANGED vars

-----------------------------------------------------------------------------
Fill == FillHead \/ FillScan \/ FillInspected \/ FillWakes
Follow == FollowHead \/ FollowInspected

Next ==
  \/ ChainAdvances
  \/ \E b \in 0..LastHead : CoveredElsewhere(b)
  \/ Fill \/ FillFails \/ FillScanRejects
  \/ Follow \/ FollowFails
  \/ Crash
  \/ Gone

Spec == Init /\ [][Next]_vars

\* The node, the database and the timers answer the worker.  Nothing is assumed
\* of the head-follower, which is optional (INSPECTOR_FOLLOW_HEAD).
FairSpec == Spec /\ WF_vars(Fill)

-----------------------------------------------------------------------------
\* Every variable has its type.
TypeOK ==
  /\ head \in FirstHead..LastHead
  /\ covered \subseteq 0..LastHead /\ skipped \subseteq Blocks
  /\ fill \in [at : Fills, cursor : Nat, start : Nat, target : Blocks]
  /\ follow \in [at : {"head", "inspect"}, n : Blocks, target : Blocks,
                 lastInspected : Blocks]
  /\ alive \in BOOLEAN
  /\ failures \in 0..MaxFailures /\ dbErrors \in 0..MaxDbErrors /\ crashes \in 0..MaxCrashes

\* backfill.ts:232, fillStatus.caughtUp: a worker that idles has left no block
\* from the floor to its target behind, but those that failed in this pass: the
\* windows of the scan and the jumps over covered spans lose none.
PassComplete ==
  fill.at = "idle" => (Floor..fill.target) \ skipped \subseteq covered

\* backfill.ts:157: both stay CONFIRMATIONS behind the head, however old the
\* answer is they act on: neither asks for a block too new to be final.
OnlyConfirmed ==
  /\ fill.at = "inspect" => fill.cursor <= head - Confirmations
  /\ follow.at = "inspect" => follow.n <= head - Confirmations

\* inspectorLoop.ts:35: the head-follower tries blocks in increasing order and
\* none twice, also when the node answers with an older head than before.
FollowsForward ==
  follow.at = "inspect" => follow.n > follow.lastInspected

\* This pass has left no block below n behind but those that failed.
PassedTo(n) == (Floor..(n - 1)) \ skipped \subseteq covered

\* What makes the three above inductive (backfill.ts:229, inspectorLoop.ts:27):
\* the pass is complete up to its cursor wherever it stands and up to the window
\* it scans, and both loops work up to a target that is confirmed already.
IndInv ==
  /\ TypeOK
  /\ PassComplete
  /\ OnlyConfirmed
  /\ FollowsForward
  /\ PassedTo(fill.cursor)
  /\ fill.at = "scan" => fill.start <= fill.target /\ PassedTo(fill.start)
  /\ fill.at = "inspect" => fill.cursor <= fill.target
  /\ follow.at = "inspect" => follow.n <= follow.target
  /\ fill.target <= head - Confirmations /\ follow.target <= head - Confirmations

\* backfill.ts:235: failures, late gaps and blocks the head-follower dropped are
\* met again: every confirmed block the node tells of is eventually inspected,
\* as long as the process lives.
CorpusFilled ==
  \A b \in Floor..LastHead :
    (b <= head - Confirmations - Lag) ~> (b \in covered \/ ~alive)

=============================================================================
