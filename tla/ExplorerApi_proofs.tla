------------------------------ MODULE ExplorerApi_proofs ------------------------------
(***************************************************************************)
(* Proofs about the loops of explorer-api: FillWorker, for every floor,      *)
(* window, lag and length of the chain; Backfill, for any requests and       *)
(* ranges; MempoolWatcher, for any number of overlapping polls and any       *)
(* retention; each for any failures.                                         *)
(***************************************************************************)
EXTENDS FillWorker, Backfill, MempoolWatcher, FiniteSetTheorems, TLAPS

-----------------------------------------------------------------------------
(* FillWorker.  The worker scans in windows and jumps over what it finds     *)
(* covered, by an answer of the node that may be old, while the              *)
(* head-follower adds rows.  Rows are never taken away, so "everything below *)
(* the cursor is there, or failed" is kept by every step, and an idle worker *)
(* has passed its target.                                                    *)

\* The smaller of two numbers.
LEMMA MinOfTwo ==
  ASSUME NEW a \in Int, NEW b \in Int
  PROVE  Min({a, b}) = IF a <= b THEN a ELSE b
<1>1. \E x \in {a, b} : \A y \in {a, b} : x <= y
  OBVIOUS
<1>2. /\ Min({a, b}) \in {a, b}
      /\ \A y \in {a, b} : Min({a, b}) <= y
  BY <1>1 DEF Min
<1> QED BY <1>2

\* The larger of two numbers.
LEMMA MaxOfTwo ==
  ASSUME NEW a \in Int, NEW b \in Int
  PROVE  Max({a, b}) = IF a >= b THEN a ELSE b
<1>1. \E x \in {a, b} : \A y \in {a, b} : x >= y
  OBVIOUS
<1>2. /\ Max({a, b}) \in {a, b}
      /\ \A y \in {a, b} : Max({a, b}) >= y
  BY <1>1 DEF Max
<1> QED BY <1>2

\* The constants, one by one.
LEMMA Constants ==
  /\ Floor \in Nat /\ Confirmations \in Nat /\ ScanWindow \in Nat /\ MaxCatchup \in Nat
  /\ FirstHead \in Nat /\ LastHead \in Nat /\ Lag \in Nat
  /\ MaxFailures \in Nat /\ MaxDbErrors \in Nat /\ MaxCrashes \in Nat
  /\ ScanWindow > 0 /\ FirstHead <= LastHead /\ Confirmations + Lag < FirstHead
  BY ChainAssumption, BoundAssumption

\* The chain is long enough for every answer to be about a confirmed block.
LEMMA Targets ==
  ASSUME TypeOK, NEW h \in HeadAnswers
  PROVE  /\ h - Confirmations \in Blocks
         /\ h - Confirmations > 0
         /\ h - Confirmations <= head - Confirmations
  BY Constants DEF TypeOK, HeadAnswers, Blocks

\* The first state satisfies the inductive invariant.
LEMMA InitInv == Init => IndInv
  BY Constants
  DEF Init, IndInv, TypeOK, PassComplete, OnlyConfirmed, FollowsForward, PassedTo,
      FillStart, FollowStart, Fills, Blocks

\* A block that is covered elsewhere is in nobody's way.
LEMMA ElsewhereInv ==
  ASSUME IndInv, NEW b \in 0..LastHead, CoveredElsewhere(b) PROVE IndInv'
  BY DEF IndInv, TypeOK, PassComplete, OnlyConfirmed, FollowsForward, PassedTo,
         CoveredElsewhere, faults

\* A longer chain confirms more.
LEMMA ChainInv == ASSUME IndInv, ChainAdvances PROVE IndInv'
  BY Constants
  DEF IndInv, TypeOK, PassComplete, OnlyConfirmed, FollowsForward, PassedTo, Blocks,
      ChainAdvances, faults

\* A pass starts to scan at its cursor, or has passed the target already.
LEMMA FillHeadInv == ASSUME IndInv, FillHead PROVE IndInv'
<1> PICK h \in HeadAnswers :
      fill' = [fill EXCEPT !.at = IF fill.cursor <= h - Confirmations THEN "scan" ELSE "idle",
                           !.start = fill.cursor,
                           !.target = h - Confirmations]
  BY DEF FillHead
<1>1. /\ h - Confirmations \in Blocks
      /\ h - Confirmations <= head - Confirmations
  BY Targets DEF IndInv
<1>2. TypeOK'
  BY <1>1 DEF IndInv, TypeOK, FillHead, Fills, faults
<1>3. PassComplete'
  <2> SUFFICES ASSUME fill'.at = "idle" PROVE (Floor..fill'.target) \ skipped' \subseteq covered'
    BY DEF PassComplete
  <2>1. /\ ~(fill.cursor <= h - Confirmations) /\ fill'.target = h - Confirmations
        /\ fill.cursor \in Nat /\ h - Confirmations \in Int /\ Floor \in Int
    BY <1>1, Constants DEF IndInv, TypeOK, Blocks
  <2>2. UNCHANGED <<covered, skipped>> /\ PassedTo(fill.cursor)
    BY DEF FillHead, IndInv
  <2> QED BY <2>1, <2>2 DEF PassedTo
<1> QED
  BY <1>1, <1>2, <1>3, Constants
  DEF IndInv, TypeOK, OnlyConfirmed, FollowsForward, PassedTo, FillHead, Blocks, faults

\* A window is passed when it has no gap, and up to its first gap otherwise.
LEMMA FillScanInv == ASSUME IndInv, FillScan PROVE IndInv'
<1> DEFINE end == Min({fill.start + ScanWindow - 1, fill.target})
<1>1. /\ fill.at = "scan" /\ fill.start <= fill.target /\ PassedTo(fill.start)
      /\ fill.start \in Nat /\ fill.cursor \in Nat /\ fill.target \in Nat
      /\ ScanWindow \in Nat /\ ScanWindow > 0 /\ Floor \in Nat
  <2>1. fill.at = "scan" /\ fill.target \in Blocks
    BY DEF IndInv, TypeOK, FillScan, ScanTo
  <2> QED BY <2>1, Constants DEF IndInv, TypeOK, Blocks
<1>2. end = IF fill.start + ScanWindow - 1 <= fill.target THEN fill.start + ScanWindow - 1
            ELSE fill.target
  BY <1>1, MinOfTwo
<1> HIDE DEF end
<1>3. UNCHANGED <<head, covered, skipped, follow, alive, faults>>
  BY DEF FillScan, ScanTo
<1>4. CASE \E gap \in (fill.start..end) \ covered :
             /\ fill.start..(gap - 1) \subseteq covered
             /\ fill' = [fill EXCEPT !.at = "inspect", !.cursor = gap]
  <2> PICK gap \in (fill.start..end) \ covered :
        /\ fill.start..(gap - 1) \subseteq covered
        /\ fill' = [fill EXCEPT !.at = "inspect", !.cursor = gap]
    BY <1>4
  <2>1. gap \in Nat /\ gap <= fill.target
    BY <1>1, <1>2
  <2>2. PassedTo(gap)
    BY <1>1, <2>1 DEF PassedTo
  <2>3. gap <= head - Confirmations
    BY <1>1, <2>1, Constants DEF IndInv, TypeOK, Blocks
  <2> QED
    BY <1>1, <1>3, <2>1, <2>2, <2>3
    DEF IndInv, TypeOK, PassComplete, OnlyConfirmed, FollowsForward, PassedTo, Fills, faults
<1>5. CASE /\ (fill.start..end) \ covered = {}
           /\ fill' = IF fill.start + ScanWindow <= fill.target
                      THEN [fill EXCEPT !.start = fill.start + ScanWindow]
                      ELSE [fill EXCEPT !.at = "idle"]
  <2>1. PassedTo(end + 1)
    BY <1>1, <1>2, <1>5 DEF PassedTo
  <2>2. CASE fill.start + ScanWindow <= fill.target
    <3>1. end + 1 = fill.start + ScanWindow
      BY <1>1, <1>2, <2>2
    <3>2. fill' = [fill EXCEPT !.start = fill.start + ScanWindow]
      BY <1>5, <2>2
    <3> QED
      BY <1>1, <1>3, <2>1, <2>2, <3>1, <3>2
      DEF IndInv, TypeOK, PassComplete, OnlyConfirmed, FollowsForward, PassedTo, Fills, faults
  <2>3. CASE ~(fill.start + ScanWindow <= fill.target)
    <3>1. end = fill.target
      BY <1>1, <1>2, <2>3
    <3>2. fill' = [fill EXCEPT !.at = "idle"]
      BY <1>5, <2>3
    <3>3. PassComplete'
      BY <1>1, <1>3, <2>1, <3>1, <3>2 DEF PassComplete, PassedTo
    <3> QED
      BY <1>1, <1>3, <3>2, <3>3
      DEF IndInv, TypeOK, OnlyConfirmed, FollowsForward, PassedTo, Fills, faults
  <2> QED BY <2>2, <2>3
<1> QED BY <1>4, <1>5 DEF FillScan, ScanTo, end

\* The block at the cursor is there, or failed, when the cursor leaves it.
LEMMA FillInspectInv == ASSUME IndInv, FillInspected \/ FillFails PROVE IndInv'
<1>1. /\ fill.at = "inspect" /\ fill.cursor <= fill.target
      /\ fill.cursor \in Blocks /\ fill.cursor \in Nat
      /\ fill.cursor <= head - Confirmations
  BY Constants DEF IndInv, TypeOK, FillInspected, FillFails, Blocks
<1>2. /\ fill' = [fill EXCEPT !.at = "head", !.cursor = fill.cursor + 1]
      /\ UNCHANGED <<head, follow, alive>>
  BY DEF FillInspected, FillFails
<1>3. /\ covered \subseteq covered' /\ covered' \subseteq covered \cup {fill.cursor}
      /\ skipped \subseteq skipped' /\ skipped' \subseteq skipped \cup {fill.cursor}
      /\ fill.cursor \in covered' \cup skipped'
  BY DEF FillInspected, FillFails
<1>4. TypeOK'
  <2>1. failures' \in 0..MaxFailures /\ dbErrors' \in 0..MaxDbErrors /\ crashes' \in 0..MaxCrashes
    BY Constants DEF IndInv, TypeOK, FillInspected, FillFails, faults
  <2>2. fill' \in [at : Fills, cursor : Nat, start : Nat, target : Blocks]
    <3>1. fill.cursor + 1 \in Nat /\ "head" \in Fills
      BY <1>1 DEF Fills
    <3>2. fill \in [at : Fills, cursor : Nat, start : Nat, target : Blocks]
      BY DEF IndInv, TypeOK
    <3> QED BY <1>2, <3>1, <3>2
  <2>3. covered' \subseteq 0..LastHead
    BY <1>1, <1>3, Constants DEF IndInv, TypeOK, Blocks
  <2> QED BY <1>1, <1>2, <1>3, <2>1, <2>2, <2>3 DEF IndInv, TypeOK
<1>5. PassedTo(fill.cursor)'
  BY <1>1, <1>2, <1>3, Constants DEF IndInv, TypeOK, PassedTo
<1>6. OnlyConfirmed'
  BY <1>1, <1>2, <1>3 DEF IndInv, TypeOK, OnlyConfirmed
<1> QED
  BY <1>1, <1>2, <1>4, <1>5, <1>6
  DEF IndInv, TypeOK, PassComplete, FollowsForward, Fills

\* A new pass has passed nothing.
LEMMA FillWakesInv == ASSUME IndInv, FillWakes PROVE IndInv'
<1>1. /\ fill' = [fill EXCEPT !.at = "head", !.cursor = Floor] /\ skipped' = {}
      /\ UNCHANGED <<head, covered, follow, alive, faults>>
  BY DEF FillWakes
<1>2. TypeOK'
  BY <1>1, Constants DEF IndInv, TypeOK, Fills, faults
<1>3. PassedTo(fill.cursor)'
  BY <1>1, Constants DEF IndInv, TypeOK, PassedTo
<1> QED
  BY <1>1, <1>2, <1>3
  DEF IndInv, TypeOK, PassComplete, OnlyConfirmed, FollowsForward, Fills

\* A tick starts after the last block it tried.
LEMMA FollowHeadInv == ASSUME IndInv, FollowHead PROVE IndInv'
<1> PICK h \in HeadAnswers :
      follow' = IF FollowFrom(h - Confirmations) <= h - Confirmations
                THEN [follow EXCEPT !.at = "inspect", !.n = FollowFrom(h - Confirmations),
                                    !.target = h - Confirmations]
                ELSE follow
  BY DEF FollowHead
<1> DEFINE target == h - Confirmations
<1>1. /\ target \in Blocks /\ target > 0 /\ target \in Nat
      /\ target <= head - Confirmations
  BY Targets DEF IndInv, Blocks
<1>2. follow.lastInspected \in Nat /\ MaxCatchup \in Nat
  BY Constants DEF IndInv, TypeOK, Blocks
<1> HIDE DEF target
<1>3. FollowFrom(target) \in Nat /\ FollowFrom(target) > follow.lastInspected
  <2>1. CASE follow.lastInspected = 0
    BY <1>1, <2>1 DEF FollowFrom
  <2>2. CASE follow.lastInspected # 0
    <3>1. /\ follow.lastInspected + 1 \in Int /\ target - MaxCatchup \in Int
      BY <1>1, <1>2
    <3>2. FollowFrom(target) = IF follow.lastInspected + 1 >= target - MaxCatchup
                               THEN follow.lastInspected + 1 ELSE target - MaxCatchup
      BY <2>2, <3>1, MaxOfTwo DEF FollowFrom
    <3> QED BY <1>1, <1>2, <3>2
  <2> QED BY <2>1, <2>2
<1>4. follow' = IF FollowFrom(target) <= target
                THEN [follow EXCEPT !.at = "inspect", !.n = FollowFrom(target),
                                    !.target = target]
                ELSE follow
  BY DEF target
<1>5. FollowFrom(target) <= target => FollowFrom(target) \in Blocks
  BY <1>1, <1>3, Constants DEF Blocks
<1>6. /\ TypeOK' /\ FollowsForward'
      /\ (follow.at = "inspect" => follow.n <= follow.target)'
      /\ follow'.target <= head - Confirmations
  BY <1>1, <1>3, <1>4, <1>5, Constants
  DEF IndInv, TypeOK, FollowsForward, FollowHead, faults, Blocks
<1>7. OnlyConfirmed'
  <2>1. head \in Int /\ Confirmations \in Int /\ head' = head /\ fill' = fill
    BY Constants DEF IndInv, TypeOK, FollowHead
  <2>2. CASE FollowFrom(target) <= target
    <3>1. FollowFrom(target) <= head - Confirmations
      BY <1>1, <1>3, <2>1, <2>2
    <3>2. follow'.n = FollowFrom(target)
      BY <1>4, <2>2 DEF IndInv, TypeOK
    <3> QED BY <2>1, <3>1, <3>2 DEF IndInv, OnlyConfirmed
  <2>3. CASE ~(FollowFrom(target) <= target)
    BY <1>4, <2>1, <2>3 DEF IndInv, OnlyConfirmed
  <2> QED BY <2>2, <2>3
<1> QED
  BY <1>6, <1>7 DEF IndInv, PassComplete, PassedTo, FollowHead, faults

\* The follower goes on to the next block of its tick, or ends it.
LEMMA FollowInspectInv == ASSUME IndInv, FollowInspected \/ FollowFails PROVE IndInv'
<1>1. /\ follow.at = "inspect" /\ follow.n <= follow.target
      /\ follow.n > follow.lastInspected
      /\ {follow.n, follow.target, follow.lastInspected} \subseteq Blocks
      /\ follow.n \in Nat /\ follow.target \in Nat /\ follow.lastInspected \in Nat
      /\ follow.n <= head - Confirmations
  BY Constants DEF IndInv, TypeOK, FollowsForward, FollowInspected, FollowFails, Blocks
<1>2. Max({follow.lastInspected, follow.n}) = follow.n
  BY <1>1, MaxOfTwo
<1>3. follow' = [follow EXCEPT !.lastInspected = follow.n,
                               !.n = IF follow.n < follow.target THEN follow.n + 1 ELSE follow.n,
                               !.at = IF follow.n < follow.target THEN "inspect" ELSE "head"]
  BY <1>2 DEF FollowInspected, FollowFails, FollowNext
<1>4. /\ covered \subseteq covered' /\ covered' \subseteq covered \cup {follow.n}
      /\ UNCHANGED <<head, fill, skipped, alive>>
  BY DEF FollowInspected, FollowFails
<1>5. follow.n < follow.target => follow.n + 1 \in Blocks
  BY <1>1, Constants DEF Blocks
<1>6. TypeOK'
  <2>1. failures' \in 0..MaxFailures /\ dbErrors' \in 0..MaxDbErrors /\ crashes' \in 0..MaxCrashes
    BY Constants DEF IndInv, TypeOK, FollowInspected, FollowFails, faults
  <2>2. follow' \in [at : {"head", "inspect"}, n : Blocks, target : Blocks,
                     lastInspected : Blocks]
    BY <1>1, <1>3, <1>5 DEF IndInv, TypeOK
  <2>3. covered' \subseteq 0..LastHead
    BY <1>1, <1>4, Constants DEF IndInv, TypeOK, Blocks
  <2> QED BY <1>1, <1>4, <2>1, <2>2, <2>3 DEF IndInv, TypeOK
<1>7. /\ FollowsForward'
      /\ (follow.at = "inspect" => follow.n <= follow.target)'
      /\ follow'.target = follow.target
  BY <1>1, <1>3 DEF IndInv, TypeOK, FollowsForward
<1>8. OnlyConfirmed'
  <2>1. head \in Int /\ Confirmations \in Int /\ follow.target <= head - Confirmations
    BY Constants DEF IndInv, TypeOK
  <2>2. follow'.at = "inspect" => follow'.n = follow.n + 1 /\ follow.n < follow.target
    BY <1>3 DEF IndInv, TypeOK
  <2>3. follow'.at = "inspect" => follow'.n <= head - Confirmations
    BY <1>1, <2>1, <2>2
  <2> QED BY <1>4, <2>3 DEF IndInv, OnlyConfirmed
<1> QED
  BY <1>4, <1>6, <1>7, <1>8 DEF IndInv, PassComplete, PassedTo

\* A restart forgets the cursors, and with them what they promised.
LEMMA CrashInv == ASSUME IndInv, Crash PROVE IndInv'
  BY Constants
  DEF IndInv, TypeOK, PassComplete, OnlyConfirmed, FollowsForward, PassedTo, Fills, Blocks,
      Crash, FillStart, FollowStart

\* The steps that leave the worker and the table alone.
LEMMA IdleInv == ASSUME IndInv, FillScanRejects \/ UNCHANGED vars PROVE IndInv'
<1>1. UNCHANGED <<head, covered, fill, skipped, follow>>
  BY DEF FillScanRejects, vars
<1>2. alive' \in BOOLEAN
  <2>1. alive' = FALSE \/ alive' = alive
    BY DEF FillScanRejects, vars
  <2> QED BY <2>1 DEF IndInv, TypeOK
<1>3. failures' \in 0..MaxFailures /\ dbErrors' \in 0..MaxDbErrors /\ crashes' \in 0..MaxCrashes
  BY Constants DEF IndInv, TypeOK, FillScanRejects, vars, faults
<1> QED
  BY <1>1, <1>2, <1>3 DEF IndInv, TypeOK, PassComplete, OnlyConfirmed, FollowsForward, PassedTo

\* The invariant the theorems below rest on.
THEOREM Invariance == Spec => []IndInv
<1>1. IndInv /\ [Next]_vars => IndInv'
  BY ChainInv, ElsewhereInv, FillHeadInv, FillScanInv, FillInspectInv, FillWakesInv, FollowHeadInv,
     FollowInspectInv, CrashInv, IdleInv
  DEF Next, Fill, Follow, Gone
<1> QED BY <1>1, InitInv, PTL DEF Spec

\* backfill.ts:232: a worker that is caught up has left nothing behind, whatever
\* the window, the lag of the node and the rows there were.
THEOREM Complete == Spec => []PassComplete
<1>1. IndInv => PassComplete BY DEF IndInv
<1> QED BY <1>1, Invariance, PTL

\* backfill.ts:157: neither loop asks for a block before it is confirmed.
THEOREM Confirmed == Spec => []OnlyConfirmed
<1>1. IndInv => OnlyConfirmed BY DEF IndInv
<1> QED BY <1>1, Invariance, PTL

\* inspectorLoop.ts:35: the follower never turns back.
THEOREM Forward == Spec => []FollowsForward
<1>1. IndInv => FollowsForward BY DEF IndInv
<1> QED BY <1>1, Invariance, PTL

-----------------------------------------------------------------------------
(* Backfill.  A run walks its range in order, and leaves a block when it is  *)
(* in the table or has failed twice, whoever else walks.  While a client     *)
(* posts only when no other POST is unanswered, one run walks at a time and  *)
(* at most one request awaits it, so that status, stopRequested and          *)
(* runPromise are that run's.                                                *)

\* Runs that walk, one by one.
Walking == {"scan", "try", "cooldown", "retry", "lastCooldown", "pause"}

LEMMA WalkPlaces ==
  ASSUME NEW r, loop[r] \in Loops
  PROVE  Loop(r) <=> loop[r] \in Walking
BY DEF Loop, Loops, Ended, Walking

LEMMA BackfillInitInv == BackfillInit => BackfillIndInv
<1> SUFFICES ASSUME BackfillInit PROVE BackfillIndInv
  OBVIOUS
<1> USE RangeAssumption, RequestAssumption DEF BackfillInit
<1>1. \A r \in Requests : loop[r] = "new" /\ ~Loop(r)
  BY DEF Loop
<1>2. BackfillTypeOK
  <2>1. loop \in [Requests -> Loops]
    BY DEF Loops
  <2>2. block \in [Requests -> Nat] /\ \A r \in Requests : block[r] <= To[r]
    OBVIOUS
  <2>3. tally \in [inspected : Nat, skipped : Nat, failed : Nat]
    BY DEF NoTally
  <2>4. gaveUp \in [Requests -> SUBSET Ranges] /\ covered \subseteq Ranges
    OBVIOUS
  <2>5. failures \in 0..MaxFailures /\ dbErrors \in 0..MaxDbErrors /\ stops \in 0..MaxStops
    OBVIOUS
  <2>6. arrivals \in Seq(Requests) /\ awaited \in [Requests -> Requests \cup {NoRun}]
    OBVIOUS
  <2> QED BY <2>1, <2>2, <2>3, <2>4, <2>5, <2>6 DEF BackfillTypeOK
<1>3. Walks /\ Promised /\ StatusTrue /\ OneRun /\ Counted
  BY <1>1 DEF Walks, Promised, StatusTrue, OneRun, Counted
<1> QED BY <1>2, <1>3 DEF BackfillIndInv

\* The blocks of a run are among those that are asked for.
LEMMA Bounds ==
  ASSUME NEW r \in Requests
  PROVE  From[r] \in Nat /\ To[r] \in Nat /\ From[r] <= To[r]
BY RangeAssumption

LEMMA InRanges ==
  ASSUME NEW r \in Requests, NEW b \in From[r]..To[r]
  PROVE  b \in Ranges /\ b \in 0..To[r] /\ b \in Nat /\ From[r] \in 0..To[r]
BY RangeAssumption DEF Ranges

\* Requests pass their await while no other run walks, or clients overlap.
LEMMA LaunchInv ==
  ASSUME BackfillIndInv, NEW s \in SUBSET Requests, NEW phases \in [Requests -> Loops],
         Launch(s, phases), alive, UNCHANGED <<awaited, covered, gaveUp, alive, failures, dbErrors, stops>>,
         arrivals' \in Seq(Requests),
         \A r \in Requests \ s : phases[r] = loop[r] \/ phases[r] \in {"done", "stopped"},
         \A r \in Requests \ s : phases[r] = "done" => From[r]..To[r] \subseteq covered \cup gaveUp[r],
         \A w \in Requests \ s : phases[w] = "waiting" =>
           awaited[w] \in Requests /\ phases[awaited[w]] \in Walking,
         ~Overlapping => /\ \A r \in Requests \ s : phases[r] \in {"new"} \cup Ended
                         /\ \A v, w \in s : v = w
  PROVE  BackfillIndInv'
<1> USE RangeAssumption, RequestAssumption
<1>0. BackfillTypeOK /\ Walks
  BY DEF BackfillIndInv
<1>1. PICK last \in s :
        /\ loop' = [r \in Requests |-> IF r \in s THEN "scan" ELSE phases[r]]
        /\ block' = [r \in Requests |-> IF r \in s THEN From[r] ELSE block[r]]
        /\ stopRequested' = FALSE /\ running' = TRUE
        /\ latest' = last /\ tally' = NoTally /\ runPromise' = last
  BY DEF Launch
<1>2. \A r \in Requests : /\ r \in s => loop'[r] = "scan" /\ block'[r] = From[r]
                          /\ r \notin s => loop'[r] = phases[r] /\ block'[r] = block[r]
  BY <1>1
<1>3. BackfillTypeOK'
  <2>1. loop' \in [Requests -> Loops]
    BY <1>1 DEF Loops
  <2>2. block' \in [Requests -> Nat] /\ \A r \in Requests : block'[r] <= To[r]
    BY <1>0, <1>1 DEF BackfillTypeOK
  <2>3. tally' \in [inspected : Nat, skipped : Nat, failed : Nat]
    BY <1>1 DEF NoTally
  <2> QED BY <2>1, <2>2, <2>3, <1>0, <1>1 DEF BackfillTypeOK
<1>4. Walks'
  <2>1. ASSUME NEW r \in Requests
        PROVE  /\ Loop(r)' => block'[r] \in From[r]..To[r] /\ Behind(r)' \subseteq covered \cup gaveUp[r]
               /\ loop'[r] = "done" => From[r]..To[r] \subseteq covered \cup gaveUp[r]
    <3>1. CASE r \in s
      BY <3>1, <1>2 DEF Behind
    <3>2. CASE r \notin s
      BY <3>2, <1>0, <1>2 DEF Walks, Behind, Loop, Ended
    <3> QED BY <3>1, <3>2
  <2> QED BY <2>1 DEF Walks
<1>5. ASSUME ~Overlapping PROVE (StatusTrue /\ OneRun /\ Counted)'
  <2>1. s = {last}
    BY <1>1, <1>5
  <2>2. \A r \in Requests : Loop(r)' <=> r = last
    BY <1>2, <1>5, <2>1 DEF Loop, Ended
  <2>3. \A r \in Requests : loop'[r] # "waiting"
    BY <1>2, <1>5 DEF Ended
  <2>4. StatusTrue' /\ OneRun'
    BY <2>1, <2>2, <2>3, <1>1 DEF StatusTrue, OneRun
  <2>5. Counted'
    BY <2>1, <1>1, <1>2 DEF Counted, NoTally
  <2> QED BY <2>4, <2>5
<1>6. Promised'
  <2>1. \A r \in Requests : r \in s \/ phases[r] \in Walking => Loop(r)'
    BY <1>2 DEF Loop, Walking, Ended
  <2>2. \A w \in Requests : loop'[w] = "waiting" => w \notin s /\ phases[w] = "waiting"
    BY <1>2
  <2> QED BY <2>1, <2>2, <1>1 DEF Promised
<1> QED BY <1>3, <1>4, <1>5, <1>6 DEF BackfillIndInv

Tallies == [inspected : Nat, skipped : Nat, failed : Nat]
SumOf(t) == t.inspected + t.skipped + t.failed
Handled(place) == IF place \in {"lastCooldown", "pause"} THEN 1 ELSE 0

\* A run that walks, and while clients do not overlap the only one.
LEMMA TheRun ==
  ASSUME BackfillIndInv, alive, NEW r \in Requests, Loop(r)
  PROVE  /\ loop[r] \in Walking /\ block[r] \in From[r]..To[r] /\ block[r] \in Ranges
         /\ Behind(r) \subseteq covered \cup gaveUp[r]
         /\ ~Overlapping => /\ latest = r /\ runPromise = r
                            /\ SumOf(tally) = block[r] - From[r] + Handled(loop[r])
                            /\ \A q \in Requests \ {r} : ~Loop(q)
                            /\ \A w \in Requests : loop[w] = "waiting" => awaited[w] = r
<1>1. loop[r] \in Walking
  BY WalkPlaces DEF BackfillIndInv, BackfillTypeOK
<1>2. /\ block[r] \in From[r]..To[r] /\ block[r] \in Ranges
      /\ Behind(r) \subseteq covered \cup gaveUp[r]
  BY InRanges DEF BackfillIndInv, Walks
<1>3. ASSUME ~Overlapping
      PROVE  /\ latest = r /\ runPromise = r /\ \A q \in Requests \ {r} : ~Loop(q)
             /\ \A w \in Requests : loop[w] = "waiting" => awaited[w] = r
  BY <1>3 DEF BackfillIndInv, StatusTrue, OneRun
<1>4. ASSUME ~Overlapping PROVE SumOf(tally) = block[r] - From[r] + Handled(loop[r])
  <2>1. latest = r
    BY <1>3, <1>4
  <2>2. block[r] - From[r] \in Int /\ tally \in Tallies
    BY <1>2, Bounds DEF BackfillIndInv, BackfillTypeOK, Tallies
  <2> QED BY <2>1, <2>2, <1>4 DEF BackfillIndInv, Counted, SumOf, Handled, Tallies
<1> QED BY <1>1, <1>2, <1>3, <1>4

\* A run goes on walking.
LEMMA GoesOn ==
  ASSUME BackfillIndInv, alive, NEW r \in Requests, Loop(r), NEW place \in Walking,
         NEW b \in From[r]..To[r],
         loop' = [loop EXCEPT ![r] = place], block' = [block EXCEPT ![r] = b],
         covered \subseteq covered', covered' \subseteq Ranges,
         gaveUp' \in [Requests -> SUBSET Ranges], \A q \in Requests : gaveUp[q] \subseteq gaveUp'[q],
         tally' \in Tallies, failures' \in 0..MaxFailures,
         From[r]..(b - 1 + Handled(place)) \subseteq covered' \cup gaveUp'[r],
         ~Overlapping => SumOf(tally') = b - From[r] + Handled(place),
         UNCHANGED <<arrivals, awaited, runPromise, stopRequested, running, latest, alive,
                     dbErrors, stops>>
  PROVE  BackfillIndInv'
<1> USE RangeAssumption, RequestAssumption
<1>0. BackfillTypeOK /\ Walks
  BY DEF BackfillIndInv
<1>1. /\ loop'[r] = place /\ block'[r] = b
      /\ \A q \in Requests \ {r} : loop'[q] = loop[q] /\ block'[q] = block[q]
      /\ loop' \in [Requests -> Loops]
  BY <1>0 DEF BackfillTypeOK, Loops, Walking
<1>2. Loop(r)' /\ \A q \in Requests \ {r} : Loop(q)' <=> Loop(q)
  BY <1>1 DEF Loop, Walking, Ended
<1>3. BackfillTypeOK'
  <2>1. \A q \in Requests : block'[q] <= To[q]
    BY <1>0, <1>1 DEF BackfillTypeOK
  <2>2. b \in Nat
    BY Bounds
  <2>3. block' \in [Requests -> Nat]
    BY <2>2, <1>0 DEF BackfillTypeOK
  <2> QED BY <2>1, <2>3, <1>0, <1>1 DEF BackfillTypeOK, Tallies
<1>4. Behind(r)' = From[r]..(b - 1 + Handled(place))
  <2>1. Behind(r)' = From[r]..(IF place \in {"lastCooldown", "pause"} THEN b ELSE b - 1)
    BY <1>1 DEF Behind
  <2>2. b \in Nat
    BY Bounds
  <2>3. CASE place \in {"lastCooldown", "pause"}
    <3>1. b - 1 + Handled(place) = b
      BY <2>2, <2>3 DEF Handled
    <3> QED BY <2>1, <2>3, <3>1
  <2>4. CASE place \notin {"lastCooldown", "pause"}
    <3>1. b - 1 + Handled(place) = b - 1
      BY <2>2, <2>4 DEF Handled
    <3> QED BY <2>1, <2>4, <3>1
  <2> QED BY <2>3, <2>4
<1>5. Walks'
  <2>1. ASSUME NEW q \in Requests \ {r}
        PROVE  /\ Loop(q)' => block'[q] \in From[q]..To[q] /\ Behind(q)' \subseteq covered' \cup gaveUp'[q]
               /\ loop'[q] = "done" => From[q]..To[q] \subseteq covered' \cup gaveUp'[q]
    <3>1. Behind(q)' = Behind(q)
      BY <1>1 DEF Behind
    <3> QED BY <3>1, <1>0, <1>1, <1>2 DEF Walks
  <2>2. loop'[r] # "done"
    BY <1>1 DEF Walking
  <2> QED BY <2>1, <2>2, <1>1, <1>2, <1>4 DEF Walks
<1>6. ASSUME ~Overlapping PROVE (StatusTrue /\ OneRun /\ Counted)'
  <2>1. StatusTrue /\ OneRun /\ Counted /\ latest = r
    BY <1>6, TheRun DEF BackfillIndInv
  <2>2. \A q \in Requests : /\ Loop(q)' <=> Loop(q)
                            /\ loop'[q] = "waiting" <=> loop[q] = "waiting"
    BY <1>1, <1>2 DEF Loop, Walking
  <2>3. StatusTrue' /\ OneRun'
    BY <2>1, <2>2, <1>0 DEF StatusTrue, OneRun, BackfillTypeOK
  <2>4. Counted'
    <3>1. /\ SumOf(tally') = tally'.inspected + tally'.skipped + tally'.failed
          /\ tally'.inspected \in Nat /\ tally'.skipped \in Nat /\ tally'.failed \in Nat
      BY DEF SumOf, Tallies
    <3>2. loop'[r] # "done"
      BY <1>1 DEF Walking
    <3> QED BY <3>1, <3>2, <2>1, <1>1, <1>6, Bounds DEF Counted, Handled
  <2> QED BY <2>3, <2>4
<1>7. Promised'
  <2>1. \A q \in Requests : Loop(q) => Loop(q)'
    BY <1>2
  <2>2. \A q \in Requests : loop'[q] = "waiting" => loop[q] = "waiting"
    BY <1>1 DEF Walking
  <2> QED BY <2>1, <2>2, <1>0 DEF Promised, BackfillIndInv, BackfillTypeOK
<1> QED BY <1>3, <1>5, <1>6, <1>7 DEF BackfillIndInv

\* A run returns.
LEMMA ReturnInv ==
  ASSUME BackfillIndInv, alive, NEW r \in Requests, Loop(r), NEW how \in {"done", "stopped"},
         NEW t \in Tallies, Return(r, how, t),
         UNCHANGED <<covered, gaveUp, alive, failures, dbErrors, stops>>,
         how = "done" => /\ From[r]..To[r] \subseteq covered \cup gaveUp[r]
                         /\ ~Overlapping => SumOf(t) = To[r] - From[r] + 1
  PROVE  BackfillIndInv'
<1> DEFINE ended == [loop EXCEPT ![r] = how]
<1>0. BackfillTypeOK /\ Walks
  BY DEF BackfillIndInv
<1>1. /\ ended \in [Requests -> Loops] /\ ended[r] = how
      /\ \A q \in Requests \ {r} : ended[q] = loop[q]
  BY <1>0 DEF BackfillTypeOK, Loops
<1>2. Awaiting(r) \in SUBSET Requests /\ r \notin Awaiting(r)
  BY DEF Awaiting, Loop
<1>3. ~Overlapping => /\ \A q \in Requests \ {r} : loop[q] \in {"new", "waiting"} \cup Ended
                      /\ \A w \in Requests : loop[w] = "waiting" => w \in Awaiting(r)
                      /\ \A v, w \in Awaiting(r) : v = w
  BY TheRun DEF Loop, Awaiting, BackfillIndInv, OneRun
<1>4. \A w \in Requests \ Awaiting(r) : ended[w] = "waiting" =>
        awaited[w] \in Requests /\ awaited[w] # r /\ Loop(awaited[w])
  BY <1>1 DEF BackfillIndInv, Promised, Awaiting
<1>5. CASE Awaiting(r) # {}
  <2>1. Launch(Awaiting(r), ended) /\ UNCHANGED <<arrivals, awaited>>
    BY <1>5 DEF Return
  <2>2. arrivals' \in Seq(Requests)
    BY <2>1, <1>0 DEF BackfillTypeOK
  <2>3. \A q \in Requests \ Awaiting(r) : ended[q] = loop[q] \/ ended[q] \in {"done", "stopped"}
    BY <1>1
  <2>4. \A q \in Requests \ Awaiting(r) : ended[q] = "done" => From[q]..To[q] \subseteq covered \cup gaveUp[q]
    BY <1>0, <1>1 DEF Walks
  <2>5. ~Overlapping => \A q \in Requests \ Awaiting(r) : ended[q] \in {"new"} \cup Ended
    BY <1>1, <1>3 DEF Ended
  <2>6. \A w \in Requests \ Awaiting(r) : ended[w] = "waiting" =>
          awaited[w] \in Requests /\ ended[awaited[w]] \in Walking
    BY <1>0, <1>1, <1>4, WalkPlaces DEF BackfillTypeOK
  <2> HIDE DEF ended
  <2> QED BY <2>1, <2>2, <2>3, <2>4, <2>5, <2>6, <1>1, <1>2, <1>3, LaunchInv
<1>6. CASE Awaiting(r) = {}
  <2>1. /\ loop' = ended /\ running' = FALSE /\ runPromise' = NoRun /\ tally' = t
        /\ UNCHANGED <<block, stopRequested, latest, arrivals, awaited>>
    BY <1>6 DEF Return
  <2>2. BackfillTypeOK'
    BY <2>1, <1>0, <1>1 DEF BackfillTypeOK, Tallies
  <2>3. ~Loop(r)' /\ \A q \in Requests \ {r} : (Loop(q)' <=> Loop(q)) /\ Behind(q)' = Behind(q)
    BY <2>1, <1>1 DEF Loop, Ended, Behind
  <2>4. Walks'
    BY <2>1, <2>3, <1>0, <1>1 DEF Walks
  <2>5. ASSUME ~Overlapping PROVE (StatusTrue /\ OneRun /\ Counted)'
    <3>1. \A q \in Requests : ~Loop(q)' /\ loop'[q] # "waiting"
      BY <2>1, <2>3, <2>5, <1>1, <1>3, <1>6, TheRun
    <3>2. StatusTrue' /\ OneRun'
      BY <3>1, <2>1 DEF StatusTrue, OneRun
    <3>3. latest' = r
      BY <2>1, <2>5, TheRun
    <3>4. Counted'
      BY <3>1, <3>3, <2>1, <2>5, <1>1, RangeAssumption DEF Counted, SumOf
    <3> QED BY <3>2, <3>4
  <2>6. Promised'
    BY <2>1, <2>3, <1>4, <1>6 DEF Promised
  <2> QED BY <2>2, <2>4, <2>5, <2>6 DEF BackfillIndInv
<1> QED BY <1>5, <1>6

\* The loop of a run that has handled its block goes to the next.
LEMMA AdvanceInv ==
  ASSUME BackfillIndInv, alive, NEW r \in Requests, Loop(r), NEW t \in Tallies, Advance(r, t),
         UNCHANGED <<covered, gaveUp, alive, failures, dbErrors, stops>>,
         From[r]..block[r] \subseteq covered \cup gaveUp[r],
         ~Overlapping => SumOf(t) = block[r] - From[r] + 1
  PROVE  BackfillIndInv'
<1>0. /\ block[r] \in From[r]..To[r]
      /\ loop \in [Requests -> Loops] /\ block \in [Requests -> Nat]
      /\ covered \subseteq Ranges /\ gaveUp \in [Requests -> SUBSET Ranges]
      /\ failures \in 0..MaxFailures
  BY TheRun DEF BackfillIndInv, BackfillTypeOK
<1>1. CASE block[r] + 1 > To[r]
  <2>1. Return(r, "done", t)
    BY <1>1 DEF Advance
  <2>2. block[r] = To[r]
    BY <1>0, <1>1, Bounds
  <2> QED BY <2>1, <2>2, ReturnInv
<1>2. CASE ~(block[r] + 1 > To[r]) /\ stopRequested
  <2>1. Return(r, "stopped", t)
    BY <1>2 DEF Advance
  <2> QED BY <2>1, ReturnInv
<1>3. CASE ~(block[r] + 1 > To[r]) /\ ~stopRequested
  <2>1. /\ loop' = [loop EXCEPT ![r] = "scan"]
        /\ block' = [block EXCEPT ![r] = block[r] + 1] /\ tally' = t
        /\ UNCHANGED <<arrivals, awaited, runPromise, stopRequested, running, latest>>
    BY <1>3 DEF Advance
  <2>2. /\ block[r] + 1 \in From[r]..To[r] /\ (block[r] + 1) - 1 + Handled("scan") = block[r]
        /\ (block[r] + 1) - From[r] + Handled("scan") = block[r] - From[r] + 1
    BY <1>0, <1>3, Bounds DEF Handled
  <2>3. "scan" \in Walking
    BY DEF Walking
  <2> QED BY <2>1, <2>2, <2>3, <1>0, GoesOn
<1> QED BY <1>1, <1>2, <1>3

\* What a run has behind it.
LEMMA SoFar ==
  ASSUME BackfillIndInv, alive, NEW r \in Requests, Loop(r)
  PROVE  /\ From[r]..(block[r] - 1 + Handled(loop[r])) \subseteq covered \cup gaveUp[r]
         /\ block[r] \in Nat /\ From[r] \in Nat /\ From[r] <= block[r]
<1>1. /\ Behind(r) \subseteq covered \cup gaveUp[r] /\ block[r] \in Nat /\ From[r] \in Nat
      /\ From[r] <= block[r]
  BY TheRun, Bounds
<1>2. CASE loop[r] \in {"lastCooldown", "pause"}
  <2>1. block[r] - 1 + Handled(loop[r]) = block[r]
    BY <1>1, <1>2 DEF Handled
  <2> QED BY <2>1, <1>1, <1>2 DEF Behind
<1>3. CASE loop[r] \notin {"lastCooldown", "pause"}
  <2>1. block[r] - 1 + Handled(loop[r]) = block[r] - 1
    BY <1>1, <1>3 DEF Handled
  <2> QED BY <2>1, <1>1, <1>3 DEF Behind
<1> QED BY <1>2, <1>3

LEMMA ScanInv ==
  ASSUME BackfillIndInv, NEW r \in Requests, Scan(r)
  PROVE  BackfillIndInv'
<1> DEFINE t == [tally EXCEPT !.skipped = @ + 1]
<1>0. /\ alive /\ loop[r] = "scan" /\ Loop(r)
      /\ UNCHANGED <<gaveUp, covered, alive, failures, dbErrors, stops>>
  BY DEF Scan, Loop, Ended
<1>1. /\ tally \in Tallies /\ covered \subseteq Ranges /\ gaveUp \in [Requests -> SUBSET Ranges]
      /\ failures \in 0..MaxFailures /\ block \in [Requests -> Nat]
  BY DEF BackfillIndInv, BackfillTypeOK, Tallies
<1>2. /\ From[r]..(block[r] - 1) \subseteq covered \cup gaveUp[r] /\ block[r] \in From[r]..To[r]
      /\ block[r] \in Nat /\ From[r] \in Nat /\ From[r] <= block[r]
      /\ block[r] - 1 + 0 = block[r] - 1
  BY <1>0, <1>1, SoFar, TheRun DEF Handled
<1>3. ~Overlapping => SumOf(tally) = block[r] - From[r]
  BY <1>0, <1>2, TheRun DEF Handled
<1>4. CASE block[r] \in covered
  <2>1. Advance(r, t)
    BY <1>4 DEF Scan
  <2>2. t \in Tallies /\ SumOf(t) = SumOf(tally) + 1
    BY <1>1 DEF Tallies, SumOf
  <2>3. From[r]..block[r] \subseteq covered \cup gaveUp[r]
    BY <1>2, <1>4
  <2> HIDE DEF t
  <2> QED BY <2>1, <2>2, <2>3, <1>0, <1>2, <1>3, AdvanceInv
<1>5. CASE block[r] \notin covered
  <2>1. loop' = [loop EXCEPT ![r] = "try"] /\ UNCHANGED <<block, arrivals, awaited, shared>>
    BY <1>5 DEF Scan
  <2>2. block' = [block EXCEPT ![r] = block[r]]
    BY <2>1, <1>1
  <2>3. "try" \in Walking /\ Handled("try") = 0 /\ block[r] - From[r] + 0 = block[r] - From[r]
    BY <1>2 DEF Walking, Handled
  <2> QED BY <2>1, <2>2, <2>3, <1>0, <1>1, <1>2, <1>3, GoesOn DEF shared
<1> QED BY <1>4, <1>5

LEMMA PausedInv ==
  ASSUME BackfillIndInv, NEW r \in Requests, Paused(r)
  PROVE  BackfillIndInv'
<1>0. /\ alive /\ loop[r] = "pause" /\ Loop(r) /\ Advance(r, tally)
      /\ UNCHANGED <<gaveUp, covered, alive, failures, dbErrors, stops>>
  BY DEF Paused, Loop, Ended
<1>1. Handled(loop[r]) = 1 /\ tally \in Tallies
  BY <1>0 DEF Handled, BackfillIndInv, BackfillTypeOK, Tallies
<1>2. block[r] \in Nat /\ From[r] \in Nat /\ block[r] - 1 + 1 = block[r]
  BY <1>0, SoFar
<1> QED BY <1>0, <1>1, <1>2, SoFar, TheRun, AdvanceInv

LEMMA InspectedInv ==
  ASSUME BackfillIndInv, NEW r \in Requests, Inspected(r)
  PROVE  BackfillIndInv'
<1>0. /\ alive /\ loop[r] \in {"try", "retry"} /\ Loop(r)
      /\ covered' = covered \cup {block[r]} /\ tally' = [tally EXCEPT !.inspected = @ + 1]
      /\ loop' = [loop EXCEPT ![r] = "pause"]
      /\ UNCHANGED <<block, gaveUp, arrivals, awaited, runPromise, stopRequested, running, latest,
                     alive, failures, dbErrors, stops>>
  BY DEF Inspected, Loop, Ended
<1>1. /\ tally \in Tallies /\ covered \subseteq Ranges /\ gaveUp \in [Requests -> SUBSET Ranges]
      /\ failures \in 0..MaxFailures /\ block \in [Requests -> Nat]
  BY DEF BackfillIndInv, BackfillTypeOK, Tallies
<1>2. /\ From[r]..(block[r] - 1) \subseteq covered \cup gaveUp[r]
      /\ block[r] \in From[r]..To[r] /\ block[r] \in Ranges
      /\ block[r] \in Nat /\ From[r] \in Nat /\ From[r] <= block[r]
      /\ block[r] - 1 + 0 = block[r] - 1 /\ block[r] - 1 + 1 = block[r]
  BY <1>0, SoFar, TheRun DEF Handled
<1>3. ~Overlapping => SumOf(tally) = block[r] - From[r]
  BY <1>0, <1>2, TheRun DEF Handled
<1>4. tally' \in Tallies /\ SumOf(tally') = SumOf(tally) + 1 /\ SumOf(tally) \in Nat
  BY <1>0, <1>1 DEF Tallies, SumOf
<1>5. From[r]..block[r] \subseteq covered' \cup gaveUp'[r]
  BY <1>0, <1>2
<1>6. "pause" \in Walking /\ Handled("pause") = 1 /\ block' = [block EXCEPT ![r] = block[r]]
  BY <1>0, <1>1 DEF Walking, Handled
<1>7. covered' \subseteq Ranges /\ gaveUp' \in [Requests -> SUBSET Ranges] /\ failures' \in 0..MaxFailures
  BY <1>0, <1>1, <1>2
<1> QED BY <1>0, <1>1, <1>2, <1>3, <1>4, <1>5, <1>6, <1>7, GoesOn

LEMMA FailsInv ==
  ASSUME BackfillIndInv, NEW r \in Requests, Fails(r)
  PROVE  BackfillIndInv'
<1>0. /\ alive /\ loop[r] \in {"try", "retry"} /\ Loop(r)
      /\ failures < MaxFailures /\ failures' = failures + 1
      /\ UNCHANGED <<block, arrivals, awaited, runPromise, stopRequested, running, latest,
                     covered, alive, dbErrors, stops>>
  BY DEF Fails, Loop, Ended
<1>1. /\ tally \in Tallies /\ covered \subseteq Ranges /\ gaveUp \in [Requests -> SUBSET Ranges]
      /\ failures \in 0..MaxFailures /\ block \in [Requests -> Nat]
      /\ failures' \in 0..MaxFailures /\ covered' \subseteq Ranges
      /\ loop \in [Requests -> Loops]
  BY <1>0, RequestAssumption DEF BackfillIndInv, BackfillTypeOK, Tallies
<1>2. /\ From[r]..(block[r] - 1) \subseteq covered \cup gaveUp[r]
      /\ block[r] \in From[r]..To[r] /\ block[r] \in Ranges
      /\ block[r] \in Nat /\ From[r] \in Nat /\ From[r] <= block[r]
      /\ block[r] - 1 + 0 = block[r] - 1 /\ block[r] - 1 + 1 = block[r]
      /\ block[r] - From[r] + 0 = block[r] - From[r]
  BY <1>0, SoFar, TheRun DEF Handled
<1>3. ~Overlapping => SumOf(tally) = block[r] - From[r]
  BY <1>0, <1>2, TheRun DEF Handled
<1>4. block' = [block EXCEPT ![r] = block[r]]
  BY <1>0, <1>1
<1>5. CASE loop[r] = "try"
  <2>1. loop' = [loop EXCEPT ![r] = "cooldown"] /\ UNCHANGED <<tally, gaveUp>>
    BY <1>5 DEF Fails
  <2>2. "cooldown" \in Walking /\ Handled("cooldown") = 0
    BY DEF Walking, Handled
  <2>3. From[r]..(block[r] - 1 + Handled("cooldown")) \subseteq covered' \cup gaveUp'[r]
    BY <2>1, <2>2, <1>0, <1>2
  <2>4. ~Overlapping => SumOf(tally') = block[r] - From[r] + Handled("cooldown")
    BY <2>1, <2>2, <1>2, <1>3
  <2>5. /\ \A q \in Requests : gaveUp[q] \subseteq gaveUp'[q]
        /\ gaveUp' \in [Requests -> SUBSET Ranges] /\ tally' \in Tallies
        /\ covered \subseteq covered'
    BY <2>1, <1>0, <1>1
  <2> QED BY <2>1, <2>2, <2>3, <2>4, <2>5, <1>0, <1>1, <1>2, <1>4, GoesOn
<1>6. CASE loop[r] = "retry"
  <2>1. /\ loop' = [loop EXCEPT ![r] = "lastCooldown"]
        /\ tally' = [tally EXCEPT !.failed = @ + 1]
        /\ gaveUp' = [gaveUp EXCEPT ![r] = @ \cup {block[r]}]
    BY <1>6 DEF Fails
  <2>2. "lastCooldown" \in Walking /\ Handled("lastCooldown") = 1
    BY DEF Walking, Handled
  <2>3. tally' \in Tallies /\ SumOf(tally') = SumOf(tally) + 1 /\ SumOf(tally) \in Nat
    BY <2>1, <1>1 DEF Tallies, SumOf
  <2>4. /\ gaveUp' \in [Requests -> SUBSET Ranges] /\ gaveUp'[r] = gaveUp[r] \cup {block[r]}
        /\ \A q \in Requests : gaveUp[q] \subseteq gaveUp'[q]
    BY <2>1, <1>1, <1>2
  <2>5. From[r]..block[r] \subseteq covered' \cup gaveUp'[r]
    BY <2>4, <1>0, <1>2
  <2>6. From[r]..(block[r] - 1 + Handled("lastCooldown")) \subseteq covered' \cup gaveUp'[r]
    BY <2>2, <2>5, <1>2
  <2>7. ~Overlapping => SumOf(tally') = block[r] - From[r] + Handled("lastCooldown")
    BY <2>2, <2>3, <1>2, <1>3
  <2>8. covered \subseteq covered'
    BY <1>0
  <2> QED BY <2>1, <2>2, <2>3, <2>4, <2>6, <2>7, <2>8, <1>0, <1>1, <1>2, <1>4, GoesOn
<1> QED BY <1>0, <1>5, <1>6

LEMMA CooledDownInv ==
  ASSUME BackfillIndInv, NEW r \in Requests, CooledDown(r)
  PROVE  BackfillIndInv'
<1>0. /\ alive /\ loop[r] \in {"cooldown", "lastCooldown"} /\ Loop(r)
      /\ UNCHANGED <<gaveUp, covered, alive, failures, dbErrors, stops>>
  BY DEF CooledDown, Loop, Ended
<1>1. /\ tally \in Tallies /\ covered \subseteq Ranges /\ gaveUp \in [Requests -> SUBSET Ranges]
      /\ failures \in 0..MaxFailures /\ block \in [Requests -> Nat]
  BY DEF BackfillIndInv, BackfillTypeOK, Tallies
<1>2. CASE stopRequested
  <2>1. Return(r, "stopped", tally)
    BY <1>2 DEF CooledDown
  <2> QED BY <2>1, <1>0, <1>1, ReturnInv
<1>3. CASE ~stopRequested
  <2> DEFINE place == IF loop[r] = "cooldown" THEN "retry" ELSE "pause"
  <2>1. loop' = [loop EXCEPT ![r] = place] /\ UNCHANGED <<block, arrivals, awaited, shared>>
    BY <1>3 DEF CooledDown
  <2>2. block' = [block EXCEPT ![r] = block[r]] /\ block[r] \in From[r]..To[r]
    BY <2>1, <1>0, <1>1, TheRun
  <2>3. place \in Walking /\ Handled(place) = Handled(loop[r])
    BY <1>0 DEF Walking, Handled
  <2> HIDE DEF place
  <2> QED BY <2>1, <2>2, <2>3, <1>0, <1>1, SoFar, TheRun, GoesOn DEF shared
<1> QED BY <1>2, <1>3

LEMMA ScanRejectsInv ==
  ASSUME BackfillIndInv, NEW r \in Requests, ScanRejects(r)
  PROVE  BackfillIndInv'
<1> USE RangeAssumption, RequestAssumption
<1>0. /\ alive /\ loop[r] = "scan" /\ Loop(r)
      /\ dbErrors < MaxDbErrors /\ dbErrors' = dbErrors + 1
      /\ alive' = (Awaiting(r) # {}) /\ running' = FALSE /\ runPromise' = NoRun
      /\ UNCHANGED <<block, arrivals, awaited, gaveUp, stopRequested, latest, tally, covered,
                     failures, stops>>
  BY DEF ScanRejects, Loop, Ended
<1>1. BackfillTypeOK /\ Walks
  BY DEF BackfillIndInv
<1>2. /\ loop' \in [Requests -> Loops] /\ loop'[r] = "rejected"
      /\ \A q \in Requests \ {r} :
           loop'[q] = IF loop[q] = "waiting" /\ awaited[q] = r THEN "refused" ELSE loop[q]
  BY <1>1 DEF ScanRejects, BackfillTypeOK, Loops, Awaiting
<1>3. /\ ~Loop(r)'
      /\ \A q \in Requests \ {r} : /\ Loop(q)' <=> Loop(q)
                                   /\ Loop(q) => Behind(q)' = Behind(q)
                                   /\ loop'[q] = "done" <=> loop[q] = "done"
  BY <1>0, <1>2 DEF Loop, Ended, Behind
<1>4. BackfillTypeOK'
  <2>1. dbErrors' \in 0..MaxDbErrors /\ alive' \in BOOLEAN
    BY <1>0, <1>1 DEF BackfillTypeOK
  <2> QED BY <2>1, <1>0, <1>1, <1>2 DEF BackfillTypeOK
<1>5. Walks'
  BY <1>0, <1>1, <1>2, <1>3 DEF Walks
<1>6. ASSUME ~Overlapping PROVE (StatusTrue /\ OneRun /\ Counted)'
  <2>1. /\ latest = r /\ \A q \in Requests \ {r} : ~Loop(q)
        /\ \A w \in Requests : loop[w] = "waiting" => awaited[w] = r
    BY <1>0, <1>6, TheRun
  <2>2. \A q \in Requests : ~Loop(q)' /\ loop'[q] # "waiting"
    BY <2>1, <1>2, <1>3
  <2>3. StatusTrue' /\ OneRun'
    BY <2>2, <1>0 DEF StatusTrue, OneRun
  <2>4. Counted'
    BY <2>1, <2>2, <1>0, <1>2 DEF Counted
  <2> QED BY <2>3, <2>4
<1>7. Promised'
  <2>1. \A q \in Requests : loop'[q] = "waiting" => q # r /\ loop[q] = "waiting" /\ awaited[q] # r
    BY <1>2
  <2> QED BY <2>1, <1>0, <1>3 DEF BackfillIndInv, Promised
<1> QED BY <1>4, <1>5, <1>6, <1>7 DEF BackfillIndInv

LEMMA StartNowInv ==
  ASSUME BackfillIndInv, NEW r \in Requests, StartNow(r)
  PROVE  BackfillIndInv'
<1>0. /\ alive /\ loop[r] = "new" /\ runPromise = NoRun /\ Launch({r}, loop)
      /\ Overlapping \/ \A w \in Requests : loop[w] # "waiting"
      /\ UNCHANGED <<arrivals, awaited, covered, gaveUp, alive, failures, dbErrors, stops>>
  BY DEF StartNow
<1>1. loop \in [Requests -> Loops] /\ arrivals \in Seq(Requests) /\ Walks
  BY DEF BackfillIndInv, BackfillTypeOK
<1>2. ~Overlapping => \A q \in Requests : loop[q] \in {"new"} \cup Ended
  BY <1>0, RangeAssumption DEF BackfillIndInv, StatusTrue, Loop
<1>3. \A q \in Requests : loop[q] = "done" => From[q]..To[q] \subseteq covered \cup gaveUp[q]
  BY <1>1 DEF Walks
<1>4. \A w \in Requests : loop[w] = "waiting" =>
        awaited[w] \in Requests /\ loop[awaited[w]] \in Walking
  BY <1>0, <1>1, WalkPlaces DEF BackfillIndInv, Promised
<1> QED BY <1>0, <1>1, <1>2, <1>3, <1>4, LaunchInv

LEMMA StartWaitsInv ==
  ASSUME BackfillIndInv, NEW r \in Requests, StartWaits(r)
  PROVE  BackfillIndInv'
<1>0. /\ alive /\ loop[r] = "new" /\ runPromise # NoRun /\ stopRequested' = TRUE
      /\ Overlapping \/ \A w \in Requests : loop[w] # "waiting"
      /\ arrivals' = Append(arrivals, r)
      /\ awaited' = [awaited EXCEPT ![r] = runPromise] /\ loop' = [loop EXCEPT ![r] = "waiting"]
      /\ UNCHANGED <<block, runPromise, running, latest, tally, covered, gaveUp,
                     alive, failures, dbErrors, stops>>
  BY DEF StartWaits
<1>1. BackfillTypeOK /\ Walks
  BY DEF BackfillIndInv
<1>2. /\ loop' \in [Requests -> Loops] /\ loop'[r] = "waiting"
      /\ \A q \in Requests \ {r} : loop'[q] = loop[q]
      /\ awaited' \in [Requests -> Requests \cup {NoRun}] /\ awaited'[r] = runPromise
      /\ arrivals' \in Seq(Requests)
  BY <1>0, <1>1 DEF BackfillTypeOK, Loops
<1>3. ~Loop(r) /\ ~Loop(r)' /\ \A q \in Requests \ {r} : (Loop(q)' <=> Loop(q)) /\ Behind(q)' = Behind(q)
  BY <1>0, <1>2 DEF Loop, Behind
<1>4. BackfillTypeOK'
  BY <1>0, <1>1, <1>2 DEF BackfillTypeOK
<1>5. Walks'
  BY <1>0, <1>1, <1>2, <1>3 DEF Walks
<1>6. ASSUME ~Overlapping PROVE (StatusTrue /\ OneRun /\ Counted)'
  <2>1. StatusTrue /\ OneRun /\ Counted /\ \A w \in Requests : loop[w] # "waiting"
    BY <1>0, <1>6 DEF BackfillIndInv
  <2>2. StatusTrue'
    BY <2>1, <1>0, <1>3 DEF StatusTrue
  <2>3. OneRun'
    BY <2>1, <1>0, <1>1, <1>2, <1>3 DEF OneRun, BackfillTypeOK
  <2>4. Counted'
    BY <2>1, <1>0, <1>2, <1>3 DEF Counted
  <2> QED BY <2>2, <2>3, <2>4
<1>7. Promised'
  <2>1. runPromise \in Requests /\ Loop(runPromise) /\ runPromise # r
    BY <1>0, <1>1, <1>3 DEF BackfillIndInv, BackfillTypeOK, Promised
  <2>2. \A w \in Requests \ {r} : awaited'[w] = awaited[w]
    BY <1>0, <1>1 DEF BackfillTypeOK
  <2> QED BY <2>1, <2>2, <1>0, <1>2, <1>3 DEF BackfillIndInv, Promised
<1> QED BY <1>4, <1>5, <1>6, <1>7 DEF BackfillIndInv

\* Whatever leaves the runs alone.
LEMMA ApartInv ==
  ASSUME BackfillIndInv, stopRequested' \in BOOLEAN, stops' \in 0..MaxStops,
         covered \subseteq covered', covered' \subseteq Ranges,
         UNCHANGED <<runVars, arrivals, awaited, runPromise, running, latest, tally, alive,
                     failures, dbErrors>>
  PROVE  BackfillIndInv'
<1>1. \A r \in Requests : (Loop(r)' <=> Loop(r)) /\ Behind(r)' = Behind(r)
  BY DEF Loop, Behind, runVars
<1>2. BackfillTypeOK' /\ Walks'
  BY <1>1 DEF BackfillIndInv, BackfillTypeOK, Walks, runVars
<1>3. ~Overlapping => StatusTrue' /\ OneRun' /\ Counted'
  <2>1. Loop(runPromise)' <=> Loop(runPromise)
    BY DEF Loop, runVars
  <2> QED BY <1>1, <2>1 DEF BackfillIndInv, StatusTrue, OneRun, Counted, runVars
<1>4. Promised'
  <2>1. Loop(runPromise)' <=> Loop(runPromise)
    BY DEF Loop, runVars
  <2> QED BY <1>1, <2>1 DEF BackfillIndInv, Promised, runVars
<1> QED BY <1>2, <1>3, <1>4 DEF BackfillIndInv

\* The step that preserves the invariant, action by action.
LEMMA BackfillNextInv == BackfillIndInv /\ [BackfillNext]_backfillVars => BackfillIndInv'
<1> SUFFICES ASSUME BackfillIndInv, [BackfillNext]_backfillVars PROVE BackfillIndInv'
  OBVIOUS
<1>1. ASSUME NEW r \in Requests, StartNow(r) \/ StartWaits(r) PROVE BackfillIndInv'
  BY <1>1, StartNowInv, StartWaitsInv
<1>2. CASE Stop
  BY <1>2, ApartInv, RequestAssumption DEF Stop, BackfillIndInv, BackfillTypeOK
<1>3. ASSUME NEW r \in Requests, Run(r) PROVE BackfillIndInv'
  BY <1>3, ScanInv, InspectedInv, CooledDownInv, PausedInv DEF Run
<1>4. ASSUME NEW r \in Requests, ScanRejects(r) \/ Fails(r) PROVE BackfillIndInv'
  BY <1>4, ScanRejectsInv, FailsInv
<1>5. CASE UNCHANGED backfillVars
  BY <1>5, ApartInv DEF backfillVars, shared, BackfillIndInv, BackfillTypeOK
<1>6. ASSUME NEW b \in Ranges, CoveredMeanwhile(b) PROVE BackfillIndInv'
  BY <1>6, ApartInv DEF CoveredMeanwhile, shared, BackfillIndInv, BackfillTypeOK
<1> QED BY <1>1, <1>2, <1>3, <1>4, <1>5, <1>6 DEF BackfillNext, Quiet

\* The inductive invariant, for any requests, ranges and bounds: backfill.ts walks
\* each range in order and leaves no block of it behind, and as long as clients
\* wait for their answers there is one run, which the status tells of.
THEOREM BackfillInductive == BackfillSpec => []BackfillIndInv
BY BackfillInitInv, BackfillNextInv, PTL DEF BackfillSpec

\* GET /api/backfill tells what happens (backfill.ts:75), as long as a client
\* posts only when no other POST awaits the end of a run.
THEOREM StatusIsTrue == ASSUME ~Overlapping PROVE BackfillSpec => []StatusTrue
<1>1. BackfillIndInv => StatusTrue
  BY DEF BackfillIndInv
<1> QED BY <1>1, BackfillInductive, PTL

\* A run that reached its end left no block of its range behind, and its tally
\* accounts for each once (backfill.ts:101), under the same condition.
THEOREM DoneIsCovered == ASSUME ~Overlapping PROVE BackfillSpec => []DoneMeansCovered
<1>1. BackfillIndInv => DoneMeansCovered
  BY DEF BackfillIndInv, Walks, Counted, DoneMeansCovered
<1> QED BY <1>1, BackfillInductive, PTL

\* Whoever posts when: no block of a finished range is left behind (backfill.ts:101).
THEOREM NoBlockLeft ==
  BackfillSpec => [](\A r \in Requests :
                       loop[r] = "done" => From[r]..To[r] \subseteq covered \cup gaveUp[r])
<1>1. BackfillIndInv => \A r \in Requests :
                          loop[r] = "done" => From[r]..To[r] \subseteq covered \cup gaveUp[r]
  BY DEF BackfillIndInv, Walks
<1> QED BY <1>1, BackfillInductive, PTL

\* Whoever posts when: a request that waits (backfill.ts:77) awaits a run that still
\* walks, never one that has returned, so the end of that run is all it needs.
THEOREM NoneForgotten == BackfillSpec => []Promised
<1>1. BackfillIndInv => Promised
  BY DEF BackfillIndInv
<1> QED BY <1>1, BackfillInductive, PTL

LEMMA Returned ==
  ASSUME BackfillIndInv, NEW r \in Requests, Loop(r), NEW how \in {"done", "stopped"}, NEW t,
         Return(r, how, t)
  PROVE  ~Loop(r)'
<1>1. r \notin Awaiting(r) /\ loop \in [Requests -> Loops]
  BY DEF Awaiting, Loop, BackfillIndInv, BackfillTypeOK
<1>2. loop'[r] = how
  BY <1>1 DEF Return, Launch
<1> QED BY <1>2 DEF Loop, Ended

LEMMA StopStep ==
  ASSUME ~Overlapping, BackfillIndInv, [BackfillNext]_backfillVars,
         NEW r \in Requests, stopRequested, Loop(r), Loop(r)'
  PROVE  stopRequested' /\ block'[r] = block[r] /\ (loop[r] = "cooldown" => loop'[r] # "retry")
<1> DEFINE Kept == /\ stopRequested' /\ block'[r] = block[r]
                   /\ loop[r] = "cooldown" => loop'[r] # "retry"
<1>0. loop \in [Requests -> Loops] /\ (alive => runPromise = r /\ \A q \in Requests \ {r} : ~Loop(q))
  BY TheRun DEF BackfillIndInv, BackfillTypeOK
<1>1. ASSUME NEW q \in Requests, StartNow(q) PROVE Kept
  BY <1>0, <1>1, RangeAssumption DEF StartNow
<1>2. ASSUME NEW q \in Requests, StartWaits(q) PROVE Kept
  BY <1>0, <1>2 DEF StartWaits
<1>3. CASE Stop
  BY <1>3 DEF Stop, runVars
<1>4. ASSUME NEW q \in Requests, Scan(q) \/ Paused(q) PROVE Kept
  <2>1. q = r
    BY <1>0, <1>4 DEF Scan, Paused, Loop, Ended
  <2>2. ASSUME NEW t, Advance(r, t) PROVE FALSE
    <3>1. Return(r, "done", t) \/ Return(r, "stopped", t)
      BY <2>2 DEF Advance
    <3> QED BY <3>1, Returned
  <2>3. loop' = [loop EXCEPT ![r] = "try"] /\ UNCHANGED <<block, shared>>
    BY <1>4, <2>1, <2>2 DEF Scan, Paused
  <2> QED BY <2>3, <1>0 DEF shared
<1>5. ASSUME NEW q \in Requests, Inspected(q) PROVE Kept
  BY <1>0, <1>5 DEF Inspected
<1>6. ASSUME NEW q \in Requests, CooledDown(q) PROVE Kept
  <2>1. q = r
    BY <1>0, <1>6 DEF CooledDown, Loop, Ended
  <2> QED BY <1>6, <2>1, Returned DEF CooledDown
<1>7. ASSUME NEW q \in Requests, ScanRejects(q) PROVE Kept
  <2>1. q = r
    BY <1>0, <1>7 DEF ScanRejects, Loop, Ended
  <2> QED BY <1>7, <2>1 DEF ScanRejects, Loop, Ended
<1>8. ASSUME NEW q \in Requests, Fails(q) PROVE Kept
  BY <1>0, <1>8 DEF Fails
<1>9. CASE UNCHANGED backfillVars \/ \E b \in Ranges : CoveredMeanwhile(b)
  BY <1>9 DEF CoveredMeanwhile, backfillVars, runVars, shared
<1> QED BY <1>1, <1>2, <1>3, <1>4, <1>5, <1>6, <1>7, <1>8, <1>9 DEF BackfillNext, Run, Quiet

\* A stop is not forgotten (backfill.ts:102 and 124), under the same condition.
THEOREM StopIsKept == ASSUME ~Overlapping PROVE BackfillSpec => StopStands
<1>1. BackfillIndInv /\ [BackfillNext]_backfillVars =>
        [\A r \in Requests : (stopRequested /\ Loop(r) /\ Loop(r)') =>
           /\ stopRequested'
           /\ block'[r] = block[r]
           /\ loop[r] = "cooldown" => loop'[r] # "retry"]_backfillVars
  BY StopStep
<1> QED BY <1>1, BackfillInductive, PTL DEF BackfillSpec, StopStands

-----------------------------------------------------------------------------
(* MempoolWatcher.  A filter that no poll has asked yet has reported         *)
(* nothing, and the one in filterId has handed what it noted to a poll or    *)
(* still has it.  A failed poll gives that filter up, and its answer with    *)
(* it.                                                                       *)

LEMMA OneIsFree ==
  ASSUME NEW n \in Nat, NEW R, IsFiniteSet(R), Cardinality(R) <= n, NEW x
  PROVE  \E i \in 1..(n + 2) : i \notin R \cup {x}
<1>3. Cardinality(R) \in Nat
  BY FS_CardinalityType
<1>4. IsFiniteSet(R \cup {x}) /\ Cardinality(R \cup {x}) <= n + 1
  <2>1. Cardinality(R \cup {x}) \in {Cardinality(R), Cardinality(R) + 1}
    BY FS_AddElement
  <2>2. IsFiniteSet(R \cup {x})
    BY FS_AddElement
  <2> QED BY <2>1, <2>2, <1>3
<1>5. IsFiniteSet(1..(n + 2)) /\ Cardinality(1..(n + 2)) = n + 2
  <2>1. 1 \in Int /\ n + 2 \in Int /\ ~(1 > n + 2) /\ (n + 2) - 1 + 1 = n + 2
    OBVIOUS
  <2> QED BY <2>1, FS_Interval
<1>6. ~(1..(n + 2) \subseteq R \cup {x})
  <2> SUFFICES ASSUME 1..(n + 2) \in SUBSET (R \cup {x}) PROVE FALSE
    OBVIOUS
  <2>1. Cardinality(1..(n + 2)) <= Cardinality(R \cup {x})
    BY <1>4, FS_Subset
  <2>2. Cardinality(R \cup {x}) \in Nat
    BY <1>4, FS_CardinalityType
  <2> QED BY <2>1, <2>2, <1>4, <1>5
<1> QED BY <1>6

\* The node has an id to give.
LEMMA Fresh == FreshId \in Ids /\ FreshId \notin Held
<1> DEFINE g == [p \in Polls |-> polls[p].filter]
           R == {polls[p].filter : p \in Polls}
<1>1. g \in Surjection(Polls, R)
  BY DEF Surjection
<1>2. IsFiniteSet(R) /\ Cardinality(R) <= Cardinality(Polls) /\ Cardinality(Polls) \in Nat
  <2> HIDE DEF g, R
  <2> QED BY <1>1, PollAssumption, FS_Surjection, FS_CardinalityType
<1>3. \E i \in Ids : i \notin Held
  <2> HIDE DEF R
  <2>1. Held = {filterId} \cup R
    BY DEF Held, R
  <2>2. \E i \in 1..(Cardinality(Polls) + 2) : i \notin R \cup {filterId}
    BY <1>2, OneIsFree
  <2> QED BY <2>1, <2>2 DEF Ids
<1> QED BY <1>3 DEF FreshId

LEMMA WatcherInitInv == WatcherInit => WatcherIndInv
<1> SUFFICES ASSUME WatcherInit PROVE WatcherIndInv
  OBVIOUS
<1> USE TimeAssumption DEF WatcherInit
<1>1. filters = << >> /\ DOMAIN filters = {}
  OBVIOUS
<1>2. WatcherTypeOK
  BY <1>1 DEF WatcherTypeOK, Idle, Places
<1>3. Timely /\ Noted /\ Holders
  BY <1>1 DEF Timely, Noted, Holders, Idle, Held, Live
<1>4. Reported
  BY <1>1 DEF Reported, Covered, Live
<1> QED BY <1>2, <1>3, <1>4 DEF WatcherIndInv

\* What the invariant says of polls and filters, one by one.
LEMMA WatcherFacts ==
  ASSUME WatcherIndInv
  PROVE  /\ now \in Nat /\ None \notin Ids /\ None \notin DOMAIN filters
         /\ \A f \in DOMAIN filters :
              /\ f \in Ids /\ filters[f].noted \subseteq Txs /\ filters[f].hashes \subseteq Txs
              /\ filters[f] \in [noted : SUBSET Txs, hashes : SUBSET Txs]
         /\ \A p \in Polls :
              /\ polls[p].filter \in Ids \union {None} /\ polls[p].hashes \subseteq Txs
              /\ polls[p] \in [at : Places, filter : Ids \union {None}, hashes : SUBSET Txs]
         /\ \A tx \in Txs : /\ entered[tx] \in Nat \union {None}
                            /\ firstSeenAt[tx] \in Nat \union {None}
BY TimeAssumption DEF WatcherIndInv, WatcherTypeOK, Ids

\* The node hands a filter's hashes to a poll.
LEMMA AskInv ==
  ASSUME WatcherIndInv, NEW p \in Polls, polls[p].at \in {"idle", "creating", "resumed"},
         Ask(p, filterId'),
         \/ filterId' = filterId /\ polls[p].at # "creating"
         \/ filterId' = polls[p].filter /\ polls[p].at = "creating",
         UNCHANGED <<now, started, firstSeenAt, network, mishaps>>
  PROVE  WatcherIndInv'
<1> DEFINE id == filterId'
<1>0. /\ WatcherTypeOK /\ Timely /\ Noted /\ Holders /\ Reported
      /\ polls[p].hashes = {}
  BY DEF WatcherIndInv, Noted
<1>1. id \in Ids \union {None}
  BY <1>0 DEF WatcherTypeOK
<1>2. /\ polls' = [polls EXCEPT ![p] = polls'[p]]
      /\ polls'[p].at \in {"asking", "failing"} /\ polls'[p].filter = None
      /\ polls'[p] \in [at : Places, filter : Ids \union {None}, hashes : SUBSET Txs]
      /\ polls'[p].hashes = IF Live(id) THEN filters[id].hashes ELSE {}
  BY <1>0, WatcherFacts DEF Ask, Idle, Places, WatcherTypeOK, Live
<1>3. \A q \in Polls \ {p} : polls'[q] = polls[q]
  BY <1>2, <1>0 DEF WatcherTypeOK
<1>4. DOMAIN filters' = DOMAIN filters \intersect Held'
  BY DEF Ask, Keep
<1>5. \A f \in DOMAIN filters' :
        filters'[f] = IF f = id THEN [filters[f] EXCEPT !.hashes = {}] ELSE filters[f]
  BY DEF Ask, Keep
<1>6. \A f \in DOMAIN filters' :
        /\ f \in DOMAIN filters
        /\ filters'[f].noted = filters[f].noted
        /\ filters'[f].hashes = IF f = id THEN {} ELSE filters[f].hashes
        /\ filters'[f] \in [noted : SUBSET Txs, hashes : SUBSET Txs]
  <2> SUFFICES ASSUME NEW f \in DOMAIN filters'
               PROVE  /\ f \in DOMAIN filters
                      /\ filters'[f].noted = filters[f].noted
                      /\ filters'[f].hashes = IF f = id THEN {} ELSE filters[f].hashes
                      /\ filters'[f] \in [noted : SUBSET Txs, hashes : SUBSET Txs]
    OBVIOUS
  <2>1. f \in DOMAIN filters /\ filters[f] \in [noted : SUBSET Txs, hashes : SUBSET Txs]
    BY <1>4, WatcherFacts
  <2>2. filters'[f] = IF f = id THEN [filters[f] EXCEPT !.hashes = {}] ELSE filters[f]
    BY <1>5
  <2> HIDE DEF id
  <2> QED BY <2>1, <2>2
<1> HIDE DEF id
<1>7. WatcherTypeOK' /\ Timely'
  <2>1. filters' = [f \in DOMAIN filters' |-> filters'[f]]
    BY DEF Ask, Keep
  <2>2. filters' \in [DOMAIN filters' -> [noted : SUBSET Txs, hashes : SUBSET Txs]]
    BY <2>1, <1>6
  <2>3. polls' \in [Polls -> [at : Places, filter : Ids \union {None}, hashes : SUBSET Txs]]
    BY <1>0, <1>2 DEF WatcherTypeOK
  <2>4. DOMAIN filters' \subseteq Ids
    BY <1>6, WatcherFacts
  <2> QED BY <2>2, <2>3, <2>4, <1>0, <1>1 DEF WatcherTypeOK, Timely, network, id
<1>8. Noted'
  <2>1. \A q \in Polls : /\ polls'[q].at \in {"idle", "creating", "resumed"} => polls'[q].hashes = {}
                         /\ \A tx \in polls'[q].hashes : entered[tx] # None
    BY <1>0, <1>2, <1>3 DEF Noted, Live
  <2> QED BY <2>1, <1>0, <1>6 DEF Noted, network
<1>9. Holders'
  <2>1. DOMAIN filters' \subseteq Held'
    BY <1>4
  <2>2. \A q \in Polls : polls'[q].filter # None <=> polls'[q].at = "creating"
    BY <1>0, <1>2, <1>3 DEF Holders
  <2>3. ASSUME NEW q \in Polls, polls'[q].filter # None
        PROVE  /\ polls'[q].filter # id
               /\ \A o \in Polls \ {q} : polls'[o].filter # polls'[q].filter
               /\ polls'[q].filter \in DOMAIN filters' =>
                    filters'[polls'[q].filter].hashes = filters'[polls'[q].filter].noted
    <3>1. q # p /\ polls'[q] = polls[q] /\ polls[q].filter # None
      BY <1>2, <1>3, <2>3
    <3>2. polls[q].filter # id /\ \A o \in Polls \ {q} : polls[o].filter # polls[q].filter
      BY <3>1, <1>0 DEF Holders, id
    <3>3. \A o \in Polls \ {q} : polls'[o].filter # polls'[q].filter
      BY <3>1, <3>2, <1>2, <1>3
    <3>4. polls[q].filter \in DOMAIN filters =>
            filters[polls[q].filter].hashes = filters[polls[q].filter].noted
      BY <3>1, <1>0 DEF Holders, Live
    <3> QED BY <3>1, <3>2, <3>3, <3>4, <1>6
  <2> QED BY <2>1, <2>2, <2>3 DEF Holders, Live, id
<1>10. Reported'
  <2> SUFFICES ASSUME NEW tx \in Txs, id \in DOMAIN filters', tx \in filters'[id].noted
               PROVE  \/ \E q \in Polls : tx \in polls'[q].hashes
                      \/ firstSeenAt[tx] # None \/ entered[tx] < now - Retention
    BY DEF Reported, Covered, UnderWay, Live, network, id
  <2>1. id \in DOMAIN filters /\ tx \in filters[id].noted /\ polls'[p].hashes = filters[id].hashes
    BY <1>2, <1>6 DEF Live
  <2>2. CASE id = polls[p].filter /\ polls[p].at = "creating"
    <3>1. filters[id].hashes = filters[id].noted
      BY <2>1, <2>2, <1>0 DEF Holders, Live
    <3> QED BY <3>1, <2>1
  <2>3. CASE id = filterId
    <3>1. UnderWay(tx) \/ firstSeenAt[tx] # None \/ entered[tx] < now - Retention
      BY <2>1, <2>3, <1>0 DEF Reported, Covered, Live
    <3>2. ASSUME UnderWay(tx) PROVE \E q \in Polls : tx \in polls'[q].hashes
      BY <3>2, <2>1, <2>3, <1>0, <1>3 DEF UnderWay
    <3> QED BY <3>1, <3>2
  <2> QED BY <2>2, <2>3 DEF id
<1> QED BY <1>7, <1>8, <1>9, <1>10 DEF WatcherIndInv

\* A poll goes on, and the node keeps what somebody can ask for.
LEMMA KeepInv ==
  ASSUME WatcherIndInv, NEW p \in Polls, NEW at \in Places \ {"creating"}, NEW hashes \in SUBSET Txs,
         polls' = [polls EXCEPT ![p] = [at |-> at, filter |-> None, hashes |-> hashes]],
         filters' = Keep(filters), hashes \subseteq polls[p].hashes,
         at \in {"idle", "resumed"} => hashes = {},
         \/ filterId' = None
         \/ filterId' = polls[p].filter /\ polls[p].at = "creating"
         \/ filterId' = filterId /\ hashes = polls[p].hashes,
         mishaps' \in 0..MaxFaults, UNCHANGED <<now, started, firstSeenAt, network>>
  PROVE  WatcherIndInv'
<1> DEFINE id == filterId'
<1>0. WatcherTypeOK /\ Timely /\ Noted /\ Holders /\ Reported
  BY DEF WatcherIndInv
<1>1. id \in Ids \union {None}
  BY <1>0 DEF WatcherTypeOK
<1>2. /\ polls'[p] = [at |-> at, filter |-> None, hashes |-> hashes]
      /\ \A q \in Polls \ {p} : polls'[q] = polls[q]
      /\ polls' \in [Polls -> [at : Places, filter : Ids \union {None}, hashes : SUBSET Txs]]
  BY <1>0 DEF WatcherTypeOK
<1>3. DOMAIN filters' = DOMAIN filters \intersect Held'
  BY DEF Keep
<1>4. \A f \in DOMAIN filters' : f \in DOMAIN filters /\ filters'[f] = filters[f]
  BY DEF Keep
<1>5. filters' \in [DOMAIN filters' -> [noted : SUBSET Txs, hashes : SUBSET Txs]]
  <2>1. filters' = [f \in DOMAIN filters' |-> filters'[f]]
    BY DEF Keep
  <2>2. \A f \in DOMAIN filters' : filters'[f] \in [noted : SUBSET Txs, hashes : SUBSET Txs]
    BY <1>4, WatcherFacts
  <2> QED BY <2>1, <2>2
<1> HIDE DEF id
<1>6. WatcherTypeOK' /\ Timely'
  BY <1>0, <1>1, <1>2, <1>4, <1>5 DEF WatcherTypeOK, Timely, network, id
<1>7. Noted'
  <2>1. \A q \in Polls : /\ polls'[q].at \in {"idle", "creating", "resumed"} => polls'[q].hashes = {}
                         /\ \A tx \in polls'[q].hashes : entered[tx] # None
    BY <1>0, <1>2 DEF Noted
  <2> QED BY <2>1, <1>0, <1>4 DEF Noted, network
<1>8. Holders'
  <2>1. \A q \in Polls : polls'[q].filter # None <=> polls'[q].at = "creating"
    BY <1>0, <1>2 DEF Holders
  <2>2. ASSUME NEW q \in Polls, polls'[q].filter # None
        PROVE  /\ polls'[q].filter # id
               /\ \A o \in Polls \ {q} : polls'[o].filter # polls'[q].filter
               /\ polls'[q].filter \in DOMAIN filters' =>
                    filters'[polls'[q].filter].hashes = filters'[polls'[q].filter].noted
    <3>1. q # p /\ polls'[q] = polls[q] /\ polls[q].filter # None
      BY <1>2, <2>2
    <3>2. polls[q].filter # id /\ \A o \in Polls \ {q} : polls[o].filter # polls[q].filter
      BY <3>1, <1>0 DEF Holders, id
    <3>3. \A o \in Polls \ {q} : polls'[o].filter # polls'[q].filter
      BY <3>1, <3>2, <1>2
    <3>4. polls[q].filter \in DOMAIN filters =>
            filters[polls[q].filter].hashes = filters[polls[q].filter].noted
      BY <3>1, <1>0 DEF Holders, Live
    <3> QED BY <3>1, <3>2, <3>3, <3>4, <1>4
  <2> QED BY <2>1, <2>2, <1>3 DEF Holders, Live, id
<1>9. Reported'
  <2> SUFFICES ASSUME NEW tx \in Txs, id \in DOMAIN filters', tx \in filters'[id].noted
               PROVE  \/ tx \in filters'[id].hashes \/ \E q \in Polls : tx \in polls'[q].hashes
                      \/ firstSeenAt[tx] # None \/ entered[tx] < now - Retention
    BY DEF Reported, Covered, UnderWay, Live, network, id
  <2>1. id \in DOMAIN filters /\ filters'[id] = filters[id] /\ id # None
    BY <1>4, WatcherFacts
  <2>2. CASE id = polls[p].filter /\ polls[p].at = "creating"
    BY <2>1, <2>2, <1>0 DEF Holders, Live
  <2>3. CASE id = filterId /\ hashes = polls[p].hashes
    <3>1. UnderWay(tx) \/ firstSeenAt[tx] # None \/ entered[tx] < now - Retention
      BY <2>1, <2>3, <1>0 DEF Reported, Covered, Live
    <3>2. \A q \in Polls : polls'[q].hashes = polls[q].hashes
      BY <2>3, <1>2
    <3> QED BY <3>1, <3>2, <2>1, <2>3 DEF UnderWay
  <2> QED BY <2>1, <2>2, <2>3 DEF id
<1> QED BY <1>6, <1>7, <1>8, <1>9 DEF WatcherIndInv

LEMMA CreateInv == ASSUME WatcherIndInv, NEW p \in Polls, Create(p) PROVE WatcherIndInv'
<1> DEFINE id == FreshId
<1>0. /\ WatcherTypeOK /\ Timely /\ Noted /\ Holders /\ Reported
      /\ id \in Ids /\ id \notin Held /\ id # None
  BY Fresh, WatcherFacts DEF WatcherIndInv
<1>1. /\ filterId = None /\ UNCHANGED <<filterId, now, started, firstSeenAt, network, mishaps>>
      /\ polls' = [polls EXCEPT ![p] = [at |-> "creating", filter |-> id, hashes |-> {}]]
      /\ filters' = Keep([f \in DOMAIN filters \union {id} |->
                            IF f = id THEN [noted |-> {}, hashes |-> {}] ELSE filters[f]])
  BY DEF Create
<1> HIDE DEF id
<1>2. /\ polls'[p] = [at |-> "creating", filter |-> id, hashes |-> {}]
      /\ \A q \in Polls \ {p} : polls'[q] = polls[q]
      /\ polls' \in [Polls -> [at : Places, filter : Ids \union {None}, hashes : SUBSET Txs]]
  BY <1>0, <1>1 DEF WatcherTypeOK, Places
<1>3. id \notin DOMAIN filters /\ \A q \in Polls : polls[q].filter # id
  BY <1>0 DEF Holders, Held
<1>4. /\ DOMAIN filters' \subseteq Held' /\ DOMAIN filters' \subseteq DOMAIN filters \union {id}
      /\ \A f \in DOMAIN filters' :
           filters'[f] = IF f = id THEN [noted |-> {}, hashes |-> {}] ELSE filters[f]
      /\ filters' = [f \in DOMAIN filters' |-> filters'[f]]
  BY <1>1 DEF Keep
<1>5. filters' \in [DOMAIN filters' -> [noted : SUBSET Txs, hashes : SUBSET Txs]]
  <2>1. \A f \in DOMAIN filters' : filters'[f] \in [noted : SUBSET Txs, hashes : SUBSET Txs]
    BY <1>4, WatcherFacts
  <2> QED BY <2>1, <1>4
<1>6. WatcherTypeOK' /\ Timely'
  BY <1>0, <1>1, <1>2, <1>4, <1>5 DEF WatcherTypeOK, Timely, network
<1>7. Noted'
  <2>1. \A q \in Polls : /\ polls'[q].at \in {"idle", "creating", "resumed"} => polls'[q].hashes = {}
                         /\ \A tx \in polls'[q].hashes : entered[tx] # None
    BY <1>0, <1>2 DEF Noted
  <2>2. \A f \in DOMAIN filters' : /\ \A tx \in filters'[f].noted : entered[tx] # None
                                   /\ filters'[f].hashes \subseteq filters'[f].noted
    BY <1>0, <1>4 DEF Noted
  <2> QED BY <2>1, <2>2, <1>1 DEF Noted, network
<1>8. Holders'
  <2>1. \A q \in Polls : polls'[q].filter # None <=> polls'[q].at = "creating"
    BY <1>0, <1>2 DEF Holders
  <2>2. ASSUME NEW q \in Polls, polls'[q].filter # None
        PROVE  /\ polls'[q].filter # filterId
               /\ \A o \in Polls \ {q} : polls'[o].filter # polls'[q].filter
               /\ polls'[q].filter \in DOMAIN filters' =>
                    filters'[polls'[q].filter].hashes = filters'[polls'[q].filter].noted
    <3>1. \A o \in Polls \ {q} : polls'[o].filter # polls'[q].filter
      BY <1>0, <1>2, <1>3, <2>2 DEF Holders
    <3>0. filterId = None /\ polls'[q].filter # filterId
      BY <2>2, <1>1
    <3>2. CASE q = p
      <4>1. polls'[q].filter = id
        BY <3>2, <1>2
      <4>2. id \in DOMAIN filters' => filters'[id].hashes = filters'[id].noted
        BY <1>4
      <4> QED BY <3>0, <3>1, <4>1, <4>2
    <3>3. CASE q # p
      <4>1. polls'[q] = polls[q] /\ polls[q].filter # id
        BY <3>3, <1>2, <1>3
      <4>2. polls[q].filter \in DOMAIN filters =>
              filters[polls[q].filter].hashes = filters[polls[q].filter].noted
        BY <4>1, <2>2, <1>0 DEF Holders, Live
      <4> QED BY <3>0, <3>1, <4>1, <4>2, <1>4
    <3> QED BY <3>2, <3>3
  <2> QED BY <2>1, <2>2, <1>1, <1>4 DEF Holders, Live
<1>9. Reported'
  BY <1>0, <1>1, <1>4, WatcherFacts DEF Reported, Covered, Live
<1> QED BY <1>6, <1>7, <1>8, <1>9 DEF WatcherIndInv

\* A poll's answer is read.
LEMMA AnsweredInv == ASSUME WatcherIndInv, NEW p \in Polls, Answered(p) PROVE WatcherIndInv'
<1>0. /\ WatcherTypeOK /\ Timely /\ Noted /\ Holders /\ Reported
      /\ UNCHANGED <<now, started, filterId, filters, network, mishaps>>
  BY DEF Answered, WatcherIndInv
<1>1. /\ polls[p].at = "asking" /\ polls[p].filter = None
      /\ polls' = [polls EXCEPT ![p] = Idle]
      /\ firstSeenAt' = [tx \in Txs |-> IF tx \in polls[p].hashes /\ firstSeenAt[tx] = None
                                        THEN now ELSE firstSeenAt[tx]]
  BY <1>0 DEF Answered, Holders
<1>2. /\ polls'[p] = Idle /\ \A q \in Polls \ {p} : polls'[q] = polls[q]
      /\ polls' \in [Polls -> [at : Places, filter : Ids \union {None}, hashes : SUBSET Txs]]
      /\ \A q \in Polls : polls'[q].filter = polls[q].filter
  BY <1>0, <1>1 DEF WatcherTypeOK, Places, Idle
<1>3. \A tx \in Txs : /\ tx \in polls[p].hashes /\ firstSeenAt[tx] = None => firstSeenAt'[tx] = now
                      /\ ~(tx \in polls[p].hashes /\ firstSeenAt[tx] = None) =>
                           firstSeenAt'[tx] = firstSeenAt[tx]
  BY <1>1
<1>4. now \in Nat /\ now # None
  BY WatcherFacts, TimeAssumption
<1>5. WatcherTypeOK'
  <2>1. firstSeenAt' \in [Txs -> Nat \union {None}]
    BY <1>0, <1>1, <1>4 DEF WatcherTypeOK
  <2> QED BY <2>1, <1>0, <1>2 DEF WatcherTypeOK, network
<1>6. Timely'
  BY <1>0, <1>3, <1>4 DEF Timely, Noted, network
<1>7. Noted'
  <2>1. \A q \in Polls : /\ polls'[q].at \in {"idle", "creating", "resumed"} => polls'[q].hashes = {}
                         /\ \A tx \in polls'[q].hashes : entered[tx] # None
    BY <1>0, <1>2 DEF Noted, Idle
  <2> QED BY <2>1, <1>0 DEF Noted, network
<1>8. Holders'
  <2>1. \A q \in Polls : polls'[q].filter # None <=> polls'[q].at = "creating"
    BY <1>0, <1>2 DEF Holders, Idle
  <2>2. Held' = Held
    BY <1>0, <1>2 DEF Held
  <2> QED BY <2>1, <2>2, <1>0, <1>2 DEF Holders, Live
<1>9. Reported'
  <2> SUFFICES ASSUME NEW tx \in Txs, Covered(tx)
               PROVE  UnderWay(tx)' \/ firstSeenAt'[tx] # None \/ entered[tx] < now - Retention
    BY <1>0 DEF Reported, Covered, Live, network
  <2>1. UnderWay(tx) \/ firstSeenAt[tx] # None \/ entered[tx] < now - Retention
    BY <1>0 DEF Reported
  <2>2. firstSeenAt[tx] # None => firstSeenAt'[tx] # None
    BY <1>3
  <2>3. ASSUME UnderWay(tx) PROVE UnderWay(tx)' \/ firstSeenAt'[tx] # None
    <3>1. CASE tx \in polls[p].hashes
      BY <3>1, <2>2, <1>3, <1>4
    <3>2. CASE tx \notin polls[p].hashes
      BY <3>2, <2>3, <1>0, <1>2 DEF UnderWay, Live
    <3> QED BY <3>1, <3>2
  <2> QED BY <2>1, <2>2, <2>3
<1> QED BY <1>5, <1>6, <1>7, <1>8, <1>9 DEF WatcherIndInv

\* A transaction comes, which each filter notes.
LEMMA EnterInv == ASSUME WatcherIndInv, NEW tx \in Txs, Enter(tx) PROVE WatcherIndInv'
<1>0. /\ WatcherTypeOK /\ Timely /\ Noted /\ Holders /\ Reported
      /\ UNCHANGED <<now, started, firstSeenAt, filterId, polls, minedAt, mishaps>>
      /\ entered[tx] = None /\ entered' = [entered EXCEPT ![tx] = now]
  BY DEF Enter, WatcherIndInv
<1>1. now \in Nat /\ now # None
  BY WatcherFacts, TimeAssumption
<1>2. /\ entered' \in [Txs -> Nat \union {None}] /\ entered'[tx] = now
      /\ \A x \in Txs \ {tx} : entered'[x] = entered[x]
  BY <1>0, <1>1 DEF WatcherTypeOK
<1>3. /\ DOMAIN filters' = DOMAIN filters
      /\ filters' = [f \in DOMAIN filters' |-> filters'[f]]
      /\ \A f \in DOMAIN filters : /\ filters'[f].noted = filters[f].noted \union {tx}
                                   /\ filters'[f].hashes = filters[f].hashes \union {tx}
      /\ \A f \in DOMAIN filters : filters'[f] \in [noted : SUBSET Txs, hashes : SUBSET Txs]
  BY WatcherFacts DEF Enter
<1>4. WatcherTypeOK'
  <2>1. filters' \in [DOMAIN filters' -> [noted : SUBSET Txs, hashes : SUBSET Txs]]
    BY <1>3
  <2> QED BY <2>1, <1>0, <1>2, <1>3 DEF WatcherTypeOK
<1>5. Timely'
  <2> SUFFICES ASSUME NEW x \in Txs
               PROVE  /\ entered'[x] # None => entered'[x] <= now
                      /\ minedAt[x] # None => minedAt[x] <= now
                      /\ firstSeenAt[x] # None => /\ entered'[x] # None
                                                  /\ entered'[x] <= firstSeenAt[x]
                                                  /\ firstSeenAt[x] <= now
    BY <1>0 DEF Timely
  <2> QED BY <1>0, <1>1, <1>2 DEF Timely
<1>6. Noted'
  <2>1. \A x \in Txs : entered[x] # None \/ x = tx => entered'[x] # None
    BY <1>1, <1>2
  <2>2. \A f \in DOMAIN filters : /\ \A x \in filters'[f].noted : entered'[x] # None
                                  /\ filters'[f].hashes \subseteq filters'[f].noted
    BY <2>1, <1>0, <1>3, WatcherFacts DEF Noted
  <2>3. \A p \in Polls : /\ polls[p].at \in {"idle", "creating", "resumed"} => polls[p].hashes = {}
                         /\ \A x \in polls[p].hashes : entered'[x] # None
    BY <2>1, <1>0, WatcherFacts DEF Noted
  <2> QED BY <2>2, <2>3, <1>0, <1>3 DEF Noted
<1>7. Holders'
  <2>1. \A f \in DOMAIN filters : filters[f].hashes = filters[f].noted => filters'[f].hashes = filters'[f].noted
    BY <1>3
  <2>2. Held' = Held
    BY <1>0 DEF Held
  <2> QED BY <2>1, <2>2, <1>0, <1>3 DEF Holders, Live
<1>8. Reported'
  <2> SUFFICES ASSUME NEW x \in Txs, filterId \in DOMAIN filters, x \in filters'[filterId].noted
               PROVE  \/ x \in filters'[filterId].hashes \/ \E p \in Polls : x \in polls[p].hashes
                      \/ firstSeenAt[x] # None \/ entered'[x] < now - Retention
    BY <1>0, <1>3 DEF Reported, Covered, UnderWay, Live
  <2>1. CASE x = tx
    BY <2>1, <1>3
  <2>2. CASE x # tx
    <3>1. UnderWay(x) \/ firstSeenAt[x] # None \/ entered[x] < now - Retention
      BY <2>2, <1>0, <1>3 DEF Reported, Covered, Live
    <3> QED BY <3>1, <2>2, <1>2, <1>3 DEF UnderWay
  <2> QED BY <2>1, <2>2
<1> QED BY <1>4, <1>5, <1>6, <1>7, <1>8 DEF WatcherIndInv

\* Neither a poll nor a filter is touched.
LEMMA ClockInv ==
  ASSUME WatcherIndInv, Tick \/ EvictOld \/ \E tx \in Txs : Mine(tx) PROVE WatcherIndInv'
<1> USE TimeAssumption
<1>0. /\ WatcherTypeOK /\ Timely /\ Noted /\ Holders /\ Reported
      /\ UNCHANGED <<started, filterId, polls, filters, entered, mishaps>>
      /\ now \in Nat /\ now' \in Nat /\ now <= now' /\ started \in 0..now
  BY DEF Tick, EvictOld, Mine, network, WatcherIndInv, WatcherTypeOK
<1>1. firstSeenAt' \in [Txs -> Nat \union {None}] /\ minedAt' \in [Txs -> Nat \union {None}]
  BY <1>0 DEF Tick, EvictOld, Mine, network, WatcherTypeOK, Time
<1>2. \A tx \in Txs : /\ entered[tx] \in Nat \union {None}
                      /\ minedAt'[tx] # None => minedAt'[tx] <= now'
                      /\ firstSeenAt'[tx] # None => firstSeenAt'[tx] = firstSeenAt[tx]
                      /\ firstSeenAt[tx] # None /\ firstSeenAt'[tx] = None =>
                           entered[tx] < now' - Retention
  <2>1. CASE Tick
    BY <2>1, <1>0 DEF Tick, network, WatcherTypeOK, Timely
  <2>2. CASE EvictOld
    BY <2>2, <1>0 DEF EvictOld, network, WatcherTypeOK, Timely
  <2>3. ASSUME NEW tx \in Txs, Mine(tx)
        PROVE  /\ now' = now /\ firstSeenAt' = firstSeenAt
               /\ \A x \in Txs : minedAt'[x] # None => minedAt'[x] <= now
    BY <2>3, <1>0 DEF Mine, WatcherTypeOK, Timely, Time
  <2>4. \A tx \in Txs : entered[tx] \in Nat \union {None}
    BY WatcherFacts
  <2> QED BY <2>1, <2>2, <2>3, <2>4
<1>3. WatcherTypeOK' /\ Timely'
  BY <1>0, <1>1, <1>2, WatcherFacts DEF WatcherTypeOK, Timely
<1>4. Noted' /\ Holders'
  BY <1>0 DEF Noted, Holders, Held, Live
<1>5. Reported'
  <2> SUFFICES ASSUME NEW tx \in Txs, Covered(tx)
               PROVE  UnderWay(tx) \/ firstSeenAt'[tx] # None \/ entered[tx] < now' - Retention
    BY <1>0 DEF Reported, Covered, UnderWay, Live
  <2>1. UnderWay(tx) \/ firstSeenAt[tx] # None \/ entered[tx] < now - Retention
    BY <1>0 DEF Reported
  <2>2. entered[tx] \in Nat
    BY <1>0, <1>2 DEF Covered, Live, Noted
  <2> QED BY <2>1, <2>2, <1>0, <1>2
<1> QED BY <1>3, <1>4, <1>5 DEF WatcherIndInv

\* The node or the service starts again, and the filters are gone.
LEMMA RestartsInv == ASSUME WatcherIndInv, NodeRestarts \/ WatcherRestarts PROVE WatcherIndInv'
<1> USE TimeAssumption
<1>0. /\ WatcherTypeOK /\ Timely /\ Noted /\ Holders
      /\ filters' = << >> /\ DOMAIN filters' = {}
      /\ mishaps' \in 0..MaxFaults /\ UNCHANGED <<now, network>>
  BY DEF NodeRestarts, WatcherRestarts, WatcherIndInv, WatcherTypeOK
<1>1. Reported'
  BY <1>0 DEF Reported, Covered, Live
<1>2. filters' \in [DOMAIN filters' -> [noted : SUBSET Txs, hashes : SUBSET Txs]]
  BY <1>0
<1>3. CASE NodeRestarts
  BY <1>0, <1>1, <1>2, <1>3
  DEF NodeRestarts, network, WatcherIndInv, WatcherTypeOK, Timely, Noted, Holders, Live
<1>4. CASE WatcherRestarts
  <2>1. /\ firstSeenAt' = [tx \in Txs |-> None] /\ filterId' = None
        /\ polls' = [p \in Polls |-> Idle] /\ started' = now
    BY <1>4 DEF WatcherRestarts
  <2>2. WatcherTypeOK'
    BY <2>1, <1>0, <1>2 DEF network, WatcherTypeOK, Idle, Places
  <2>3. Timely' /\ Noted' /\ Holders'
    BY <2>1, <1>0 DEF network, Timely, Noted, Holders, Live, Idle
  <2> QED BY <2>2, <2>3, <1>1 DEF WatcherIndInv
<1> QED BY <1>3, <1>4

LEMMA WatcherNextInv == WatcherIndInv /\ [WatcherNext]_watcherVars => WatcherIndInv'
<1> SUFFICES ASSUME WatcherIndInv, [WatcherNext]_watcherVars PROVE WatcherIndInv'
  OBVIOUS
<1> USE TimeAssumption
<1>0. WatcherTypeOK /\ mishaps \in 0..MaxFaults
  BY DEF WatcherIndInv, WatcherTypeOK
<1>1. ASSUME NEW p \in Polls, Poll(p) \/ Created(p) \/ Resume(p) PROVE WatcherIndInv'
  <2>1. CASE Poll(p)
    BY <2>1, AskInv DEF Poll
  <2>2. CASE Created(p)
    BY <2>2, AskInv DEF Created
  <2>3. CASE Resume(p)
    BY <2>3, AskInv DEF Resume
  <2> QED BY <1>1, <2>1, <2>2, <2>3
<1>2. ASSUME NEW p \in Polls, Failed(p) PROVE WatcherIndInv'
  <2>1. /\ polls' = [polls EXCEPT ![p] = [at |-> "idle", filter |-> None, hashes |-> {}]]
        /\ filters' = Keep(filters) /\ filterId' = None
        /\ UNCHANGED <<now, started, firstSeenAt, network, mishaps>>
    BY <1>2 DEF Failed, Idle
  <2>2. "idle" \in Places \ {"creating"} /\ {} \in SUBSET Txs /\ {} \subseteq polls[p].hashes
    BY DEF Places
  <2> QED BY <2>1, <2>2, <1>0, KeepInv
<1>3. ASSUME NEW p \in Polls, CreatedInBatch(p) PROVE WatcherIndInv'
  <2>1. /\ polls' = [polls EXCEPT ![p] = [at |-> "resumed", filter |-> None, hashes |-> {}]]
        /\ filters' = Keep(filters) /\ filterId' = polls[p].filter /\ polls[p].at = "creating"
        /\ mishaps < MaxFaults /\ mishaps' = mishaps + 1
        /\ UNCHANGED <<now, started, firstSeenAt, network>>
    <3>1. [Idle EXCEPT !.at = "resumed"] = [at |-> "resumed", filter |-> None, hashes |-> {}]
      BY DEF Idle
    <3> QED BY <1>3, <3>1 DEF CreatedInBatch
  <2>3. mishaps' \in 0..MaxFaults
    BY <2>1, <1>0
  <2>2. "resumed" \in Places \ {"creating"} /\ {} \in SUBSET Txs /\ {} \subseteq polls[p].hashes
    BY DEF Places
  <2> QED BY <2>1, <2>2, <2>3, KeepInv
<1>4. ASSUME NEW p \in Polls, LoseAnswer(p) PROVE WatcherIndInv'
  <2>1. /\ polls' = [polls EXCEPT ![p] =
                       [at |-> "failing", filter |-> None, hashes |-> polls[p].hashes]]
        /\ filters' = Keep(filters) /\ filterId' = filterId
        /\ mishaps' \in 0..MaxFaults /\ UNCHANGED <<now, started, firstSeenAt, network>>
    BY <1>0, <1>4 DEF LoseAnswer
  <2>2. "failing" \in Places \ {"creating"} /\ polls[p].hashes \in SUBSET Txs
    BY WatcherFacts DEF Places
  <2> QED BY <2>1, <2>2, KeepInv
<1>5. ASSUME NEW p \in Polls, Create(p) \/ Answered(p) PROVE WatcherIndInv'
  BY <1>5, CreateInv, AnsweredInv
<1>6. ASSUME NEW tx \in Txs, Enter(tx) \/ Mine(tx) PROVE WatcherIndInv'
  BY <1>6, EnterInv, ClockInv
<1>7. CASE EvictOld \/ Tick \/ NodeRestarts \/ WatcherRestarts
  BY <1>7, ClockInv, RestartsInv
<1>8. CASE UNCHANGED watcherVars
  BY <1>8
  DEF watcherVars, network, WatcherIndInv, WatcherTypeOK, Timely, Noted, Holders, Held, Live,
      Reported, Covered, UnderWay
<1> QED BY <1>1, <1>2, <1>3, <1>4, <1>5, <1>6, <1>7, <1>8 DEF WatcherNext, PollSteps

\* The inductive invariant of the watcher (mempoolWatcher.ts:48), for any number
\* of overlapping polls, any retention and any faults.
THEOREM WatcherInductive == WatcherSpec => []WatcherIndInv
BY WatcherInitInv, WatcherNextInv, PTL DEF WatcherSpec

\* A public transaction is called private only when it is older than a retention,
\* or when its report is under way or went with the filter that had noted it
\* (mempoolWatcher.ts:104).
THEOREM PrivateUnlessLost == WatcherSpec => []PrivateIsTrue
<1>1. WatcherIndInv => PrivateIsTrue
  <2> SUFFICES ASSUME WatcherIndInv, NEW tx \in Txs, minedAt[tx] # None, entered[tx] # None,
                      classify(tx, minedAt[tx]) = "private", ~(entered[tx] < now - Retention)
               PROVE  entered[tx] >= started /\ (UnderWay(tx) \/ ~Covered(tx))
    BY DEF PrivateIsTrue
  <2>0. firstSeenAt[tx] \in Nat \union {None}
    BY WatcherFacts
  <2>1. /\ now \in Nat /\ started \in Nat /\ entered[tx] \in Nat /\ minedAt[tx] \in Nat
        /\ Retention \in Nat /\ minedAt[tx] <= now
    BY TimeAssumption DEF WatcherIndInv, WatcherTypeOK, Timely
  <2>2. firstSeenAt[tx] = None /\ WarmAt(minedAt[tx])
    <3>1. firstSeenAt[tx] # None => classify(tx, minedAt[tx]) = "public"
      BY DEF classify
    <3>2. firstSeenAt[tx] = None /\ ~WarmAt(minedAt[tx]) =>
            classify(tx, minedAt[tx]) \in {"caching", "unknown"}
      BY DEF classify
    <3> QED BY <3>1, <3>2
  <2>3. entered[tx] >= started
    BY <2>1, <2>2 DEF WarmAt
  <2>4. UnderWay(tx) \/ ~Covered(tx)
    BY <2>2 DEF WatcherIndInv, Reported
  <2> QED BY <2>3, <2>4
<1> QED BY <1>1, WatcherInductive, PTL
======================================================================================
