-------------------------------- MODULE Inspector --------------------------------
(***************************************************************************)
(* Block inspection in explorer-api: inspectBlockIfNeeded, its deduplication *)
(* of concurrent requests, its timeout, and the serial queue of background   *)
(* inspections (src/apps/explorer-api/src/inspector.ts), down to the         *)
(* transaction that writes the facts of a block and the evidence written     *)
(* after it (src/packages/inspect/src/inspectBlock.ts, writeBlock.ts).       *)
(*                                                                         *)
(* A caller stands for one place that asks for a block: a block view, the    *)
(* backfill, the fill worker, the head-follower.  It asks again after its    *)
(* request has settled.  The work a request started is a process of its own: *)
(* withTimeout rejects the promise the caller awaits, and leaves the work    *)
(* running.                                                                  *)
(***************************************************************************)
EXTENDS Integers, FiniteSets, Sequences

CONSTANTS
  Callers,      \* places that ask for blocks, one request at a time each
  Background,   \* those that go through backgroundInspect
  Blocks,       \* block numbers
  BlockOf,      \* the block a caller asks for
  None,         \* no promise in the inFlight map
  MaxFailures,  \* bound: how many RPC, SQL or evidence failures happen
  MaxCrashes    \* bound: how many times the process restarts

ASSUME CallerAssumption ==
  Background \subseteq Callers /\ BlockOf \in [Callers -> Blocks] /\ None \notin Callers
ASSUME BoundAssumption ==
  MaxFailures \in Nat /\ MaxCrashes \in Nat

VARIABLES
  pc,         \* where the request of a caller is: see Requests
  seen,       \* the answer of isInspected a caller is about to read
  joined,     \* the owner whose promise a caller awaits, or None
  chain,      \* backgroundTail: the background requests that have not settled
  inFlight,   \* the inFlight map: the owner of a block's promise, or None
  work,       \* where the inspectBlock call a caller started is: see Works
  doomed,     \* the committed rows the DELETEs of a caller's transaction found
  inspected,  \* rows of the table blocks
  rows,       \* per block, whose rows are in the tables keyed by a random UUID
  evidence,   \* blocks whose execution and flow artifacts are all written
  failures,   \* failures so far
  crashes,    \* restarts so far
  late        \* history: the blocks a request for which has timed out

requestVars == <<pc, seen, joined, chain, inFlight>>
database == <<inspected, rows, evidence>>
vars == <<requestVars, work, doomed, database, failures, crashes, late>>

Requests == {"idle", "queued", "checking", "checked", "joined", "owner", "ok", "failed"}
Works == {"none", "fetching", "fetched", "deleting", "deleted", "upserted", "committed",
          "done", "failed"}

\* A request that has been answered, and one past the background queue.
Answered == {"ok", "failed"}
Active == {"checking", "checked", "joined", "owner"}
\* An inspectBlock call that is still at work, and one that holds row locks.
AtWork == {"fetching", "fetched", "deleting", "deleted", "upserted", "committed"}
InTransaction == {"deleted", "upserted"}

-----------------------------------------------------------------------------
Init ==
  /\ pc = [c \in Callers |-> "idle"]
  /\ seen = [c \in Callers |-> FALSE]
  /\ joined = [c \in Callers |-> None]
  /\ chain = <<>>
  /\ inFlight = [b \in Blocks |-> None]
  /\ work = [c \in Callers |-> "none"]
  /\ doomed = [c \in Callers |-> {}]
  /\ inspected = {}
  /\ rows = [b \in Blocks |-> {}]
  /\ evidence = {}
  /\ failures = 0 /\ crashes = 0
  /\ late = {}

\* The work of an earlier request of c has ended, or c never had one.  A caller
\* asks again only then: the bound on work that outlives its request.
WorkEnded(c) == work[c] \notin AtWork

\* A block view waits in the background queue too.
Request_Bug(c) ==
  /\ pc[c] \in {"idle"} \cup Answered
  /\ WorkEnded(c)
  /\ chain' = Append(chain, c)
  /\ pc' = [pc EXCEPT ![c] = "queued"]
  /\ work' = [work EXCEPT ![c] = "none"]
  /\ UNCHANGED <<seen, joined, inFlight, doomed, database, failures, crashes, late>>

\* backgroundInspect(n) or inspectBlockIfNeeded(n) is called.
Request(c) ==
  /\ pc[c] \in {"idle"} \cup Answered
  /\ WorkEnded(c)
  /\ IF c \in Background
     THEN /\ chain' = Append(chain, c)
          /\ pc' = [pc EXCEPT ![c] = "queued"]
     ELSE /\ pc' = [pc EXCEPT ![c] = "checking"]
          /\ UNCHANGED chain
  /\ work' = [work EXCEPT ![c] = "none"]
  /\ UNCHANGED <<seen, joined, inFlight, doomed, database, failures, crashes, late>>

\* backgroundTail.then(...): the request before it has settled.
Begin(c) ==
  /\ pc[c] = "queued"
  /\ Head(chain) = c
  /\ pc' = [pc EXCEPT ![c] = "checking"]
  /\ UNCHANGED <<seen, joined, chain, inFlight, work, doomed, database,
                 failures, crashes, late>>

\* isInspected: the database answers ...
Check(c) ==
  /\ pc[c] = "checking"
  /\ seen' = [seen EXCEPT ![c] = BlockOf[c] \in inspected]
  /\ pc' = [pc EXCEPT ![c] = "checked"]
  /\ UNCHANGED <<joined, chain, inFlight, work, doomed, database,
                 failures, crashes, late>>

\* The settled requests s leave the chain; they get the answer a.
Settle(s, a) ==
  /\ pc' = [c \in Callers |-> IF c \in s THEN a ELSE pc[c]]
  /\ joined' = [c \in Callers |-> IF c \in s THEN None ELSE joined[c]]
  /\ chain' = IF chain # <<>> /\ Head(chain) \in s THEN Tail(chain) ELSE chain

\* isInspected rejects.
CheckFails(c) ==
  /\ pc[c] = "checking"
  /\ failures < MaxFailures
  /\ failures' = failures + 1
  /\ Settle({c}, "failed")
  /\ UNCHANGED <<seen, inFlight, work, doomed, database, crashes, late>>

\* ... and, after the await, the block is there,
AlreadyInspected(c) ==
  /\ pc[c] = "checked" /\ seen[c]
  /\ Settle({c}, "ok")
  /\ UNCHANGED <<seen, inFlight, work, doomed, database, failures, crashes, late>>

\* or another request is at it, and shares its promise,
Join(c) ==
  /\ pc[c] = "checked" /\ ~seen[c]
  /\ inFlight[BlockOf[c]] # None
  /\ pc' = [pc EXCEPT ![c] = "joined"]
  /\ joined' = [joined EXCEPT ![c] = inFlight[BlockOf[c]]]
  /\ UNCHANGED <<seen, chain, inFlight, work, doomed, database,
                 failures, crashes, late>>

\* or the request starts the inspection.
Own(c) ==
  /\ pc[c] = "checked" /\ ~seen[c]
  /\ inFlight[BlockOf[c]] = None
  /\ inFlight' = [inFlight EXCEPT ![BlockOf[c]] = c]
  /\ work' = [work EXCEPT ![c] = "fetching"]
  /\ pc' = [pc EXCEPT ![c] = "owner"]
  /\ UNCHANGED <<seen, joined, chain, doomed, database, failures, crashes, late>>

\* The owner and those that share its promise.
Sharing(c) == {c} \cup {d \in Callers : pc[d] = "joined" /\ joined[d] = c}

\* The timer is forgotten: the promise settles only with the work.
Timeout_Bug(c) == FALSE /\ UNCHANGED vars

\* Promise.race([promise, timeout]): the timer wins, the work goes on.
Timeout(c) ==
  /\ pc[c] = "owner"
  /\ work[c] \in AtWork
  /\ Settle(Sharing(c), "failed")
  /\ inFlight' = [inFlight EXCEPT ![BlockOf[c]] = None]
  /\ late' = late \cup {BlockOf[c]}
  /\ UNCHANGED <<seen, work, doomed, database, failures, crashes>>

\* The race is lost by the timer but read as a success.
Finish_Bug(c) ==
  /\ pc[c] = "owner"
  /\ work[c] \in {"done", "failed"}
  /\ Settle(Sharing(c), "ok")
  /\ inFlight' = [inFlight EXCEPT ![BlockOf[c]] = None]
  /\ UNCHANGED <<seen, work, doomed, database, failures, crashes, late>>

\* The work wins the race: its outcome is the answer.
Finish(c) ==
  /\ pc[c] = "owner"
  /\ work[c] \in {"done", "failed"}
  /\ Settle(Sharing(c), IF work[c] = "done" THEN "ok" ELSE "failed")
  /\ inFlight' = [inFlight EXCEPT ![BlockOf[c]] = None]
  /\ UNCHANGED <<seen, work, doomed, database, failures, crashes, late>>

-----------------------------------------------------------------------------
(* inspectBlock, statement by statement under READ COMMITTED.              *)

Working(c, from, to) == work[c] = from /\ work' = [work EXCEPT ![c] = to]

\* fetchBlock returns.
Fetch(c) ==
  /\ Working(c, "fetching", "fetched")
  /\ UNCHANGED <<requestVars, doomed, database, failures, crashes, late>>

\* BEGIN and the DELETEs: their snapshot holds the committed rows of the block.
Delete(c) ==
  /\ Working(c, "fetched", "deleting")
  /\ doomed' = [doomed EXCEPT ![c] = rows[BlockOf[c]]]
  /\ UNCHANGED <<requestVars, database, failures, crashes, late>>

\* They return once no other transaction holds one of these rows; what it has
\* inserted instead is not looked for.
DeleteReturns(c) ==
  /\ \A d \in Callers \ {c} :
       work[d] \in InTransaction /\ BlockOf[d] = BlockOf[c] => doomed[d] \cap doomed[c] = {}
  /\ Working(c, "deleting", "deleted")
  /\ UNCHANGED <<requestVars, doomed, database, failures, crashes, late>>

\* INSERT INTO blocks ... ON CONFLICT DO UPDATE: locks the row of the block.
Upsert(c) ==
  /\ \A d \in Callers \ {c} : BlockOf[d] = BlockOf[c] => work[d] # "upserted"
  /\ Working(c, "deleted", "upserted")
  /\ UNCHANGED <<requestVars, doomed, database, failures, crashes, late>>

\* The DELETEs are forgotten.
RowsAfter_Bug(c) == rows[BlockOf[c]] \cup {c}

\* Whose rows the block has when the transaction of c commits: arbitrages and
\* sandwiches get fresh UUIDs, so their ON CONFLICT DO NOTHING never finds a
\* conflict, and the rows of another stay beside them.
RowsAfter(c) == (rows[BlockOf[c]] \ doomed[c]) \cup {c}

\* The other INSERTs and COMMIT.
Commit(c) ==
  /\ Working(c, "upserted", "committed")
  /\ inspected' = inspected \cup {BlockOf[c]}
  /\ rows' = [rows EXCEPT ![BlockOf[c]] = RowsAfter(c)]
  /\ UNCHANGED <<requestVars, doomed, evidence, failures, crashes, late>>

\* The artifacts are written, each put on its own.
WriteEvidence(c) ==
  /\ Working(c, "committed", "done")
  /\ evidence' = evidence \cup {BlockOf[c]}
  /\ UNCHANGED <<requestVars, doomed, inspected, rows, failures, crashes, late>>

\* An RPC call, a statement of the transaction (ROLLBACK) or a put rejects.
WorkFails(c) ==
  /\ work[c] \in AtWork
  /\ failures < MaxFailures
  /\ failures' = failures + 1
  /\ work' = [work EXCEPT ![c] = "failed"]
  /\ UNCHANGED <<requestVars, doomed, database, crashes, late>>

\* The process restarts: requests, queue, map and open transactions are lost.
Crash ==
  /\ crashes < MaxCrashes
  /\ crashes' = crashes + 1
  /\ pc' = [c \in Callers |-> "idle"]
  /\ joined' = [c \in Callers |-> None]
  /\ chain' = <<>>
  /\ inFlight' = [b \in Blocks |-> None]
  /\ work' = [c \in Callers |-> "none"]
  /\ UNCHANGED <<seen, doomed, database, failures, late>>

-----------------------------------------------------------------------------
Handle(c) ==
  Begin(c) \/ Check(c) \/ AlreadyInspected(c) \/ Join(c) \/ Own(c) \/ Finish(c)

Inspect(c) ==
  Fetch(c) \/ Delete(c) \/ DeleteReturns(c) \/ Upsert(c) \/ Commit(c) \/ WriteEvidence(c)

Next ==
  \/ \E c \in Callers : Request(c)
  \/ \E c \in Callers : Handle(c)
  \/ \E c \in Callers : Timeout(c)
  \/ \E c \in Callers : Inspect(c)
  \/ \E c \in Callers : CheckFails(c) \/ WorkFails(c)
  \/ Crash

Spec == Init /\ [][Next]_vars

\* The event loop and the database answer, and the timer of a request that is
\* not answered fires.  Nothing is assumed of the RPC node.
HangFairness ==
  \A c \in Callers : WF_vars(Handle(c)) /\ WF_vars(Timeout(c))

HangSpec == Spec /\ HangFairness

-----------------------------------------------------------------------------
\* Every variable has its type.
TypeOK ==
  /\ pc \in [Callers -> Requests]
  /\ seen \in [Callers -> BOOLEAN]
  /\ joined \in [Callers -> Callers \cup {None}]
  /\ chain \in Seq(Background)
  /\ inFlight \in [Blocks -> Callers \cup {None}]
  /\ work \in [Callers -> Works]
  /\ doomed \in [Callers -> SUBSET Callers]
  /\ inspected \subseteq Blocks
  /\ rows \in [Blocks -> SUBSET Callers]
  /\ evidence \subseteq Blocks
  /\ failures \in 0..MaxFailures /\ crashes \in 0..MaxCrashes
  /\ late \subseteq Blocks

\* inspector.ts:65: one background request at a time is past the queue, and it
\* is the oldest that has not settled, whatever fails or times out before it.
BackgroundSerial ==
  \A c \in Background : pc[c] \in Active => chain # <<>> /\ Head(chain) = c

\* inspector.ts:43: requests for one block share one promise, although each
\* looked at the database before it looked at the map.
OneOwnerPerBlock ==
  /\ \A c \in Callers : (pc[c] = "owner") <=> (inFlight[BlockOf[c]] = c)
  /\ \A c \in Callers : pc[c] = "joined" => /\ joined[c] \in Callers
                                            /\ pc[joined[c]] = "owner"
                                            /\ BlockOf[joined[c]] = BlockOf[c]

\* A caller is told its block is inspected only when the facts are committed:
\* the promise it shared, a timeout or a crash in between change nothing.
OkMeansInspected ==
  /\ \A c \in Callers : pc[c] = "ok" => BlockOf[c] \in inspected
  /\ \A c \in Callers : work[c] \in {"committed", "done"} => BlockOf[c] \in inspected
  /\ \A c \in Callers : seen[c] /\ pc[c] = "checked" => BlockOf[c] \in inspected
  /\ \A b \in Blocks : b \in inspected <=> rows[b] # {}

\* The chain is the queue: each background request that has not been answered
\* is in it, once, and nothing else is.
QueueIsChain ==
  /\ \A i, k \in 1..Len(chain) : chain[i] = chain[k] => i = k
  /\ \A i \in 1..Len(chain) : pc[chain[i]] \in Active \cup {"queued"}
  /\ \A c \in Background : pc[c] \in Active \cup {"queued"} =>
       \E i \in 1..Len(chain) : chain[i] = c
  /\ \A c \in Callers : pc[c] = "queued" => c \in Background

\* writeBlock.ts:10: "Idempotent: each table's rows for the block are deleted
\* before re-insert": the facts of a block are stored once.
FactsOnce == \A b \in Blocks : Cardinality(rows[b]) <= 1

\* Unless a request for a block has timed out, an inspection is at work only for
\* the request that owns it, so what its DELETEs found is all there is.
Punctual ==
  \A b \in Blocks \ late :
    /\ \A c \in Callers : BlockOf[c] = b /\ work[c] \in AtWork => pc[c] = "owner"
    /\ \A c \in Callers :
         BlockOf[c] = b /\ work[c] \in {"deleting"} \cup InTransaction => doomed[c] = rows[b]
    /\ Cardinality(rows[b]) <= 1

\* A promise is in the map under the block it is for.
MapFits == \A b \in Blocks : inFlight[b] # None => BlockOf[inFlight[b]] = b

\* The owner of a promise has work under way, or its outcome.
OwnersWork == \A c \in Callers : pc[c] = "owner" => work[c] # "none"

\* inspector.ts:60: background inspections "never both hit the
\* connection-capped node at once", unless a request for a block of theirs has
\* timed out.
OneBackgroundInspection ==
  \A c, d \in Background :
    work[c] = "fetching" /\ work[d] = "fetching" =>
      c = d \/ BlockOf[c] \in late \/ BlockOf[d] \in late

\* The inductive invariant of Inspector_proofs.
IndInv ==
  /\ TypeOK
  /\ QueueIsChain
  /\ BackgroundSerial
  /\ MapFits
  /\ OneOwnerPerBlock
  /\ OwnersWork
  /\ OkMeansInspected
  /\ Punctual

\* writeBlock.ts:10 again: over failures and restarts the facts of a block are
\* stored once, if no request for it has timed out.
FactsOnceInTime == \A b \in Blocks \ late : Cardinality(rows[b]) <= 1

\* Whom an unanswered request waits for: if it is queued, for the head of the queue;
\* and who shares a promise, for its owner.
Front(c) == IF pc[c] = "queued" THEN Head(chain) ELSE c
WaitsFor(c) == IF pc[Front(c)] = "joined" THEN joined[Front(c)] ELSE Front(c)

\* inspector.ts:24, 43 and 65: queue, map and timer never wait for each other in a
\* circle, nor for a promise that has settled.  Behind each unanswered request there
\* is one that goes on by itself: its turn has come, the database answers it, or it
\* owns work that has ended or that the timer ends.
AnswerComes ==
  \A c \in Callers : pc[c] \in Active \cup {"queued"} =>
    LET d == WaitsFor(c)
    IN  /\ d \in Callers
        /\ \/ pc[d] = "queued" /\ Head(chain) = d
           \/ pc[d] \in {"checking", "checked"}
           \/ pc[d] = "owner" /\ work[d] \in AtWork \cup {"done", "failed"}

\* withTimeout, inspector.ts:22: no request, in the queue or past it, waits for
\* ever when the node hangs.
EveryRequestAnswered ==
  \A c \in Callers :
    (pc[c] \in Active \cup {"queued"}) ~> (pc[c] \in Answered \cup {"idle"})

Promise ==
  INSTANCE InspectorPromise WITH
    asking <- {c \in Callers : pc[c] \in Active \cup {"queued"}},
    granted <- {c \in Callers : pc[c] = "ok"},
    covered <- inspected

\* The inspector keeps InspectorPromise: success means covered, and covered
\* blocks stay covered (inspector.ts:36), timeouts, failures and the work that
\* outlives its request included.
KeepsPromise == Promise!Spec
=============================================================================
