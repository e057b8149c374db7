------------------------------ MODULE MempoolWatcher ------------------------------
(***************************************************************************)
(* How explorer-api tells public transactions from private ones              *)
(* (mempoolWatcher.ts): a timer polls a filter of the node for pending       *)
(* transactions, whether or not the polls before it have ended; what they    *)
(* report is remembered for a while; and classify judges the transactions of *)
(* a block by what is remembered when the block is looked at.                *)
(*                                                                         *)
(* The node handles a request when it is sent, and only its answer takes     *)
(* time.  A filter reports a transaction once.  It is kept here for as long  *)
(* as anyone can ask for it.                                                 *)
(***************************************************************************)
EXTENDS Integers, FiniteSets

CONSTANTS
  Txs,        \* transactions
  Polls,      \* bound: polls that can be under way at once
  Retention,  \* RETENTION_MS, which is also WARMUP_MS
  MaxTime,    \* bound: the clock stops here
  MaxFaults,  \* bound: restarts, lost answers and unlucky batches
  None

ASSUME TimeAssumption == {Retention, MaxTime, MaxFaults} \subseteq Nat /\ None \notin Nat
ASSUME PollAssumption == IsFiniteSet(Polls)

VARIABLES
  now,          \* Date.now()
  started,      \* watcherStartedAtMs
  firstSeenAt,  \* the map of sightings
  filterId,
  polls,        \* pollFilter of each poll: [at, filter, hashes], see Places
  filters,      \* at the node, by id: [noted, hashes], noted is history
  entered,      \* when a transaction came to the public mempool
  minedAt,      \* the timestamp of its block
  mishaps

network == <<entered, minedAt>>
watcherVars == <<now, started, firstSeenAt, filterId, polls, filters, network, mishaps>>

Time == 0..MaxTime
Places == {"idle", "creating", "resumed", "asking", "failing"}
Idle == [at |-> "idle", filter |-> None, hashes |-> {}]

WatcherInit ==
  /\ now = 0 /\ started = 0 /\ mishaps = 0
  /\ firstSeenAt = [tx \in Txs |-> None]
  /\ filterId = None
  /\ polls = [p \in Polls |-> Idle]
  /\ filters = << >>
  /\ entered = [tx \in Txs |-> None] /\ minedAt = [tx \in Txs |-> None]
-----------------------------------------------------------------------------
(* Polls *)

Live(id) == id \in DOMAIN filters

\* Ids somebody holds before, and those somebody will hold after, a step.
Held == {filterId} \union {polls[p].filter : p \in Polls}
Keep(fs) == [f \in DOMAIN fs \intersect Held' |-> fs[f]]
Ids == 1..(Cardinality(Polls) + 2)
FreshId == CHOOSE f \in Ids : f \notin Held

\* eth_getFilterChanges: what the filter has not reported, or an error if there is none.
Ask(p, id) ==
  /\ polls' = [polls EXCEPT ![p] =
                 IF Live(id) THEN [Idle EXCEPT !.at = "asking", !.hashes = filters[id].hashes]
                             ELSE [Idle EXCEPT !.at = "failing"]]
  /\ filters' = Keep([f \in DOMAIN filters |->
                        IF f = id THEN [filters[f] EXCEPT !.hashes = {}] ELSE filters[f]])

\* The timer fires: ensureFilter has a filter ...
Poll(p) ==
  /\ polls[p].at = "idle" /\ filterId # None
  /\ UNCHANGED filterId
  /\ Ask(p, filterId)
  /\ UNCHANGED <<now, started, firstSeenAt, network, mishaps>>

\* ... or asks for one, as does every poll that starts before the answer.
Create(p) ==
  /\ polls[p].at = "idle" /\ filterId = None
  /\ UNCHANGED filterId
  /\ polls' = [polls EXCEPT ![p] = [at |-> "creating", filter |-> FreshId, hashes |-> {}]]
  /\ filters' = Keep([f \in DOMAIN filters \union {FreshId} |->
                        IF f = FreshId THEN [noted |-> {}, hashes |-> {}] ELSE filters[f]])
  /\ UNCHANGED <<now, started, firstSeenAt, network, mishaps>>

\* The id arrives, and the poll asks its filter.
Created(p) ==
  /\ polls[p].at = "creating"
  /\ filterId' = polls[p].filter
  /\ Ask(p, polls[p].filter)
  /\ UNCHANGED <<now, started, firstSeenAt, network, mishaps>>

\* Answers of one batch are handled before the poll goes on, with the filter that
\* is then in filterId.
CreatedInBatch(p) ==
  /\ polls[p].at = "creating" /\ mishaps < MaxFaults
  /\ filterId' = polls[p].filter
  /\ polls' = [polls EXCEPT ![p] = [Idle EXCEPT !.at = "resumed"]]
  /\ filters' = Keep(filters)
  /\ mishaps' = mishaps + 1
  /\ UNCHANGED <<now, started, firstSeenAt, network>>

Resume(p) ==
  /\ polls[p].at = "resumed"
  /\ UNCHANGED filterId
  /\ Ask(p, filterId)
  /\ UNCHANGED <<now, started, firstSeenAt, network, mishaps>>

\* recordHash of each hash: the first sighting stays.
Answered(p) ==
  /\ polls[p].at = "asking"
  /\ firstSeenAt' = [tx \in Txs |->
                       IF tx \in polls[p].hashes /\ firstSeenAt[tx] = None
                       THEN now ELSE firstSeenAt[tx]]
  /\ polls' = [polls EXCEPT ![p] = Idle]
  /\ UNCHANGED <<now, started, filterId, filters, network, mishaps>>

\* Slip: given up after a failing connection only, not when the node knows no such filter.
Failed_Bug(p) ==
  /\ polls[p].at = "failing"
  /\ filterId' = IF Live(filterId) THEN None ELSE filterId
  /\ polls' = [polls EXCEPT ![p] = Idle]
  /\ filters' = Keep(filters)
  /\ UNCHANGED <<now, started, firstSeenAt, network, mishaps>>

\* The catch: whichever filter is in filterId by now is given up.
Failed(p) ==
  /\ polls[p].at = "failing"
  /\ filterId' = None
  /\ polls' = [polls EXCEPT ![p] = Idle]
  /\ filters' = Keep(filters)
  /\ UNCHANGED <<now, started, firstSeenAt, network, mishaps>>
-----------------------------------------------------------------------------
(* Sightings and verdicts *)

\* The second timer, which is slower.
EvictOld ==
  /\ firstSeenAt' = [tx \in Txs |->
                       IF firstSeenAt[tx] # None /\ firstSeenAt[tx] < now - Retention
                       THEN None ELSE firstSeenAt[tx]]
  /\ UNCHANGED <<now, started, filterId, polls, filters, network, mishaps>>

\* Slip: a watcher that has just started knows as much as any.
WarmAt_Bug(timestamp) == started <= timestamp

\* watchedBeforeBlock and warmAtBlock: the watcher had watched for a whole retention.
WarmAt(timestamp) == timestamp - started >= Retention

classify(tx, timestamp) ==
  CASE firstSeenAt[tx] # None -> "public"
    [] firstSeenAt[tx] = None /\ now - timestamp <= Retention /\ started <= timestamp ->
         IF WarmAt(timestamp) THEN "private" ELSE "caching"
    [] OTHER -> "unknown"
-----------------------------------------------------------------------------
(* The network, the clock and what goes wrong *)

\* A pending transaction reaches the node, which notes it for each of its filters.
Enter(tx) ==
  /\ entered[tx] = None /\ minedAt[tx] = None
  /\ entered' = [entered EXCEPT ![tx] = now]
  /\ filters' = [f \in DOMAIN filters |->
                   [noted |-> filters[f].noted \union {tx},
                    hashes |-> filters[f].hashes \union {tx}]]
  /\ UNCHANGED <<now, started, firstSeenAt, filterId, polls, minedAt, mishaps>>

\* Its block comes, whose timestamp may be older; nobody need have seen it before.
Mine(tx) ==
  /\ minedAt[tx] = None
  /\ \E timestamp \in {now - 1, now} \intersect Time : minedAt' = [minedAt EXCEPT ![tx] = timestamp]
  /\ UNCHANGED <<now, started, firstSeenAt, filterId, polls, filters, entered, mishaps>>

Tick ==
  /\ now < MaxTime
  /\ now' = now + 1
  /\ UNCHANGED <<started, firstSeenAt, filterId, polls, filters, network, mishaps>>

\* The node has handled a request and its answer is lost.
LoseAnswer(p) ==
  /\ polls[p].at \in {"creating", "asking"} /\ mishaps < MaxFaults
  /\ UNCHANGED filterId
  /\ polls' = [polls EXCEPT ![p] = [at |-> "failing", filter |-> None, hashes |-> @.hashes]]
  /\ filters' = Keep(filters)
  /\ mishaps' = mishaps + 1
  /\ UNCHANGED <<now, started, firstSeenAt, network>>

\* The node forgets its filters.
NodeRestarts ==
  /\ DOMAIN filters # {} /\ mishaps < MaxFaults
  /\ filters' = << >>
  /\ mishaps' = mishaps + 1
  /\ UNCHANGED <<now, started, firstSeenAt, filterId, polls, network>>

\* explorer-api restarts, and start runs again.
WatcherRestarts ==
  /\ mishaps < MaxFaults
  /\ started' = now
  /\ firstSeenAt' = [tx \in Txs |-> None]
  /\ filterId' = None
  /\ polls' = [p \in Polls |-> Idle]
  /\ filters' = << >>
  /\ mishaps' = mishaps + 1
  /\ UNCHANGED <<now, network>>

PollSteps(p) == Created(p) \/ Resume(p) \/ Answered(p) \/ Failed(p)

WatcherNext ==
  \/ \E p \in Polls :
        Poll(p) \/ Create(p) \/ PollSteps(p) \/ CreatedInBatch(p) \/ LoseAnswer(p)
  \/ \E tx \in Txs : Enter(tx) \/ Mine(tx)
  \/ EvictOld \/ Tick \/ NodeRestarts \/ WatcherRestarts

\* The interval goes on, and each request is answered or fails.
WatcherFairness ==
  /\ WF_watcherVars(\E p \in Polls : Poll(p) \/ Create(p))
  /\ \A p \in Polls : WF_watcherVars(PollSteps(p))

WatcherSpec == WatcherInit /\ [][WatcherNext]_watcherVars

WatcherFairSpec == WatcherSpec /\ WatcherFairness
-----------------------------------------------------------------------------
(* Properties *)

\* The filter in place was there when the transaction came, and still is.
Covered(tx) == Live(filterId) /\ tx \in filters[filterId].noted

\* It will be reported by the filter, or is in an answer that has not been read.
UnderWay(tx) ==
  \/ Live(filterId) /\ tx \in filters[filterId].hashes
  \/ \E p \in Polls : tx \in polls[p].hashes

\* The only ways for classify (mempoolWatcher.ts) to call a transaction private
\* that was public, however polls overlap, fail and come back late: it came more
\* than a retention before the block is looked at, so that its sighting may have
\* been dropped; or it came since the watcher started, and the filter in place
\* then is no longer the one in place now, or has a report under way.
PrivateIsTrue ==
  \A tx \in Txs :
    minedAt[tx] # None /\ entered[tx] # None /\ classify(tx, minedAt[tx]) = "private" =>
      \/ entered[tx] < now - Retention
      \/ entered[tx] >= started /\ (UnderWay(tx) \/ ~Covered(tx))

\* What makes it true (mempoolWatcher.ts:48).  First the types, and the times: a
\* sighting is not earlier than what it sighted.
WatcherTypeOK ==
  /\ now \in Nat /\ started \in 0..now
  /\ {firstSeenAt, entered, minedAt} \subseteq [Txs -> Nat \union {None}]
  /\ filterId \in Ids \union {None}
  /\ polls \in [Polls -> [at : Places, filter : Ids \union {None}, hashes : SUBSET Txs]]
  /\ DOMAIN filters \subseteq Ids
  /\ filters \in [DOMAIN filters -> [noted : SUBSET Txs, hashes : SUBSET Txs]]
  /\ mishaps \in 0..MaxFaults

Timely ==
  \A tx \in Txs :
    /\ entered[tx] # None => entered[tx] <= now
    /\ minedAt[tx] # None => minedAt[tx] <= now
    /\ firstSeenAt[tx] # None =>
         entered[tx] # None /\ entered[tx] <= firstSeenAt[tx] /\ firstSeenAt[tx] <= now

\* Only what is in the mempool is noted, and hashes are in answers only.
Noted ==
  /\ \A f \in DOMAIN filters : \A tx \in filters[f].noted : entered[tx] # None
  /\ \A f \in DOMAIN filters : filters[f].hashes \subseteq filters[f].noted
  /\ \A p \in Polls :
       /\ polls[p].at \in {"idle", "creating", "resumed"} => polls[p].hashes = {}
       /\ \A tx \in polls[p].hashes : entered[tx] # None

\* Each filter is held by one poll that has asked for it, in vain so far, or is the
\* one in filterId, and only that one has been asked.
Holders ==
  /\ \A p \in Polls : polls[p].filter # None <=> polls[p].at = "creating"
  /\ \A p \in Polls : polls[p].filter # None =>
       /\ polls[p].filter # filterId
       /\ \A o \in Polls \ {p} : polls[o].filter # polls[p].filter
       /\ Live(polls[p].filter) =>
            filters[polls[p].filter].hashes = filters[polls[p].filter].noted
  /\ DOMAIN filters \subseteq Held

\* What the filter in place has noted is under way, seen, or old.
Reported ==
  \A tx \in Txs :
    Covered(tx) => UnderWay(tx) \/ firstSeenAt[tx] # None \/ entered[tx] < now - Retention

WatcherIndInv == WatcherTypeOK /\ Timely /\ Noted /\ Holders /\ Reported

\* Once nothing goes wrong any more, pollFilter ends up with a filter the node
\* knows and keeps it, although polls that failed before still come back and give
\* up whichever filter they find.
WatchResumes == <>[]Live(filterId)
=============================================================================
