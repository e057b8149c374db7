------------------------------ MODULE Decompilation ------------------------------
(***************************************************************************)
(* Decompiled evidence: the gateway of trace-api with its durable cache, its *)
(* in-flight map and its client (src/apps/trace-api/src/decompiler.ts,       *)
(* putDecompilationArtifact of src/packages/evidence/src/postgres.ts), and   *)
(* the worker slots and processes of decompiler-api behind it                *)
(* (src/apps/decompiler-api/src/service.ts, runner.ts).                      *)
(*                                                                         *)
(* A request stands for one place that asks for the evidence of a contract.  *)
(* An artifact is "decompiled" (complete or partial), or it is a failure     *)
(* that is not retried before its time, "cooling", or may be, "due".         *)
(***************************************************************************)
EXTENDS Integers

CONSTANTS
  Requests,   \* places that ask, one request at a time each
  Codes,      \* runtime codehashes
  CodeOf,     \* the codehash a request is about
  Slots,      \* worker slots: 1..maxConcurrency
  Free,       \* no codehash: the slot has no process
  MaxLosses   \* bound: how many restarts and store failures happen

\* What a user of this module owes.
Assumptions == CodeOf \in [Requests -> Codes] /\ Free \notin Codes /\ MaxLosses \in Nat

VARIABLES
  asked,      \* per request: "idle", "waiting", or the answer, see Answers
  flight,     \* #inFlight and how far its promise is: see Flights
  reply,      \* what the service has begun to send, or the outcome to be stored
  artifact,   \* the row of the decompilation artifact of a codehash
  process,    \* per slot: the codehash it works on, or Free
  signalled,  \* per slot: "none", "term" or "kill"
  heard,      \* per slot: whether the client still waits for the response
  losses      \* restarts and failures so far

gateway == <<asked, flight, reply, artifact>>
service == <<process, signalled, heard>>
vars == <<gateway, service, losses>>

Answers == {"decompiled", "opaque", "failed"}
Flights == {"none", "looking", "calling", "hung", "storing"}
Artifacts == {"none", "cooling", "due", "decompiled"}
Outcomes == {"decompiled", "opaque"}

-----------------------------------------------------------------------------
Init ==
  /\ asked = [r \in Requests |-> "idle"]
  /\ flight = [h \in Codes |-> "none"]
  /\ reply = [h \in Codes |-> "none"]
  /\ artifact = [h \in Codes |-> "none"]
  /\ process = [s \in Slots |-> Free]
  /\ signalled = [s \in Slots |-> "none"]
  /\ heard = [s \in Slots |-> FALSE]
  /\ losses = 0

Lose == losses < MaxLosses /\ losses' = losses + 1

-----------------------------------------------------------------------------
(* The gateway.                                                            *)

\* resolve: a promise in the map is shared, or a new one is entered before the
\* first await.
Resolve(r) ==
  /\ asked[r] # "waiting"
  /\ asked' = [asked EXCEPT ![r] = "waiting"]
  /\ flight' = [flight EXCEPT ![CodeOf[r]] = IF @ = "none" THEN "looking" ELSE @]
  /\ UNCHANGED <<reply, artifact, service, losses>>

\* An answer is read.
Taken(r) ==
  /\ asked[r] \in Answers
  /\ asked' = [asked EXCEPT ![r] = "idle"]
  /\ UNCHANGED <<flight, reply, artifact, service, losses>>

\* A success expires like a failure.
CacheIsCurrent_Bug(h) == artifact[h] = "cooling"

CacheIsCurrent(h) == artifact[h] \in {"decompiled", "cooling"}

\* The promise of h settles: those that share it get the answer, and the entry
\* leaves the map.
Settle(h, answer) ==
  /\ asked' = [r \in Requests |->
                 IF CodeOf[r] = h /\ asked[r] = "waiting" THEN answer ELSE asked[r]]
  /\ flight' = [flight EXCEPT ![h] = "none"]
  /\ reply' = [reply EXCEPT ![h] = "none"]

\* The cached artifact is current.
Hit(h) ==
  /\ flight[h] = "looking" /\ CacheIsCurrent(h)
  /\ Settle(h, IF artifact[h] = "decompiled" THEN "decompiled" ELSE "opaque")
  /\ UNCHANGED <<artifact, service, losses>>

\* It is not: the bytecode goes to the service, which starts a process ...
Accept(h, s) ==
  /\ flight[h] = "looking" /\ ~CacheIsCurrent(h)
  /\ process[s] = Free
  /\ process' = [process EXCEPT ![s] = h]
  /\ heard' = [heard EXCEPT ![s] = TRUE]
  /\ flight' = [flight EXCEPT ![h] = "calling"]
  /\ UNCHANGED <<asked, reply, artifact, signalled, losses>>

\* ... or answers 429: no slot is free, and nothing waits for one.
Refuse(h) ==
  /\ flight[h] = "looking" /\ ~CacheIsCurrent(h)
  /\ \A s \in Slots : process[s] # Free
  /\ flight' = [flight EXCEPT ![h] = "calling"]
  /\ reply' = [reply EXCEPT ![h] = "opaque"]
  /\ UNCHANGED <<asked, artifact, service, losses>>

\* The response has been read to its end; one that is too long, malformed or
\* empty counts as a failure.
Deliver(h) ==
  /\ flight[h] = "calling" /\ reply[h] # "none"
  /\ flight' = [flight EXCEPT ![h] = "storing"]
  /\ reply' \in {reply, [reply EXCEPT ![h] = "opaque"]}
  /\ UNCHANGED <<asked, artifact, service, losses>>

\* The client hangs up after its timeout; the process goes on, unheard.
ClientTimeout(h) ==
  /\ flight[h] = "calling"
  /\ flight' = [flight EXCEPT ![h] = "storing"]
  /\ reply' = [reply EXCEPT ![h] = "opaque"]
  /\ heard' = [s \in Slots |-> heard[s] /\ process[s] # h]
  /\ UNCHANGED <<asked, artifact, process, signalled, losses>>

\* putDecompilationArtifact: a stored success stays; a failure gets its retry
\* time.  The caller has pseudocode only from the response itself.
Store(h) ==
  /\ flight[h] = "storing"
  /\ artifact' = [artifact EXCEPT ![h] =
                    IF @ = "decompiled" \/ reply[h] = "decompiled" THEN "decompiled"
                                                                    ELSE "cooling"]
  /\ Settle(h, reply[h])
  /\ UNCHANGED <<service, losses>>

\* A query rejects, or there is no bytecode: so does the promise.
StoreFails(h) ==
  /\ flight[h] \in {"looking", "storing"}
  /\ Lose
  /\ Settle(h, "failed")
  /\ UNCHANGED <<artifact, service>>

\* retryAfter passes.
RetryDue(h) ==
  /\ artifact[h] = "cooling"
  /\ artifact' = [artifact EXCEPT ![h] = "due"]
  /\ UNCHANGED <<asked, flight, reply, service, losses>>

\* trace-api restarts: its requests and its map are gone, the row stays.
GatewayRestarts ==
  /\ Lose
  /\ asked' = [r \in Requests |-> IF asked[r] = "waiting" THEN "failed" ELSE asked[r]]
  /\ flight' = [h \in Codes |-> "none"]
  /\ reply' = [h \in Codes |-> "none"]
  /\ heard' = [s \in Slots |-> FALSE]
  /\ UNCHANGED <<artifact, process, signalled>>

-----------------------------------------------------------------------------
(* The service.                                                            *)

\* The process of slot s has closed its pipes: the slot is free again, and the
\* response is on its way if someone waits for it.
Closed(s, outcome) ==
  /\ process' = [process EXCEPT ![s] = Free]
  /\ signalled' = [signalled EXCEPT ![s] = "none"]
  /\ heard' = [heard EXCEPT ![s] = FALSE]
  /\ reply' = IF heard[s] THEN [reply EXCEPT ![process[s]] = outcome] ELSE reply
  /\ UNCHANGED <<asked, flight, artifact, losses>>

\* It ends by itself, with whatever it has found.
Exits(s) ==
  /\ process[s] # Free /\ signalled[s] = "none"
  /\ \E outcome \in Outcomes : Closed(s, outcome)

\* timeoutMs has passed: SIGTERM, which it may ignore.
Deadline(s) ==
  /\ process[s] # Free /\ signalled[s] = "none"
  /\ signalled' = [signalled EXCEPT ![s] = "term"]
  /\ UNCHANGED <<gateway, process, heard, losses>>

\* SIGTERM is all there is.
Kill_Bug(s) == FALSE /\ UNCHANGED vars

\* 250 ms later: SIGKILL.
Kill(s) ==
  /\ process[s] # Free /\ signalled[s] = "term"
  /\ signalled' = [signalled EXCEPT ![s] = "kill"]
  /\ UNCHANGED <<gateway, process, heard, losses>>

\* It has written more than maxOutputBytes: SIGKILL at once.
Overruns(s) ==
  /\ process[s] # Free /\ signalled[s] # "kill"
  /\ signalled' = [signalled EXCEPT ![s] = "kill"]
  /\ UNCHANGED <<gateway, process, heard, losses>>

\* It dies of the signal: a timeout or an output_limit is the response.
Dies(s) ==
  /\ process[s] # Free /\ signalled[s] # "none"
  /\ Closed(s, "opaque")

\* The container of the service is restarted, its processes with it.  A request
\* without a response gets an error; of the responses being sent some, cut, are
\* cut off: the listener for the end of the response is never called, nor is
\* the one for errors of the request, and the timer finds the request destroyed.
ServiceRestarts(cut) ==
  /\ Lose
  /\ \A h \in cut : flight[h] = "calling" /\ reply[h] # "none"
  /\ flight' = [h \in Codes |->
                  IF h \in cut THEN "hung"
                  ELSE IF flight[h] = "calling" THEN "storing" ELSE flight[h]]
  /\ reply' = [h \in Codes |->
                  IF h \in cut THEN "none"
                  ELSE IF flight[h] = "calling" /\ reply[h] = "none" THEN "opaque"
                  ELSE reply[h]]
  /\ process' = [s \in Slots |-> Free]
  /\ signalled' = [s \in Slots |-> "none"]
  /\ heard' = [s \in Slots |-> FALSE]
  /\ UNCHANGED <<asked, artifact>>

-----------------------------------------------------------------------------
Gateway(h) ==
  \/ Hit(h) \/ (\E s \in Slots : Accept(h, s)) \/ Refuse(h) \/ Deliver(h)
  \/ ClientTimeout(h) \/ Store(h)

\* What goes on behind the requests.
Work ==
  \/ \E h \in Codes : Gateway(h)
  \/ \E h \in Codes : StoreFails(h) \/ RetryDue(h)
  \/ \E s \in Slots : Exits(s) \/ Deadline(s) \/ Kill(s) \/ Overruns(s) \/ Dies(s)
  \/ GatewayRestarts
  \/ \E cut \in SUBSET Codes : ServiceRestarts(cut)

Next == (\E r \in Requests : Resolve(r) \/ Taken(r)) \/ Work

Spec == Init /\ [][Next]_vars

\* The event loop, the timers and the store of the gateway; the timers of the
\* service, and the kernel that ends a killed process.  A process need not end.
Fairness ==
  /\ \A h \in Codes : WF_vars(Gateway(h))
  /\ \A s \in Slots : /\ WF_vars(Deadline(s)) /\ WF_vars(Kill(s))
                      /\ WF_vars(signalled[s] = "kill" /\ Dies(s))

FairSpec == Spec /\ Fairness

-----------------------------------------------------------------------------
\* Every variable has its type.
TypeOK ==
  /\ asked \in [Requests -> {"idle", "waiting"} \cup Answers]
  /\ flight \in [Codes -> Flights]
  /\ reply \in [Codes -> {"none"} \cup Outcomes]
  /\ artifact \in [Codes -> Artifacts]
  /\ process \in [Slots -> Codes \cup {Free}]
  /\ signalled \in [Slots -> {"none", "term", "kill"}]
  /\ heard \in [Slots -> BOOLEAN]
  /\ losses \in 0..MaxLosses

\* One client call per codehash: a process that is heard works for the promise
\* in the map, alone, and a promise that awaits a response will get one.
OneCall ==
  /\ \A s \in Slots : heard[s] => /\ process[s] # Free
                                  /\ flight[process[s]] = "calling"
                                  /\ reply[process[s]] = "none"
  /\ \A s, t \in Slots : heard[s] /\ heard[t] /\ process[s] = process[t] => s = t
  /\ \A h \in Codes : flight[h] = "calling" /\ reply[h] = "none" =>
       \E s \in Slots : heard[s] /\ process[s] = h
  /\ \A h \in Codes : reply[h] # "none" => flight[h] \in {"calling", "storing"}
  /\ \A h \in Codes : flight[h] = "storing" => reply[h] # "none"

\* The service is asked for what is not stored only.
AsksForMissing ==
  \A h \in Codes : flight[h] \in {"calling", "hung", "storing"} => artifact[h] # "decompiled"

\* A request waits only for a promise in the map.
WaitsInMap == \A r \in Requests : asked[r] = "waiting" => flight[CodeOf[r]] # "none"

\* The inductive invariant.
IndInv == TypeOK /\ OneCall /\ AsksForMissing /\ WaitsInMap

\* decompiler.ts:233: once the pseudocode of a codehash is stored, no later
\* answer for it is the bare bytecode, whatever call was under way, timed out,
\* was refused or lost with a restart.
NeverForgotten ==
  [][\A r \in Requests :
       asked[r] # "opaque" /\ asked'[r] = "opaque" => artifact[CodeOf[r]] # "decompiled"]_vars

\* runner.ts:185: a slot that is taken is given back, also when the process
\* neither ends nor heeds SIGTERM and nobody waits for its response any more.
SlotsReturn == \A s \in Slots : (process[s] # Free) ~> (process[s] = Free)

=============================================================================
