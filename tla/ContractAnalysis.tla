----------------------------- MODULE ContractAnalysis -----------------------------
(***************************************************************************)
(* Contract analysis in agent-api: the tool request_contract_analysis of a   *)
(* Discovery turn (src/apps/agent-api/src/runner.ts), which resolves the     *)
(* evidence of a candidate, looks for its bundle in the durable cache, and   *)
(* otherwise runs one child for it, shared by all that ask meanwhile         *)
(* (contractAnalysis.ts, the bundles of store.ts, runChild of scheduler.ts). *)
(*                                                                         *)
(* A call stands for one candidate of one parent turn; it may be made again  *)
(* after it was answered.  Evidence is named by its artifactRef, which       *)
(* changes when a contract that was opaque has been decompiled.              *)
(***************************************************************************)
EXTENDS Integers

CONSTANTS
  Calls,      \* a candidate, with its address, as a parent turn may ask for it
  Parents,    \* Discovery conversations, one turn at a time each
  ParentOf,   \* the conversation a call belongs to
  Codes,      \* runtime codehashes
  CodeOf,     \* the codehash of the candidate
  Refs,       \* artifactRefs of the evidence of a codehash
  None,       \* no call, no artifactRef
  MaxFaults   \* bound: restarts, store failures, and clients that leave

ASSUME CallAssumption ==
  ParentOf \in [Calls -> Parents] /\ CodeOf \in [Calls -> Codes] /\ None \notin Calls \cup Refs
ASSUME FaultAssumption == MaxFaults \in Nat

VARIABLES
  pc,        \* where a call is: see Places
  ref,       \* the artifactRef of the evidence it has resolved
  found,     \* what getBundleVersion has answered it: see Findings
  sharing,   \* the call whose promise it awaits
  told,      \* the bundle its model was given, by the artifactRef it is about
  inFlight,  \* the in-flight map: per codehash and artifactRef a call, or None
  stored,    \* per codehash, the artifactRefs with a bundle
  newest,    \* per codehash, the bundle saved last
  listed,    \* per codehash, the calls whose address is among its addresses
  left,      \* conversations whose turn has lost its client
  faults     \* faults so far

callVars == <<pc, ref, found, sharing, told>>
database == <<stored, newest, listed>>
analysis == <<callVars, inFlight, database, left, faults>>

Places == {"idle", "resolving", "reading", "read", "listing", "choosing", "sharing",
           "child", "saving", "saved", "ok", "error"}
Answered == {"ok", "error"}
Findings == {"nothing", "listed", "unlisted"}

\* A promise in the map is at one of these places.
Owning == {"child", "saving", "saved"}

-----------------------------------------------------------------------------
AnalysisInit ==
  /\ pc = [c \in Calls |-> "idle"]
  /\ ref = [c \in Calls |-> None]
  /\ found = [c \in Calls |-> "nothing"]
  /\ sharing = [c \in Calls |-> None]
  /\ told = [c \in Calls |-> None]
  /\ inFlight = [h \in Codes |-> [a \in Refs |-> None]]
  /\ stored = [h \in Codes |-> {}]
  /\ newest = [h \in Codes |-> None]
  /\ listed = [h \in Codes |-> {}]
  /\ left = {}
  /\ faults = 0

Fault == faults < MaxFaults /\ faults' = faults + 1
Moves(c, from, to) == pc[c] = from /\ pc' = [pc EXCEPT ![c] = to]

-----------------------------------------------------------------------------
(* The evidence of the candidate, from trace-api.                          *)

\* The model calls the tool, with a candidate it may ask for.
Ask(c) ==
  /\ pc[c] \in {"idle"} \cup Answered
  /\ ParentOf[c] \notin left
  /\ pc' = [pc EXCEPT ![c] = "resolving"]
  /\ ref' = [ref EXCEPT ![c] = None]
  /\ told' = [told EXCEPT ![c] = None]
  /\ UNCHANGED <<found, sharing, inFlight, database, left, faults>>

\* resolveAnalysisEvidence returns, with the evidence there is at that time.
EvidenceComes(c, a) ==
  /\ Moves(c, "resolving", "reading")
  /\ ref' = [ref EXCEPT ![c] = a]
  /\ UNCHANGED <<found, sharing, told, inFlight, database, left, faults>>

\* The timeout asks again, without bound.
EvidenceTimeout_Bug(c) == pc[c] = "resolving" /\ UNCHANGED analysis

\* AbortSignal.timeout(120_000).
EvidenceTimeout(c) ==
  /\ Moves(c, "resolving", "error")
  /\ UNCHANGED <<ref, found, sharing, told, inFlight, database, left, faults>>

\* The response is an error, or not evidence.
EvidenceFails(c) ==
  /\ Moves(c, "resolving", "error")
  /\ UNCHANGED <<ref, found, sharing, told, inFlight, database, left, faults>>

-----------------------------------------------------------------------------
(* The durable cache.                                                      *)

\* getBundleVersion: the database answers ...
Read(c) ==
  /\ Moves(c, "reading", "read")
  /\ found' = [found EXCEPT ![c] =
                 IF ref[c] \notin stored[CodeOf[c]] THEN "nothing"
                 ELSE IF c \in listed[CodeOf[c]] THEN "listed" ELSE "unlisted"]
  /\ UNCHANGED <<ref, sharing, told, inFlight, database, left, faults>>

\* A call goes on with what was found, and forgets it.
Reads(c, finding, to) ==
  /\ Moves(c, "read", to)
  /\ found[c] = finding
  /\ found' = [found EXCEPT ![c] = "nothing"]

\* ... and, after the await, the bundle is handed to the model,
Cached(c) ==
  /\ Reads(c, "listed", "ok")
  /\ told' = [told EXCEPT ![c] = ref[c]]
  /\ UNCHANGED <<ref, sharing, inFlight, database, left, faults>>

\* or addBundleAddresses inserts the address of the candidate first,
Unlisted(c) ==
  /\ Reads(c, "unlisted", "listing")
  /\ UNCHANGED <<ref, sharing, told, inFlight, database, left, faults>>

List(c) ==
  /\ Moves(c, "listing", "choosing")
  /\ listed' = [listed EXCEPT ![CodeOf[c]] = @ \cup {c}]
  /\ UNCHANGED <<ref, found, sharing, told, inFlight, stored, newest, left, faults>>

\* and hands over what getBundles selects: the newest bundle of the codehash.
Choose(c) ==
  /\ Moves(c, "choosing", "ok")
  /\ told' = [told EXCEPT ![c] = newest[CodeOf[c]]]
  /\ UNCHANGED <<ref, found, sharing, inFlight, database, left, faults>>

\* A statement rejects.
QueryFails(c) ==
  /\ pc[c] \in {"reading", "listing", "choosing"}
  /\ Fault
  /\ pc' = [pc EXCEPT ![c] = "error"]
  /\ UNCHANGED <<ref, found, sharing, told, inFlight, database, left>>

-----------------------------------------------------------------------------
(* The child.                                                              *)

InFlight(c) == inFlight[CodeOf[c]][ref[c]]

\* runChild has not given the permit back.
PermitLent(p) == \E c \in Calls : ParentOf[c] = p /\ pc[c] = "child"

\* There is no bundle, and the promise of a child is in the map.
Share(c) ==
  /\ Reads(c, "nothing", "sharing")
  /\ InFlight(c) # None
  /\ sharing' = [sharing EXCEPT ![c] = InFlight(c)]
  /\ UNCHANGED <<ref, told, inFlight, database, left, faults>>

\* The map was asked before the await of getBundleVersion.
Own_Bug(c) ==
  /\ Reads(c, "nothing", "child")
  /\ ~PermitLent(ParentOf[c])
  /\ inFlight' = [inFlight EXCEPT ![CodeOf[c]][ref[c]] = c]
  /\ UNCHANGED <<ref, sharing, told, database, left, faults>>

\* Neither: the turn lends its permit to a child of this call, whose promise is
\* in the map before anything else runs.
Own(c) ==
  /\ Reads(c, "nothing", "child")
  /\ InFlight(c) = None /\ ~PermitLent(ParentOf[c])
  /\ inFlight' = [inFlight EXCEPT ![CodeOf[c]][ref[c]] = c]
  /\ UNCHANGED <<ref, sharing, told, database, left, faults>>

\* The permit is lent to a child of another call of the turn.
NestedRefused(c) ==
  /\ Reads(c, "nothing", "error")
  /\ InFlight(c) = None /\ PermitLent(ParentOf[c])
  /\ UNCHANGED <<ref, sharing, told, inFlight, database, left, faults>>

\* The child ends with a report, and the report is a bundle.
ChildReports(c) ==
  /\ Moves(c, "child", "saving")
  /\ UNCHANGED <<ref, found, sharing, told, inFlight, database, left, faults>>

\* saveBundleVersion commits: the bundle, and the address of the call.
Save(c) ==
  /\ Moves(c, "saving", "saved")
  /\ stored' = [stored EXCEPT ![CodeOf[c]] = @ \cup {ref[c]}]
  /\ newest' = [newest EXCEPT ![CodeOf[c]] = ref[c]]
  /\ listed' = [listed EXCEPT ![CodeOf[c]] = @ \cup {c}]
  /\ UNCHANGED <<ref, found, sharing, told, inFlight, left, faults>>

\* The calls that await the promise of c, c among them.
Sharers(c) == {c} \cup {d \in Calls : pc[d] = "sharing" /\ sharing[d] = c}

\* The promise of c settles, for all that share it, and leaves the map.
Settle(c, place, bundle) ==
  /\ pc' = [d \in Calls |-> IF d \in Sharers(c) THEN place ELSE pc[d]]
  /\ told' = [d \in Calls |-> IF d \in Sharers(c) THEN bundle ELSE told[d]]
  /\ sharing' = [d \in Calls |-> IF d \in Sharers(c) THEN None ELSE sharing[d]]
  /\ inFlight' = [inFlight EXCEPT ![CodeOf[c]][ref[c]] = None]

\* The bundle is handed over when it is parsed, not when it is saved.
Finish_Bug(c) ==
  /\ pc[c] \in {"saving", "saved"}
  /\ Settle(c, "ok", ref[c])
  /\ UNCHANGED <<ref, found, database, left, faults>>

\* The COMMIT returns.
Finish(c) ==
  /\ pc[c] = "saved"
  /\ Settle(c, "ok", ref[c])
  /\ UNCHANGED <<ref, found, database, left, faults>>

\* The child reports nothing, or no bundle: the model failed, or its turn was
\* aborted.
ChildFails(c) ==
  /\ pc[c] = "child"
  /\ Settle(c, "error", None)
  /\ UNCHANGED <<ref, found, database, left, faults>>

\* The transaction is rolled back, or the answer of its COMMIT is lost.
SaveFails(c) ==
  /\ pc[c] \in {"saving", "saved"}
  /\ Fault
  /\ Settle(c, "error", None)
  /\ UNCHANGED <<ref, found, database, left>>

-----------------------------------------------------------------------------
\* The client of a turn leaves: its child may be aborted, its calls go on.
Leave(p) ==
  /\ p \notin left
  /\ Fault
  /\ left' = left \cup {p}
  /\ UNCHANGED <<callVars, inFlight, database>>

\* Its turn has ended, and the conversation goes on with another.
Returns(p) ==
  /\ p \in left
  /\ \A c \in Calls : ParentOf[c] = p => pc[c] \in {"idle"} \cup Answered
  /\ left' = left \ {p}
  /\ UNCHANGED <<callVars, inFlight, database, faults>>

\* agent-api restarts: turns, calls and the map are gone.
AgentRestarts ==
  /\ Fault
  /\ pc' = [c \in Calls |-> "idle"]
  /\ sharing' = [c \in Calls |-> None]
  /\ ref' = [c \in Calls |-> None]
  /\ found' = [c \in Calls |-> "nothing"]
  /\ told' = [c \in Calls |-> None]
  /\ inFlight' = [h \in Codes |-> [a \in Refs |-> None]]
  /\ left' = {}
  /\ UNCHANGED database

-----------------------------------------------------------------------------
\* What a call does when the event loop or the database come back to it.
Proceed(c) ==
  \/ Read(c) \/ Cached(c) \/ Unlisted(c) \/ List(c) \/ Choose(c)
  \/ Share(c) \/ Own(c) \/ NestedRefused(c) \/ Save(c) \/ Finish(c)

ChildEnds(c) == ChildReports(c) \/ ChildFails(c)

Inside ==
  \/ \E c \in Calls : Proceed(c)
  \/ \E c \in Calls : ChildEnds(c)
  \/ \E c \in Calls : QueryFails(c) \/ SaveFails(c)
  \/ \E p \in Parents : Leave(p) \/ Returns(p)
  \/ AgentRestarts

\* With any evidence: Analysis takes it from the gateway.
AnalysisNext ==
  \/ \E c \in Calls : Ask(c)
  \/ \E c \in Calls, a \in Refs : EvidenceComes(c, a)
  \/ \E c \in Calls : EvidenceFails(c) \/ EvidenceTimeout(c)
  \/ Inside

AnalysisSpec == AnalysisInit /\ [][AnalysisNext]_analysis

\* The event loop, the database and the timer of the evidence; a model that is
\* prompted ends, well or not.
AnalysisFairness ==
  \A c \in Calls : /\ WF_analysis(Proceed(c)) /\ WF_analysis(ChildEnds(c))
                   /\ WF_analysis(EvidenceTimeout(c))

-----------------------------------------------------------------------------
\* Every variable has its type.
AnalysisTypeOK ==
  /\ pc \in [Calls -> Places]
  /\ ref \in [Calls -> Refs \cup {None}]
  /\ found \in [Calls -> Findings]
  /\ sharing \in [Calls -> Calls \cup {None}]
  /\ told \in [Calls -> Refs \cup {None}]
  /\ inFlight \in [Codes -> [Refs -> Calls \cup {None}]]
  /\ stored \in [Codes -> SUBSET Refs]
  /\ newest \in [Codes -> Refs \cup {None}]
  /\ listed \in [Codes -> SUBSET Calls]
  /\ left \subseteq Parents
  /\ faults \in 0..MaxFaults

\* contractAnalysis.ts:221, docs/adr/016 "share one in-flight child": the child
\* of a bundle is the one in the map, so there is one of them, although each
\* call looks at the map only after it has waited for the database; and those
\* that share it wait for the bundle of their own evidence.
OneChildPerBundle ==
  /\ \A c \in Calls : pc[c] \in Owning => InFlight(c) = c
  /\ \A h \in Codes, a \in Refs : inFlight[h][a] # None =>
       LET c == inFlight[h][a]
       IN  pc[c] \in Owning /\ CodeOf[c] = h /\ ref[c] = a
  /\ \A c \in Calls : pc[c] = "sharing" =>
       /\ sharing[c] # None /\ pc[sharing[c]] \in Owning
       /\ CodeOf[sharing[c]] = CodeOf[c] /\ ref[sharing[c]] = ref[c]

\* A call past the evidence has one.
HasEvidence ==
  \A c \in Calls : pc[c] \in Places \ ({"idle", "resolving"} \cup Answered) => ref[c] \in Refs

\* contractAnalysis.ts:217, "one durable result": a bundle that was handed to a
\* model is stored, whoever ran its child, left, failed or restarted since.
ToldIsStored ==
  /\ \A c \in Calls : pc[c] = "ok" => told[c] \in stored[CodeOf[c]]
  /\ \A c \in Calls : told[c] # None => told[c] \in stored[CodeOf[c]]

\* What makes it so: what a call has read or saved is there, and so is the
\* newest bundle of a codehash that has one.
SeenIsStored ==
  /\ \A c \in Calls : pc[c] = "saved" \/ pc[c] \in {"listing", "choosing"}
                        => ref[c] \in stored[CodeOf[c]]
  /\ \A c \in Calls : pc[c] = "read" /\ found[c] # "nothing" => ref[c] \in stored[CodeOf[c]]
  /\ \A h \in Codes : stored[h] # {} => newest[h] \in stored[h]

\* A turn lends its permit to one child at a time.
OnePermit ==
  \A c, d \in Calls : pc[c] = "child" /\ pc[d] = "child" /\ ParentOf[c] = ParentOf[d] => c = d

\* The inductive invariant of ContractAnalysis_proofs.
AnalysisIndInv ==
  AnalysisTypeOK /\ OneChildPerBundle /\ HasEvidence /\ ToldIsStored /\ SeenIsStored /\ OnePermit

\* runner.ts:556: the tool answers the model, so its turn goes on, when the
\* evidence never comes, another turn ran the child, its client left, or the
\* permit was lent.
EveryCallEnds == \A c \in Calls : (pc[c] # "idle") ~> (pc[c] \in {"idle"} \cup Answered)
=============================================================================
