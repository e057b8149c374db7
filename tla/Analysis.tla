--------------------------------- MODULE Analysis ---------------------------------
(***************************************************************************)
(* The path agent-api -> trace-api -> decompiler-api of docs/adr/016: the    *)
(* calls of ContractAnalysis get their evidence from the gateway and the     *)
(* worker slots of Decompilation.  The contracts have no verified source, so *)
(* their evidence is the pseudocode, or the bare bytecode while there is     *)
(* none (CandidateAnalysisGateway of                                         *)
(* src/apps/trace-api/src/candidateAnalysis.ts).                             *)
(***************************************************************************)
EXTENDS ContractAnalysis

CONSTANTS Slots, Free, MaxLosses

ASSUME SlotAssumption == Free \notin Codes /\ MaxLosses \in Nat

VARIABLES asked, flight, reply, artifact, process, signalled, heard, losses

Evidence == INSTANCE Decompilation WITH Requests <- Calls

gateway == <<asked, flight, reply, artifact, process, signalled, heard, losses>>
vars == <<analysis, gateway>>

Init == AnalysisInit /\ Evidence!Init

\* The request of a call reaches the gateway.  One it has given up on is still
\* there, and shares the same promise.
Request(c) ==
  /\ Ask(c)
  /\ IF asked[c] = "waiting" THEN UNCHANGED gateway ELSE Evidence!Resolve(c)

\* The evidence preference of resolve: pseudocode, else the bare bytecode.
Resolved(c) ==
  /\ asked[c] \in Refs
  /\ EvidenceComes(c, asked[c])
  /\ Evidence!Taken(c)

\* The gateway answers with an error,
Unresolved(c) ==
  /\ asked[c] = "failed"
  /\ EvidenceFails(c)
  /\ Evidence!Taken(c)

\* or not in time: its request goes on without the call.
TimesOut(c) == EvidenceTimeout(c) /\ UNCHANGED gateway

Next ==
  \/ \E c \in Calls : Request(c) \/ Resolved(c) \/ Unresolved(c) \/ TimesOut(c)
  \/ Inside /\ UNCHANGED gateway
  \/ Evidence!Work /\ UNCHANGED analysis

Spec == Init /\ [][Next]_vars

FairSpec == Spec /\ AnalysisFairness /\ Evidence!Fairness

-----------------------------------------------------------------------------
\* The invariants of both: of the gateway, that each promise in its map has one
\* call at most, and each waiting request a promise.
IndInv == AnalysisIndInv /\ Evidence!TypeOK /\ Evidence!OneCall /\ Evidence!WaitsInMap

\* The properties of Decompilation, for the requests the calls make.
SlotsReturn == Evidence!SlotsReturn
NeverForgotten == Evidence!NeverForgotten
=============================================================================
